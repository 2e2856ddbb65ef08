---------------------------- MODULE AutomationProofs ---------------------------
(***************************************************************************)
(* Theorems about the generated server, for every set of definitions, every *)
(* alphabet and any number of objects: the variables keep their types, and *)
(* the tables with their string comparisons implement the tree of named    *)
(* objects of Device.  The argument: INFO_LIST is sorted by path, without  *)
(* repetition; paths and names tell each other apart; what extends a path  *)
(* follows it without a gap; so lookups, listings and dumps are those of   *)
(* the tree.  Children differ in their names, so no dump shows one object  *)
(* twice, and what it shows joined is a stretch of one path only.          *)
(***************************************************************************)
EXTENDS Automation, SequenceTheorems, FiniteSetTheorems, WellFoundedInduction, TLAPS

-----------------------------------------------------------------------------
(* Sets put in order.                                                       *)

\* Every set of numbers has a least one.
LEMMA LeastNumber ==
  ASSUME NEW T, T \subseteq Nat, T # {}
  PROVE  \E x \in T : \A y \in T : x <= y
<1> DEFINE R == {ss \in Nat \X Nat : ss[1] < ss[2]}
<1>1. IsWellFoundedOn(R, Nat)
  BY NatLessThanWellFounded DEF OpToRel
<1>2. \E x \in T : \A y \in T : <<y, x>> \notin R
  <2> HIDE DEF R
  <2> QED
    BY <1>1, WFMin
<1>3. PICK x \in T : \A y \in T : <<y, x>> \notin R
  BY <1>2
<1>4. ASSUME NEW y \in T
      PROVE  x <= y
  <2>1. y \in Nat /\ x \in Nat
    OBVIOUS
  <2>2. <<y, x>> \in Nat \X Nat /\ <<y, x>>[1] = y /\ <<y, x>>[2] = x
    BY <2>1
  <2>3. <<y, x>> \notin R
    BY <1>3, Zenon
  <2>4. ~ (<<y, x>>[1] < <<y, x>>[2])
    BY <2>2, <2>3, Zenon
  <2> QED
    BY <2>1, <2>2, <2>4
<1> QED
  BY <1>4

\* R orders S, and what comes before x.
Orders(R, S) ==
  /\ \A x \in S : <<x, x>> \notin R
  /\ \A x, y, z \in S : <<x, y>> \in R /\ <<y, z>> \in R => <<x, z>> \in R
  /\ \A x, y \in S : x # y => <<x, y>> \in R \/ <<y, x>> \in R

Lower(R, S, x) == {y \in S : <<y, x>> \in R}

LEMMA RankGrows ==
  ASSUME NEW S, IsFiniteSet(S), NEW R, Orders(R, S), NEW x \in S
  PROVE  /\ Cardinality(Lower(R, S, x)) \in 0 .. Cardinality(S) - 1
         /\ \A y \in S : <<x, y>> \in R =>
              Cardinality(Lower(R, S, x)) < Cardinality(Lower(R, S, y))
<1>1. ASSUME NEW T \in SUBSET S, Lower(R, S, x) \subseteq T, x \in T
      PROVE  /\ Cardinality(T) \in Nat /\ Cardinality(Lower(R, S, x)) \in Nat
             /\ Cardinality(Lower(R, S, x)) < Cardinality(T)
  <2>1. IsFiniteSet(T)
    BY FS_Subset
  <2>2. /\ IsFiniteSet(Lower(R, S, x))
        /\ Cardinality(Lower(R, S, x)) <= Cardinality(T)
        /\ Cardinality(T) = Cardinality(Lower(R, S, x)) => T = Lower(R, S, x)
    BY <1>1, <2>1, FS_Subset
  <2>3. x \notin Lower(R, S, x)
    BY DEF Orders, Lower
  <2> QED
    BY <1>1, <2>1, <2>2, <2>3, FS_CardinalityType
<1>2. Lower(R, S, x) \in SUBSET S
  BY DEF Lower
<1>3. ASSUME NEW y \in S, <<x, y>> \in R
      PROVE  Cardinality(Lower(R, S, x)) < Cardinality(Lower(R, S, y))
  <2>1. Lower(R, S, y) \in SUBSET S /\ Lower(R, S, x) \subseteq Lower(R, S, y) /\ x \in Lower(R, S, y)
    BY <1>3 DEF Orders, Lower
  <2> QED
    BY <1>1, <2>1
<1> QED
  BY <1>1, <1>2, <1>3

\* The n-th element is the one with n - 1 before it.
InPlace(R, S) ==
  [n \in 1 .. Cardinality(S) |-> CHOOSE x \in S : Cardinality(Lower(R, S, x)) = n - 1]

LEMMA InPlaceIs ==
  ASSUME NEW S, IsFiniteSet(S), NEW R, Orders(R, S)
  PROVE  /\ Cardinality(S) \in Nat
         /\ InPlace(R, S) \in Seq(S) /\ Len(InPlace(R, S)) = Cardinality(S)
         /\ \A m, n \in 1 .. Cardinality(S) :
              m < n => <<InPlace(R, S)[m], InPlace(R, S)[n]>> \in R
         /\ \A x \in S : \E n \in 1 .. Cardinality(S) : InPlace(R, S)[n] = x
<1> DEFINE rank == [x \in S |-> Cardinality(Lower(R, S, x)) + 1]
           size == Cardinality(S)
<1>1. size \in Nat
  BY FS_CardinalityType
<1>2. \A x \in S : rank[x] \in 1 .. size /\ rank[x] - 1 = Cardinality(Lower(R, S, x))
  BY <1>1, RankGrows
<1>3. \A x, y \in S : <<x, y>> \in R => rank[x] < rank[y]
  <2>1. ASSUME NEW x \in S, NEW y \in S, <<x, y>> \in R
        PROVE  rank[x] < rank[y]
    BY <1>2, <2>1, RankGrows
  <2> QED
    BY <2>1
<1>4. \A x, y \in S : rank[x] = rank[y] => x = y
  <2>1. ASSUME NEW x \in S, NEW y \in S, rank[x] = rank[y], x # y
        PROVE  FALSE
    <3> HIDE DEF rank, size
    <3>1. <<x, y>> \in R \/ <<y, x>> \in R
      BY <2>1 DEF Orders
    <3> QED
      BY <1>1, <1>2, <1>3, <2>1, <3>1
  <2> QED
    BY <2>1
<1>5. \A n \in 1 .. size : \E x \in S : rank[x] = n
  <2>0. rank \in [S -> 1 .. size]
    BY <1>2
  <2>1. rank \in Injection(S, 1 .. size)
    BY <2>0, <1>4 DEF Injection, IsInjective
  <2>2. IsFiniteSet(1 .. size) /\ Cardinality(1 .. size) = size
    BY <1>1, FS_Interval
  <2>3. rank \in Surjection(S, 1 .. size)
    <3> HIDE DEF rank
    <3> QED
      BY <2>1, <2>2, FS_Injection
  <2> QED
    BY <2>3 DEF Surjection
<1>6. \A n \in 1 .. size : InPlace(R, S)[n] \in S /\ rank[InPlace(R, S)[n]] = n
  <2>1. ASSUME NEW n \in 1 .. size
        PROVE  InPlace(R, S)[n] \in S /\ rank[InPlace(R, S)[n]] = n
    <3>1. \E x \in S : Cardinality(Lower(R, S, x)) = n - 1
      <4>1. PICK x \in S : rank[x] = n
        BY <1>5
      <4> QED
        BY <1>2, <4>1
    <3>2. InPlace(R, S)[n] = CHOOSE x \in S : Cardinality(Lower(R, S, x)) = n - 1
      BY DEF InPlace
    <3>3. /\ InPlace(R, S)[n] \in S
          /\ Cardinality(Lower(R, S, InPlace(R, S)[n])) = n - 1
      <4> DEFINE P(x) == Cardinality(Lower(R, S, x)) = n - 1
      <4>1. \E x \in S : P(x)
        BY <3>1
      <4>2. InPlace(R, S)[n] = CHOOSE x \in S : P(x)
        BY <3>2
      <4> HIDE DEF P
      <4>3. InPlace(R, S)[n] \in S /\ P(InPlace(R, S)[n])
        BY <4>1, <4>2, Zenon
      <4> QED
        BY <4>3 DEF P
    <3> QED
      BY <1>2, <3>3
  <2> QED
    BY <2>1
<1> HIDE DEF rank
<1>7. InPlace(R, S) \in Seq(S) /\ Len(InPlace(R, S)) = size
  <2>1. InPlace(R, S) = [n \in 1 .. size |-> InPlace(R, S)[n]]
    BY DEF InPlace
  <2>2. InPlace(R, S) \in [1 .. size -> S]
    BY <1>6, <2>1
  <2>3. InPlace(R, S) \in Seq(S)
    BY <1>1, <2>2, SeqDef
  <2> QED
    BY <1>1, <2>2, <2>3, LenProperties
<1>8. ASSUME NEW m \in 1 .. size, NEW n \in 1 .. size, m < n
      PROVE  <<InPlace(R, S)[m], InPlace(R, S)[n]>> \in R
  <2>1. PICK x, y : x = InPlace(R, S)[m] /\ y = InPlace(R, S)[n]
    OBVIOUS
  <2>2. x \in S /\ y \in S /\ rank[x] = m /\ rank[y] = n
    BY <1>6, <2>1
  <2>3. <<x, y>> \in R \/ <<y, x>> \in R
    BY <1>1, <1>8, <2>2 DEF Orders
  <2> QED
    BY <1>1, <1>3, <1>8, <2>1, <2>2, <2>3
<1>9. ASSUME NEW x \in S
      PROVE  \E n \in 1 .. size : InPlace(R, S)[n] = x
  <2>1. rank[x] \in 1 .. size
    BY <1>2
  <2> QED
    BY <1>4, <1>6, <2>1
<1> QED
  BY <1>1, <1>7, <1>8, <1>9

Less == {ss \in Nat \X Nat : ss[1] < ss[2]}

\* The numbers of a set in order grow, and are all there.
LEMMA InOrderIs ==
  ASSUME NEW S, IsFiniteSet(S), S \subseteq Nat
  PROVE  /\ Cardinality(S) \in Nat
         /\ InOrder(S) \in Seq(S) /\ Len(InOrder(S)) = Cardinality(S)
         /\ \A m, n \in 1 .. Cardinality(S) : m < n => InOrder(S)[m] < InOrder(S)[n]
         /\ \A x \in S : \E n \in 1 .. Cardinality(S) : InOrder(S)[n] = x
<1>1. \A x, y \in Nat : <<x, y>> \in Less <=> x < y
  <2>1. ASSUME NEW x \in Nat, NEW y \in Nat
        PROVE  <<x, y>> \in Less <=> x < y
    <3>1. <<x, y>> \in Nat \X Nat /\ <<x, y>>[1] = x /\ <<x, y>>[2] = y
      OBVIOUS
    <3> QED
      BY <3>1, Zenon DEF Less
  <2> QED
    BY <2>1
<1>2. Orders(Less, S)
  BY <1>1 DEF Orders
<1>3. InOrder(S) = InPlace(Less, S)
  <2>1. \A x \in S : Lower(Less, S, x) = {j \in S : j < x}
    BY <1>1 DEF Lower
  <2> DEFINE One(n) == CHOOSE i \in S : Cardinality({j \in S : j < i}) = n - 1
             Other(n) == CHOOSE x \in S : Cardinality(Lower(Less, S, x)) = n - 1
  <2>2. ASSUME NEW n \in 1 .. Cardinality(S)
        PROVE  One(n) = Other(n)
    <3>1. \A x \in S : Cardinality({j \in S : j < x}) = n - 1
                         <=> Cardinality(Lower(Less, S, x)) = n - 1
      BY <2>1
    <3> QED
      BY <3>1
  <2>3. InOrder(S) = [n \in 1 .. Cardinality(S) |-> One(n)]
    BY Zenon DEF InOrder
  <2>4. InPlace(Less, S) = [n \in 1 .. Cardinality(S) |-> Other(n)]
    BY Zenon DEF InPlace
  <2> HIDE DEF One, Other
  <2> QED
    BY <2>2, <2>3, <2>4
<1>4. ASSUME NEW m \in 1 .. Cardinality(S), NEW n \in 1 .. Cardinality(S), m < n
      PROVE  InOrder(S)[m] < InOrder(S)[n]
  <2>1. PICK x, y : x = InOrder(S)[m] /\ y = InOrder(S)[n]
    OBVIOUS
  <2>2. x \in S /\ y \in S
    BY <1>2, <1>3, <2>1, InPlaceIs, ElementOfSeq
  <2>3. <<x, y>> \in Less
    BY <1>2, <1>3, <1>4, <2>1, InPlaceIs
  <2> QED
    BY <1>1, <2>1, <2>2, <2>3
<1> QED
  BY <1>2, <1>3, <1>4, InPlaceIs

-----------------------------------------------------------------------------
(* The order of paths.                                                      *)

Letters == Range(Characters)
Strings == Seq(Letters)

LEMMA CodeIs ==
  /\ \A c \in Letters : Code(c) \in Nat \ {0}
  /\ \A c, d \in Letters : Code(c) = Code(d) => c = d
<1>1. DOMAIN Characters = 1 .. Len(Characters) /\ Len(Characters) \in Nat
  BY DefinitionsAssumption, LenProperties DEF Letters
<1>2. ASSUME NEW c \in Letters
      PROVE  Code(c) \in DOMAIN Characters /\ Characters[Code(c)] = c
  <2>1. \E i \in DOMAIN Characters : Characters[i] = c
    BY DEF Letters, Range
  <2> QED
    BY <2>1, Zenon DEF Code
<1>3. \A c \in Letters : Code(c) \in Nat \ {0}
  BY <1>1, <1>2
<1>4. \A c, d \in Letters : Code(c) = Code(d) => c = d
  BY <1>2, Zenon
<1> QED
  BY <1>3, <1>4

\* p and q part at i: there q goes on, and p ends or has a smaller letter.
PartAt(p, q, i) ==
  /\ i \in 1 .. Len(q) /\ i <= Len(p) + 1
  /\ \A j \in 1 .. i - 1 : p[j] = q[j]
  /\ i <= Len(p) => Code(p[i]) < Code(q[i])

LEMMA FrontsEqual ==
  ASSUME NEW p \in Strings, NEW q \in Strings, NEW n \in Nat, n <= Len(p), n <= Len(q)
  PROVE  SubSeq(p, 1, n) = SubSeq(q, 1, n) <=> \A j \in 1 .. n : p[j] = q[j]
<1>1. Len(p) \in Nat /\ Len(q) \in Nat
  BY DEF Strings
<1>2. (\A j \in 1 .. n : p[j] \in Letters) /\ (\A j \in 1 .. n : q[j] \in Letters)
  BY <1>1, ElementOfSeq DEF Strings
<1>3. /\ SubSeq(p, 1, n) \in Strings /\ Len(SubSeq(p, 1, n)) = n
      /\ \A j \in 1 .. n : SubSeq(p, 1, n)[j] = p[j]
  <2>1. n \in Int /\ 1 \in Int /\ n - 1 + 1 = n /\ (\A j \in 1 .. n : 1 + j - 1 = j)
    OBVIOUS
  <2> QED
    BY <1>2, <2>1, SubSeqProperties DEF Strings
<1>4. /\ SubSeq(q, 1, n) \in Strings /\ Len(SubSeq(q, 1, n)) = n
      /\ \A j \in 1 .. n : SubSeq(q, 1, n)[j] = q[j]
  <2>1. n \in Int /\ 1 \in Int /\ n - 1 + 1 = n /\ (\A j \in 1 .. n : 1 + j - 1 = j)
    OBVIOUS
  <2> QED
    BY <1>2, <2>1, SubSeqProperties DEF Strings
<1>5. ASSUME \A j \in 1 .. n : p[j] = q[j]
      PROVE  SubSeq(p, 1, n) = SubSeq(q, 1, n)
  <2>1. \A j \in 1 .. Len(SubSeq(p, 1, n)) : SubSeq(p, 1, n)[j] = SubSeq(q, 1, n)[j]
    BY <1>3, <1>4, <1>5
  <2> QED
    BY <1>3, <1>4, <2>1, SeqEqual DEF Strings
<1>6. ASSUME SubSeq(p, 1, n) = SubSeq(q, 1, n)
      PROVE  \A j \in 1 .. n : p[j] = q[j]
  BY <1>3, <1>4, <1>6
<1> QED
  BY <1>5, <1>6

LEMMA PrefixIs ==
  ASSUME NEW p \in Strings, NEW q \in Strings
  PROVE  IsPrefix(p, q) <=> Len(p) <= Len(q) /\ \A j \in 1 .. Len(p) : p[j] = q[j]
BY FrontsEqual, LenProperties DEF IsPrefix, Strings

LEMMA BeforeIs ==
  ASSUME NEW p \in Strings, NEW q \in Strings
  PROVE  Before(p, q) <=> \E i \in Nat : PartAt(p, q, i)
<1>1. Len(p) \in Nat /\ Len(q) \in Nat
  BY DEF Strings
<1>2. ASSUME IsStrictPrefix(p, q)
      PROVE  \E i \in Nat : PartAt(p, q, i)
  <2>1. Len(p) <= Len(q) /\ (\A j \in 1 .. Len(p) : p[j] = q[j]) /\ p # q
    BY <1>2, PrefixIs DEF IsStrictPrefix
  <2>2. Len(p) # Len(q)
    BY <2>1, SeqEqual DEF Strings
  <2>3. PartAt(p, q, Len(p) + 1)
    BY <1>1, <2>1, <2>2 DEF PartAt
  <2> QED
    BY <1>1, <2>3
<1>3. ASSUME NEW i \in 1 .. Len(p), i <= Len(q),
             SubSeq(p, 1, i - 1) = SubSeq(q, 1, i - 1), Code(p[i]) < Code(q[i])
      PROVE  \E k \in Nat : PartAt(p, q, k)
  <2>1. \A j \in 1 .. i - 1 : p[j] = q[j]
    <3>1. PICK n \in Nat : n = i - 1
      BY <1>1
    <3> QED
      BY <1>1, <1>3, <3>1, FrontsEqual
  <2>2. PartAt(p, q, i)
    BY <1>1, <1>3, <2>1 DEF PartAt
  <2> QED
    BY <1>1, <2>2
<1>4. ASSUME NEW i \in Nat, PartAt(p, q, i)
      PROVE  Before(p, q)
  <2>1. CASE i = Len(p) + 1
    <3>1. IsPrefix(p, q) /\ Len(p) # Len(q)
      BY <1>1, <1>4, <2>1, PrefixIs DEF PartAt
    <3> QED
      BY <3>1 DEF Before, IsStrictPrefix
  <2>2. CASE i <= Len(p)
    <3>1. i \in 1 .. Len(p) /\ i <= Len(q) /\ Code(p[i]) < Code(q[i])
      BY <1>1, <1>4, <2>2 DEF PartAt
    <3>2. SubSeq(p, 1, i - 1) = SubSeq(q, 1, i - 1)
      <4>1. PICK n \in Nat : n = i - 1
        BY <3>1
      <4> QED
        BY <1>1, <1>4, <3>1, <4>1, FrontsEqual DEF PartAt
    <3> QED
      BY <3>1, <3>2 DEF Before
  <2> QED
    BY <1>1, <1>4, <2>1, <2>2 DEF PartAt
<1> QED
  BY <1>2, <1>3, <1>4 DEF Before

LEMMA BeforeIrreflexive ==
  ASSUME NEW p \in Strings
  PROVE  ~Before(p, p)
<1>1. Len(p) \in Nat
  BY DEF Strings
<1>2. \A i \in 1 .. Len(p) : Code(p[i]) \in Nat
  BY CodeIs, ElementOfSeq DEF Strings
<1> QED
  BY <1>1, <1>2, BeforeIs DEF PartAt

LEMMA BeforeTransitive ==
  ASSUME NEW p \in Strings, NEW q \in Strings, NEW r \in Strings, Before(p, q), Before(q, r)
  PROVE  Before(p, r)
<1>1. Len(p) \in Nat /\ Len(q) \in Nat /\ Len(r) \in Nat
  BY DEF Strings
<1>2. /\ \A i \in 1 .. Len(p) : Code(p[i]) \in Nat
      /\ \A i \in 1 .. Len(q) : Code(q[i]) \in Nat
      /\ \A i \in 1 .. Len(r) : Code(r[i]) \in Nat
  BY CodeIs, ElementOfSeq DEF Strings
<1>3. PICK i \in Nat : PartAt(p, q, i)
  BY BeforeIs
<1>4. PICK j \in Nat : PartAt(q, r, j)
  BY BeforeIs
<1>5. CASE i <= j
  <2>1. i \in 1 .. Len(r) /\ i <= Len(p) + 1
    BY <1>1, <1>3, <1>4, <1>5 DEF PartAt
  <2>2. \A n \in 1 .. i - 1 : p[n] = r[n]
    BY <1>1, <1>3, <1>4, <1>5 DEF PartAt
  <2>3. i < j => q[i] = r[i]
    BY <1>3, <1>4 DEF PartAt
  <2>4. i = j => i <= Len(q) /\ Code(q[i]) < Code(r[i])
    BY <1>1, <1>3, <1>4 DEF PartAt
  <2>5. i <= Len(p) => Code(p[i]) < Code(r[i])
    <3>1. i <= Len(p) => Code(p[i]) < Code(q[i])
      BY <1>3 DEF PartAt
    <3>2. i \in 1 .. Len(q)
      BY <1>3 DEF PartAt
    <3>3. i <= Len(p) => Code(p[i]) \in Nat /\ Code(q[i]) \in Nat /\ Code(r[i]) \in Nat
      BY <1>1, <1>2, <2>1, <3>2
    <3> QED
      BY <1>5, <2>3, <2>4, <3>1, <3>3
  <2>6. PartAt(p, r, i)
    BY <2>1, <2>2, <2>5 DEF PartAt
  <2> QED
    BY <2>6, BeforeIs
<1>6. CASE j < i
  <2>1. PartAt(p, r, j)
    BY <1>1, <1>2, <1>3, <1>4, <1>6 DEF PartAt
  <2> QED
    BY <2>1, BeforeIs
<1> QED
  BY <1>5, <1>6

LEMMA BeforeTotal ==
  ASSUME NEW p \in Strings, NEW q \in Strings, p # q
  PROVE  Before(p, q) \/ Before(q, p)
<1>1. Len(p) \in Nat /\ Len(q) \in Nat
  BY DEF Strings
<1>2. /\ \A i \in 1 .. Len(p) : p[i] \in Letters /\ Code(p[i]) \in Nat
      /\ \A i \in 1 .. Len(q) : q[i] \in Letters /\ Code(q[i]) \in Nat
  BY CodeIs, ElementOfSeq DEF Strings
<1> DEFINE differ == {i \in Nat : i \in 1 .. Len(p) /\ i <= Len(q) /\ p[i] # q[i]}
<1>3. CASE differ = {}
  <2>1. \A i \in 1 .. Len(p) : i <= Len(q) => p[i] = q[i]
    BY <1>1, <1>3
  <2>2. Len(p) # Len(q)
    BY <1>1, <2>1, SeqEqual DEF Strings
  <2>3. PartAt(p, q, Len(p) + 1) \/ PartAt(q, p, Len(q) + 1)
    BY <1>1, <2>1, <2>2 DEF PartAt
  <2> QED
    BY <1>1, <2>3, BeforeIs
<1>4. CASE differ # {}
  <2>1. PICK i \in differ : \A j \in differ : i <= j
    BY <1>4, LeastNumber
  <2>2. /\ i \in Nat /\ i \in 1 .. Len(p) /\ i \in 1 .. Len(q) /\ p[i] # q[i]
        /\ \A j \in 1 .. i - 1 : p[j] = q[j]
    BY <1>1, <2>1
  <2>3. Code(p[i]) # Code(q[i])
    BY <1>2, <2>2, CodeIs
  <2>4. PartAt(p, q, i) \/ PartAt(q, p, i)
    BY <1>1, <1>2, <2>2, <2>3 DEF PartAt
  <2> QED
    BY <2>2, <2>4, BeforeIs
<1> QED
  BY <1>3, <1>4

\* Records of different paths are put in an order by them.
Sooner(S) == {ss \in S \X S : Before(ss[1].path, ss[2].path)}

LEMMA SoonerOrders ==
  ASSUME NEW S, \A x \in S : x.path \in Strings,
         \A x, y \in S : x.path = y.path => x = y
  PROVE  /\ \A x, y \in S : <<x, y>> \in Sooner(S) <=> Before(x.path, y.path)
         /\ Orders(Sooner(S), S)
<1>1. ASSUME NEW x \in S, NEW y \in S
      PROVE  <<x, y>> \in Sooner(S) <=> Before(x.path, y.path)
  <2>1. <<x, y>> \in S \X S /\ <<x, y>>[1] = x /\ <<x, y>>[2] = y
    OBVIOUS
  <2> QED
    BY <2>1, Zenon DEF Sooner
<1>2. ASSUME NEW x \in S
      PROVE  <<x, x>> \notin Sooner(S)
  BY <1>1, BeforeIrreflexive
<1>3. ASSUME NEW x \in S, NEW y \in S, NEW z \in S, <<x, y>> \in Sooner(S), <<y, z>> \in Sooner(S)
      PROVE  <<x, z>> \in Sooner(S)
  BY <1>1, <1>3, BeforeTransitive
<1>4. ASSUME NEW x \in S, NEW y \in S, x # y
      PROVE  <<x, y>> \in Sooner(S) \/ <<y, x>> \in Sooner(S)
  <2>1. x.path # y.path
    BY <1>4
  <2> QED
    BY <1>1, <2>1, BeforeTotal
<1> QED
  BY <1>1, <1>2, <1>3, <1>4 DEF Orders

-----------------------------------------------------------------------------
(* What the generator writes.                                               *)

LEMMA RangeFinite ==
  ASSUME NEW f, IsFiniteSet(DOMAIN f)
  PROVE  IsFiniteSet({f[x] : x \in DOMAIN f})
<1> DEFINE values_ == {f[x] : x \in DOMAIN f}
           g == [x \in DOMAIN f |-> f[x]]
<1>1. g \in [DOMAIN f -> values_]
  OBVIOUS
<1>2. \A v \in values_ : \E x \in DOMAIN f : g[x] = v
  OBVIOUS
<1>3. g \in Surjection(DOMAIN f, values_)
  BY <1>1, <1>2 DEF Surjection
<1> QED
  BY <1>3, FS_Surjection

LEMMA FileIs ==
  ASSUME NEW d \in Files
  PROVE  /\ d \in Seq(Definitions) /\ Len(d) \in Nat /\ DOMAIN d = 1 .. Len(d)
         /\ \A i \in DOMAIN d : d[i] \in Definitions
         /\ \A i, j \in DOMAIN d : d[i].path = d[j].path => i = j
         /\ \A i, j \in DOMAIN d : d[i].path \in Parents(d[j].path) => i = j
<1>1. PICK n \in 0 .. MaxDefined : d \in [1 .. n -> Definitions]
  BY DEF Files
<1>2. n \in Nat
  BY DefinitionsAssumption
<1>3. d \in Seq(Definitions)
  BY <1>1, <1>2, SeqDef
<1>4. Len(d) \in Nat /\ DOMAIN d = 1 .. Len(d) /\ \A i \in DOMAIN d : d[i] \in Definitions
  BY <1>1, <1>3, LenProperties
<1>5. \A i, j \in DOMAIN d : i # j => d[i].path # d[j].path /\ d[i].path \notin Parents(d[j].path)
  BY DEF Files
<1> QED
  BY <1>3, <1>4, <1>5

LEMMA DefinitionIs ==
  ASSUME NEW e \in Definitions
  PROVE  /\ e.path \in Strings /\ Len(e.path) \in Nat /\ Len(e.path) > 1
         /\ e.path[1] = Slash /\ e.path[2] # Slash
         /\ e.kind \in Property \cup Function \cup {"monitor"}
         /\ TypeOf(e.kind) \in Types
<1>1. e.path \in Strings /\ Len(e.path) > 1 /\ e.path[1] = Slash /\ e.path[2] # Slash
      /\ e.kind \in Property \cup Function \cup {"monitor"}
  BY DefinitionsAssumption DEF Strings, Letters
<1>2. TypeOf(e.kind) \in Types
  BY DEF TypeOf, Types
<1> QED
  BY <1>1, <1>2 DEF Strings

LEMMA TableIs ==
  ASSUME NEW d \in Files, NEW t \in Types
  PROVE  /\ Tables(d)[t] \in Seq(Definitions)
         /\ Len(Tables(d)[t]) \in 0 .. Len(d)
         /\ DOMAIN Tables(d)[t] = 1 .. Len(Tables(d)[t])
         /\ \A n \in DOMAIN Tables(d)[t] :
              TypeOf(Tables(d)[t][n].kind) = t /\ \E i \in DOMAIN d : Tables(d)[t][n] = d[i]
         /\ \A i \in DOMAIN d : TypeOf(d[i].kind) = t =>
              \E n \in DOMAIN Tables(d)[t] : Tables(d)[t][n] = d[i]
         /\ \A m, n \in DOMAIN Tables(d)[t] :
              Tables(d)[t][m].path = Tables(d)[t][n].path => m = n
<1> DEFINE here == {i \in DOMAIN d : TypeOf(d[i].kind) = t}
           places == InOrder(here)
           table == [n \in DOMAIN places |-> d[places[n]]]
<1>1. Tables(d)[t] = table
  BY DEF Tables
<1>2. IsFiniteSet(here) /\ here \subseteq Nat /\ Cardinality(here) <= Len(d) /\ Len(d) \in Nat
  <2>1. Len(d) \in Nat /\ DOMAIN d = 1 .. Len(d)
    BY FileIs
  <2>2. IsFiniteSet(1 .. Len(d)) /\ Cardinality(1 .. Len(d)) = Len(d)
    <3>1. PICK n \in Nat : n = Len(d)
      BY <2>1
    <3>2. IsFiniteSet(1 .. n) /\ Cardinality(1 .. n) = IF 1 > n THEN 0 ELSE n - 1 + 1
      BY FS_Interval
    <3> QED
      BY <3>1, <3>2
  <2>3. here \in SUBSET (1 .. Len(d))
    BY <2>1
  <2> HIDE DEF here
  <2>4. IsFiniteSet(here) /\ Cardinality(here) <= Cardinality(1 .. Len(d))
    BY <2>2, <2>3, FS_Subset
  <2> QED
    BY <2>1, <2>2, <2>3, <2>4
<1>3. /\ Cardinality(here) \in Nat
      /\ places \in Seq(here) /\ Len(places) = Cardinality(here)
      /\ \A m, n \in 1 .. Cardinality(here) : m < n => places[m] < places[n]
      /\ \A x \in here : \E n \in 1 .. Cardinality(here) : places[n] = x
  <2> HIDE DEF here
  <2> QED
    BY <1>2, InOrderIs
<1>4. /\ DOMAIN places = 1 .. Cardinality(here)
      /\ \A n \in 1 .. Cardinality(here) : places[n] \in here
  <2> HIDE DEF here, places
  <2> QED
    BY <1>3, LenProperties, ElementOfSeq
<1>5. \A n \in 1 .. Cardinality(here) :
        /\ places[n] \in DOMAIN d /\ TypeOf(d[places[n]].kind) = t
        /\ table[n] = d[places[n]] /\ table[n] \in Definitions
  <2>1. \A i \in here : i \in DOMAIN d /\ TypeOf(d[i].kind) = t /\ d[i] \in Definitions
    BY FileIs
  <2> HIDE DEF here, places
  <2> QED
    BY <1>4, <2>1
<1>6. table \in Seq(Definitions) /\ Len(table) = Cardinality(here)
      /\ DOMAIN table = 1 .. Cardinality(here)
  <2> HIDE DEF here, places
  <2>1. DOMAIN table = 1 .. Cardinality(here)
    BY <1>4
  <2>2. table \in [1 .. Cardinality(here) -> Definitions]
    BY <1>4, <1>5
  <2> HIDE DEF table
  <2>3. table \in Seq(Definitions)
    BY <1>3, <2>2, SeqDef
  <2> QED
    BY <1>3, <2>1, <2>3, LenProperties
<1>7. ASSUME NEW m \in 1 .. Cardinality(here), NEW n \in 1 .. Cardinality(here),
             table[m].path = table[n].path
      PROVE  m = n
  <2>0. PICK i, j : i = places[m] /\ j = places[n]
    OBVIOUS
  <2>1. i = j /\ i \in Nat
    <3> HIDE DEF table, places, here
    <3> QED
      BY <1>5, <1>7, <2>0, FileIs
  <2>2. ~ (m < n) /\ ~ (n < m)
    <3> HIDE DEF table, places, here
    <3>1. m < n => i < j
      BY <1>3, <2>0
    <3>2. n < m => j < i
      BY <1>3, <2>0
    <3> QED
      BY <2>1, <3>1, <3>2
  <2> QED
    BY <1>3, <2>2
<1>8. ASSUME NEW i \in DOMAIN d, TypeOf(d[i].kind) = t
      PROVE  \E n \in 1 .. Cardinality(here) : table[n] = d[i]
  <2>1. i \in here
    BY <1>8
  <2> HIDE DEF here, places, table
  <2> QED
    BY <1>3, <1>5, <2>1
<1> HIDE DEF here, places, table
<1>9. Len(table) \in 0 .. Len(d) /\ DOMAIN table = 1 .. Len(table)
  BY <1>2, <1>3, <1>6
<1>10. \A n \in DOMAIN table : TypeOf(table[n].kind) = t /\ \E i \in DOMAIN d : table[n] = d[i]
  BY <1>5, <1>6
<1> QED
  BY <1>1, <1>6, <1>7, <1>8, <1>9, <1>10

\* What stands above a path is in front of a slash.
LEMMA ParentsAre ==
  ASSUME NEW p \in Strings, Len(p) > 1, p[1] = Slash, p[2] # Slash
  PROVE  /\ IsFiniteSet(Parents(p))
         /\ \A q \in Parents(p) :
              /\ q \in Strings /\ Len(q) \in Nat /\ 1 < Len(q) /\ Len(q) < Len(p)
              /\ p[Len(q) + 1] = Slash /\ q[1] = Slash /\ q[2] # Slash
              /\ \A j \in 1 .. Len(q) : q[j] = p[j]
         /\ \A k \in 2 .. Len(p) : p[k] = Slash => SubSeq(p, 1, k - 1) \in Parents(p)
<1>1. Len(p) \in Nat /\ \A i \in 1 .. Len(p) : p[i] \in Letters
  BY ElementOfSeq DEF Strings
<1> DEFINE slashes == {k \in 2 .. Len(p) : p[k] = Slash}
           f == [k \in slashes |-> SubSeq(p, 1, k - 1)]
<1>2. IsFiniteSet(slashes)
  <2>1. IsFiniteSet(2 .. Len(p))
    BY <1>1, FS_Interval
  <2> QED
    BY <2>1, FS_Subset
<1>3. Parents(p) = {f[k] : k \in DOMAIN f}
  BY DEF Parents
<1>4. IsFiniteSet(Parents(p))
  <2>1. IsFiniteSet(DOMAIN f)
    BY <1>2
  <2> HIDE DEF f
  <2> QED
    BY <1>3, <2>1, RangeFinite
<1>5. ASSUME NEW q \in Parents(p)
      PROVE  /\ q \in Strings /\ Len(q) \in Nat /\ 1 < Len(q) /\ Len(q) < Len(p)
             /\ p[Len(q) + 1] = Slash /\ q[1] = Slash /\ q[2] # Slash
             /\ \A j \in 1 .. Len(q) : q[j] = p[j]
  <2>1. PICK k \in 2 .. Len(p) : p[k] = Slash /\ q = SubSeq(p, 1, k - 1)
    BY DEF Parents
  <2>2. k # 2 /\ k \in Nat
    BY <1>1, <2>1
  <2>3. PICK n \in Nat : n = k - 1 /\ n > 1 /\ n < Len(p)
    BY <1>1, <2>1, <2>2
  <2>4. \A i \in 1 .. n : p[i] \in Letters
    BY <1>1, <2>3
  <2>5. q \in Strings /\ Len(q) = n /\ \A i \in 1 .. n : q[i] = p[1 + i - 1]
    <3>1. q = SubSeq(p, 1, n) /\ 1 \in Int /\ n \in Int /\ n - 1 + 1 = n /\ 1 <= n
      BY <2>1, <2>3
    <3> QED
      BY <2>4, <3>1, SubSeqProperties DEF Strings
  <2>6. \A i \in 1 .. n : q[i] = p[i]
    <3>1. \A i \in 1 .. n : 1 + i - 1 = i
      OBVIOUS
    <3> QED
      BY <2>5, <3>1
  <2> QED
    BY <2>1, <2>2, <2>3, <2>5, <2>6
<1> QED
  BY <1>4, <1>5 DEF Parents

ListPaths(d) == UNION {Parents(d[i].path) : i \in DOMAIN d}

ListEntry(p) == [path |-> p, type |-> "LIST", index |-> 0]
TableEntry(d, t, i) == [path |-> Tables(d)[t][i].path, type |-> t, index |-> i]

LEMMA ObjectsAre ==
  ASSUME NEW d
  PROVE  /\ \A p \in ListPaths(d) : ListEntry(p) \in ObjectPaths(d)
         /\ \A t \in Types : \A i \in DOMAIN Tables(d)[t] : TableEntry(d, t, i) \in ObjectPaths(d)
         /\ \A o \in ObjectPaths(d) :
              \/ \E p \in ListPaths(d) : o = ListEntry(p)
              \/ \E t \in Types : \E i \in DOMAIN Tables(d)[t] : o = TableEntry(d, t, i)
BY DEF ObjectPaths, ListPaths, ListEntry, TableEntry

Entry(d) == [path : Strings, index : 0 .. Len(d), type : {"LIST"} \cup Types]

LEMMA ListPathsAre ==
  ASSUME NEW d \in Files
  PROVE  /\ IsFiniteSet(ListPaths(d))
         /\ \A p \in ListPaths(d) :
              /\ p \in Strings /\ Len(p) \in Nat /\ Len(p) > 1 /\ p[1] = Slash /\ p[2] # Slash
              /\ \A i \in DOMAIN d : d[i].path # p
<1>1. DOMAIN d = 1 .. Len(d) /\ Len(d) \in Nat /\ \A i \in DOMAIN d : d[i] \in Definitions
  BY FileIs
<1>2. \A i \in DOMAIN d : IsFiniteSet(Parents(d[i].path))
  BY <1>1, DefinitionIs, ParentsAre
<1>3. IsFiniteSet(ListPaths(d))
  <2> DEFINE f == [i \in DOMAIN d |-> Parents(d[i].path)]
  <2>1. ListPaths(d) = UNION {f[i] : i \in DOMAIN f}
    BY DEF ListPaths
  <2>2. IsFiniteSet(DOMAIN f)
    BY <1>1, FS_Interval
  <2>3. \A i \in DOMAIN f : IsFiniteSet(f[i])
    BY <1>2
  <2> HIDE DEF f
  <2> DEFINE sets == {f[i] : i \in DOMAIN f}
  <2>4. IsFiniteSet(sets)
    BY <2>2, RangeFinite
  <2>5. \A s \in sets : IsFiniteSet(s)
    BY <2>3
  <2>6. ListPaths(d) = UNION sets
    BY <2>1
  <2> HIDE DEF sets
  <2> QED
    BY <2>4, <2>5, <2>6, FS_UNION
<1>4. ASSUME NEW p \in ListPaths(d)
      PROVE  /\ p \in Strings /\ Len(p) \in Nat /\ Len(p) > 1 /\ p[1] = Slash /\ p[2] # Slash
             /\ \A i \in DOMAIN d : d[i].path # p
  <2>1. PICK j \in DOMAIN d : p \in Parents(d[j].path)
    BY DEF ListPaths
  <2>2. /\ p \in Strings /\ Len(p) \in Nat /\ 1 < Len(p) /\ Len(p) < Len(d[j].path)
        /\ p[1] = Slash /\ p[2] # Slash
    BY <1>1, <2>1, DefinitionIs, ParentsAre
  <2>3. ASSUME NEW i \in DOMAIN d, d[i].path = p
        PROVE  FALSE
    <3>1. i = j
      BY <2>1, <2>3, FileIs
    <3> QED
      BY <2>2, <2>3, <3>1
  <2> QED
    BY <2>2, <2>3
<1> QED
  BY <1>3, <1>4

LEMMA ObjectPathsAre ==
  ASSUME NEW d \in Files
  PROVE  /\ IsFiniteSet(ObjectPaths(d))
         /\ \A o \in ObjectPaths(d) :
              /\ o \in Entry(d) /\ o.path \in Strings
              /\ Len(o.path) \in Nat /\ Len(o.path) > 1 /\ o.path[1] = Slash
         /\ \A o, x \in ObjectPaths(d) : o.path = x.path => o = x
<1>1. ASSUME NEW t \in Types, NEW i \in DOMAIN Tables(d)[t]
      PROVE  /\ TableEntry(d, t, i) \in Entry(d)
             /\ TableEntry(d, t, i).path = Tables(d)[t][i].path
             /\ Tables(d)[t][i] \in Definitions /\ TypeOf(Tables(d)[t][i].kind) = t
             /\ \E j \in DOMAIN d : Tables(d)[t][i] = d[j]
  <2>1. PICK j \in DOMAIN d : Tables(d)[t][i] = d[j]
    BY TableIs
  <2>2. d[j] \in Definitions /\ Len(d) \in Nat
    BY FileIs
  <2>3. Tables(d)[t][i].path \in Strings
    BY <2>1, <2>2, DefinitionIs
  <2>4. i \in 0 .. Len(d)
    BY <2>2, TableIs
  <2> QED
    BY <2>1, <2>2, <2>3, <2>4, TableIs DEF TableEntry, Entry
<1>2. ASSUME NEW p \in ListPaths(d)
      PROVE  ListEntry(p) \in Entry(d) /\ ListEntry(p).path = p /\ p \in Strings
             /\ Len(p) \in Nat /\ Len(p) > 1 /\ p[1] = Slash
  <2>1. 0 \in 0 .. Len(d) /\ p \in Strings
    BY FileIs, ListPathsAre
  <2> QED
    BY <2>1, ListPathsAre DEF ListEntry, Entry
<1>3. IsFiniteSet(ObjectPaths(d))
  <2> DEFINE f == [p \in ListPaths(d) |-> ListEntry(p)]
             lists == {f[p] : p \in DOMAIN f}
             g(t) == [i \in DOMAIN Tables(d)[t] |-> TableEntry(d, t, i)]
             entries(t) == {g(t)[i] : i \in DOMAIN g(t)}
             h == [t \in Types |-> entries(t)]
             all == {h[t] : t \in DOMAIN h}
  <2>1. IsFiniteSet(lists)
    <3>1. IsFiniteSet(DOMAIN f)
      BY ListPathsAre
    <3> HIDE DEF f
    <3> QED
      BY <3>1, RangeFinite
  <2>2. ASSUME NEW t \in Types
        PROVE  IsFiniteSet(entries(t))
    <3>1. DOMAIN g(t) = 1 .. Len(Tables(d)[t]) /\ Len(Tables(d)[t]) \in Int
      BY TableIs
    <3>2. IsFiniteSet(DOMAIN g(t))
      BY <3>1, FS_Interval
    <3>3. PICK fn : fn = g(t)
      OBVIOUS
    <3> HIDE DEF g
    <3>4. IsFiniteSet({fn[i] : i \in DOMAIN fn})
      BY <3>2, <3>3, RangeFinite
    <3> QED
      BY <3>3, <3>4
  <2>3. IsFiniteSet(all) /\ \A s \in all : IsFiniteSet(s)
    <3> HIDE DEF entries
    <3>1. IsFiniteSet(Types)
      <4>1. Types = {"PROPERTY"} \cup {"CALLABLE"} \cup {"MONITOR"}
        BY DEF Types
      <4> QED
        BY <4>1, FS_Singleton, FS_Union
    <3>2. DOMAIN h = Types
      OBVIOUS
    <3>3. \A s \in all : IsFiniteSet(s)
      BY <2>2
    <3> HIDE DEF h
    <3> QED
      BY <3>1, <3>2, <3>3, RangeFinite
  <2>4. IsFiniteSet(UNION all)
    <3> HIDE DEF all
    <3> QED
      BY <2>3, FS_UNION
  <2>5. ObjectPaths(d) \subseteq lists \cup UNION all
    <3>1. \A p \in ListPaths(d) : ListEntry(p) \in lists
      OBVIOUS
    <3>2. \A t \in Types : \A i \in DOMAIN Tables(d)[t] : TableEntry(d, t, i) \in entries(t)
      OBVIOUS
    <3>3. \A t \in Types : entries(t) \subseteq UNION all
      OBVIOUS
    <3> HIDE DEF lists, entries, all
    <3> QED
      BY <3>1, <3>2, <3>3, ObjectsAre
  <2>6. IsFiniteSet(lists \cup UNION all)
    <3> HIDE DEF lists, all
    <3> QED
      BY <2>1, <2>4, FS_Union
  <2> HIDE DEF lists, all
  <2> QED
    BY <2>5, <2>6, FS_Subset
<1>4. ASSUME NEW o \in ObjectPaths(d)
      PROVE  o \in Entry(d) /\ o.path \in Strings
             /\ Len(o.path) \in Nat /\ Len(o.path) > 1 /\ o.path[1] = Slash
  <2>1. CASE \E p \in ListPaths(d) : o = ListEntry(p)
    BY <1>2, <2>1
  <2>2. ASSUME NEW t \in Types, NEW i \in DOMAIN Tables(d)[t], o = TableEntry(d, t, i)
        PROVE  o \in Entry(d) /\ o.path \in Strings
               /\ Len(o.path) \in Nat /\ Len(o.path) > 1 /\ o.path[1] = Slash
    BY <1>1, <2>2, DefinitionIs
  <2> QED
    BY <2>1, <2>2, ObjectsAre
<1>5. ASSUME NEW t \in Types, NEW i \in DOMAIN Tables(d)[t], NEW x \in ObjectPaths(d),
             x.path = TableEntry(d, t, i).path
      PROVE  x = TableEntry(d, t, i)
  <2>1. ASSUME NEW p \in ListPaths(d), x = ListEntry(p)
        PROVE  FALSE
    <3>1. \A j \in DOMAIN d : d[j].path # p
      BY ListPathsAre
    <3> QED
      BY <1>1, <1>2, <1>5, <2>1, <3>1
  <2>2. ASSUME NEW s \in Types, NEW j \in DOMAIN Tables(d)[s], x = TableEntry(d, s, j)
        PROVE  x = TableEntry(d, t, i)
    <3>1. Tables(d)[s][j].path = Tables(d)[t][i].path
      BY <1>1, <1>5, <2>2
    <3>2. Tables(d)[s][j] = Tables(d)[t][i]
      BY <1>1, <3>1, FileIs
    <3>3. s = t
      BY <1>1, <3>2
    <3>4. i = j
      BY <3>1, <3>3, TableIs
    <3> QED
      BY <2>2, <3>3, <3>4
  <2> QED
    BY <2>1, <2>2, ObjectsAre
<1>6. ASSUME NEW o \in ObjectPaths(d), NEW x \in ObjectPaths(d), o.path = x.path
      PROVE  o = x
  <2>1. CASE \E p \in ListPaths(d) : o = ListEntry(p)
    <3>1. CASE \E p \in ListPaths(d) : x = ListEntry(p)
      BY <1>2, <1>6, <2>1, <3>1
    <3>2. CASE \E t \in Types : \E i \in DOMAIN Tables(d)[t] : x = TableEntry(d, t, i)
      BY <1>5, <1>6, <3>2
    <3> QED
      BY <3>1, <3>2, ObjectsAre
  <2>2. CASE \E t \in Types : \E i \in DOMAIN Tables(d)[t] : o = TableEntry(d, t, i)
    BY <1>5, <1>6, <2>2
  <2> QED
    BY <2>1, <2>2, ObjectsAre
<1> QED
  BY <1>3, <1>4, <1>6

RootEntry == [path |-> Root, type |-> "LIST", index |-> 0]

LEMMA RootIs ==
  /\ Root \in Strings /\ Len(Root) = 1 /\ Root[1] = Slash
  /\ \A d : Len(d) \in Nat => RootEntry \in Entry(d)
<1>1. Root \in Strings /\ Len(Root) = 1 /\ Root[1] = Slash
  BY DefinitionsAssumption DEF Root, Strings, Letters
<1> QED
  BY <1>1 DEF RootEntry, Entry

\* INFO_LIST has every object once, in the order of the paths.
LEMMA InfoListIs ==
  ASSUME NEW d \in Files
  PROVE  /\ Analyze(d) \in Seq(Entry(d)) /\ Len(Analyze(d)) \in Nat /\ Len(Analyze(d)) > 0
         /\ DOMAIN Analyze(d) = 1 .. Len(Analyze(d))
         /\ Analyze(d)[1] = RootEntry
         /\ \A k \in 2 .. Len(Analyze(d)) : Analyze(d)[k] \in ObjectPaths(d)
         /\ \A o \in ObjectPaths(d) : \E k \in 2 .. Len(Analyze(d)) : Analyze(d)[k] = o
         /\ \A m, n \in 1 .. Len(Analyze(d)) :
              m < n => Before(Analyze(d)[m].path, Analyze(d)[n].path)
<1> DEFINE S == ObjectPaths(d)
           sorted == [n \in 1 .. Cardinality(S) |->
                        CHOOSE o \in S : Cardinality({x \in S : Before(x.path, o.path)}) = n - 1]
           size == Cardinality(S)
<1>1. IsFiniteSet(S) /\ size \in Nat
  BY ObjectPathsAre, FS_CardinalityType
<1>2. (\A x \in S : x.path \in Strings) /\ (\A x, y \in S : x.path = y.path => x = y)
  BY ObjectPathsAre
<1>3. /\ \A x, y \in S : <<x, y>> \in Sooner(S) <=> Before(x.path, y.path)
      /\ Orders(Sooner(S), S)
  <2> HIDE DEF S
  <2> QED
    BY <1>2, SoonerOrders
<1>4. sorted = InPlace(Sooner(S), S)
  <2> DEFINE One(n) == CHOOSE o \in S : Cardinality({x \in S : Before(x.path, o.path)}) = n - 1
             Other(n) == CHOOSE x \in S : Cardinality(Lower(Sooner(S), S, x)) = n - 1
  <2> HIDE DEF S
  <2>1. \A o \in S : Lower(Sooner(S), S, o) = {x \in S : Before(x.path, o.path)}
    BY <1>3 DEF Lower
  <2>2. ASSUME NEW n \in 1 .. Cardinality(S)
        PROVE  One(n) = Other(n)
    <3>1. \A o \in S : Cardinality({x \in S : Before(x.path, o.path)}) = n - 1
                         <=> Cardinality(Lower(Sooner(S), S, o)) = n - 1
      BY <2>1
    <3> QED
      BY <3>1
  <2>3. sorted = [n \in 1 .. Cardinality(S) |-> One(n)]
    BY Zenon
  <2>4. InPlace(Sooner(S), S) = [n \in 1 .. Cardinality(S) |-> Other(n)]
    BY Zenon DEF InPlace
  <2> HIDE DEF One, Other, sorted
  <2> QED
    BY <2>2, <2>3, <2>4
<1>5. /\ sorted \in Seq(S) /\ Len(sorted) = size
      /\ \A m, n \in 1 .. size : m < n => <<sorted[m], sorted[n]>> \in Sooner(S)
      /\ \A x \in S : \E n \in 1 .. size : sorted[n] = x
  <2> HIDE DEF sorted, S
  <2> QED
    BY <1>1, <1>3, <1>4, InPlaceIs
<1>6. Analyze(d) = <<RootEntry>> \o sorted
  BY DEF Analyze, RootEntry
<1> HIDE DEF sorted
<1>7. S \subseteq Entry(d) /\ RootEntry \in Entry(d)
  BY ObjectPathsAre, RootIs, FileIs
<1>8. sorted \in Seq(Entry(d)) /\ <<RootEntry>> \in Seq(Entry(d)) /\ Len(<<RootEntry>>) = 1
      /\ <<RootEntry>>[1] = RootEntry
  <2> HIDE DEF S
  <2> QED
    BY <1>5, <1>7, SeqMonotonic
<1>9. /\ Analyze(d) \in Seq(Entry(d)) /\ Len(Analyze(d)) = 1 + size
      /\ \A i \in 1 .. 1 + size :
           Analyze(d)[i] = IF i <= 1 THEN <<RootEntry>>[i] ELSE sorted[i - 1]
  <2> HIDE DEF S
  <2> QED
    BY <1>5, <1>6, <1>8, ConcatProperties
<1>10. Analyze(d)[1] = RootEntry /\ \A i \in 2 .. 1 + size : Analyze(d)[i] = sorted[i - 1]
  <2> HIDE DEF S
  <2> QED
    BY <1>1, <1>8, <1>9
<1>11. \A i \in 2 .. 1 + size : i - 1 \in 1 .. size /\ sorted[i - 1] \in S
  <2>1. ASSUME NEW i \in 2 .. 1 + size
        PROVE  i - 1 \in 1 .. size /\ sorted[i - 1] \in S
    <3> HIDE DEF S
    <3>1. PICK n : n = i - 1
      OBVIOUS
    <3>2. n \in 1 .. size
      BY <1>1, <2>1, <3>1
    <3> QED
      BY <1>5, <3>1, <3>2, ElementOfSeq
  <2> QED
    BY <2>1
<1>12. ASSUME NEW o \in S
       PROVE  \E k \in 2 .. 1 + size : Analyze(d)[k] = o
  <2>1. PICK n \in 1 .. size : sorted[n] = o
    BY <1>5
  <2>2. n + 1 \in 2 .. 1 + size /\ n + 1 - 1 = n
    BY <1>1
  <2> QED
    BY <1>10, <2>1, <2>2
<1>13. ASSUME NEW m \in 1 .. 1 + size, NEW n \in 1 .. 1 + size, m < n
       PROVE  Before(Analyze(d)[m].path, Analyze(d)[n].path)
  <2>1. n \in 2 .. 1 + size
    BY <1>1, <1>13
  <2>2. PICK y \in S : y = Analyze(d)[n]
    BY <1>10, <1>11, <2>1
  <2>3. CASE m = 1
    <3>1. PartAt(Root, y.path, 2)
      BY ObjectPathsAre, RootIs DEF PartAt
    <3>2. Before(Root, y.path)
      BY <3>1, ObjectPathsAre, RootIs, BeforeIs
    <3> QED
      BY <1>10, <2>2, <2>3, <3>2 DEF RootEntry
  <2>4. CASE m # 1
    <3>1. PICK a, b : a = m - 1 /\ b = n - 1
      OBVIOUS
    <3>2. m \in 2 .. 1 + size /\ a \in 1 .. size /\ b \in 1 .. size /\ a < b
      BY <1>1, <1>13, <2>1, <2>4, <3>1
    <3>3. <<sorted[a], sorted[b]>> \in Sooner(S) /\ sorted[a] \in S /\ sorted[b] \in S
      BY <1>5, <1>11, <2>1, <3>1, <3>2
    <3>4. Before(sorted[a].path, sorted[b].path)
      BY <1>3, <3>3
    <3> QED
      BY <1>10, <2>1, <3>1, <3>2, <3>4
  <2> QED
    BY <2>3, <2>4
<1>14. Len(Analyze(d)) = 1 + size /\ 1 + size \in Nat /\ 1 + size > 0
       /\ DOMAIN Analyze(d) = 1 .. 1 + size
  <2>1. DOMAIN Analyze(d) = 1 .. Len(Analyze(d))
    BY <1>9, LenProperties
  <2> QED
    BY <1>1, <1>9, <2>1
<1>15. \A k \in 2 .. 1 + size : Analyze(d)[k] \in S
  BY <1>10, <1>11
<1> QED
  BY <1>9, <1>10, <1>12, <1>13, <1>14, <1>15

LEMMA EntryPaths ==
  ASSUME NEW d \in Files
  PROVE  /\ \A k \in 1 .. Len(Analyze(d)) : Analyze(d)[k].path \in Strings
         /\ \A m, n \in 1 .. Len(Analyze(d)) :
              Analyze(d)[m].path = Analyze(d)[n].path => m = n
<1>1. ASSUME NEW k \in 1 .. Len(Analyze(d))
      PROVE  Analyze(d)[k].path \in Strings
  <2>1. Analyze(d)[k] \in Entry(d)
    BY InfoListIs, ElementOfSeq
  <2> QED
    BY <2>1 DEF Entry
<1>2. ASSUME NEW m \in 1 .. Len(Analyze(d)), NEW n \in 1 .. Len(Analyze(d)),
             Analyze(d)[m].path = Analyze(d)[n].path
      PROVE  m = n
  <2>1. ~ Before(Analyze(d)[m].path, Analyze(d)[n].path)
        /\ ~ Before(Analyze(d)[n].path, Analyze(d)[m].path)
    BY <1>1, <1>2, BeforeIrreflexive
  <2>2. ~ (m < n) /\ ~ (n < m)
    BY <2>1, InfoListIs
  <2>3. m \in Nat /\ n \in Nat
    BY InfoListIs
  <2> QED
    BY <2>2, <2>3
<1> QED
  BY <1>1, <1>2

-----------------------------------------------------------------------------
(* What does not change, and the types.                                     *)

Generated ==
  /\ defined \in Files
  /\ meant = Meant(defined)
  /\ infoList = Analyze(defined)
  /\ tables = Tables(defined)

\* sq_automation_find_info finds the one entry of that path.
LEMMA FindInfoIs ==
  ASSUME Generated, NEW p
  PROVE  /\ \A i \in DOMAIN infoList : infoList[i].path = p => FindInfo(p) = i
         /\ (\A i \in DOMAIN infoList : infoList[i].path # p) => FindInfo(p) = Len(infoList) + 1
         /\ FindInfo(p) \in 1 .. Len(infoList) + 1
         /\ FindInfo(p) \in DOMAIN infoList => infoList[FindInfo(p)].path = p
<1>1. DOMAIN infoList = 1 .. Len(infoList) /\ Len(infoList) \in Nat
  BY InfoListIs DEF Generated
<1> DEFINE T == {i \in DOMAIN infoList : infoList[i].path = p} \cup {Len(infoList) + 1}
<1>2. FindInfo(p) = CHOOSE x \in T : \A y \in T : x <= y
  BY DEF FindInfo, Min
<1>3. T \subseteq Nat /\ T # {}
  BY <1>1
<1>4. \E x \in T : \A y \in T : x <= y
  <2> HIDE DEF T
  <2> QED
    BY <1>3, LeastNumber
<1>5. FindInfo(p) \in T /\ \A y \in T : FindInfo(p) <= y
  <2> HIDE DEF T
  <2> QED
    BY <1>2, <1>4
<1>6. \A i \in DOMAIN infoList : infoList[i].path = p => FindInfo(p) = i
  <2>1. ASSUME NEW i \in DOMAIN infoList, infoList[i].path = p
        PROVE  FindInfo(p) = i
    <3>1. FindInfo(p) <= i /\ i <= Len(infoList)
      BY <1>1, <1>5, <2>1
    <3>2. FindInfo(p) \in DOMAIN infoList /\ infoList[FindInfo(p)].path = p
      BY <1>1, <1>3, <1>5, <3>1
    <3> QED
      BY <1>1, <2>1, <3>2, EntryPaths DEF Generated
  <2> QED
    BY <2>1
<1> QED
  BY <1>1, <1>5, <1>6

LEMMA StartsGenerated == Init => Generated
BY DEF Init, Generated

LEMMA KeepsGenerated == Generated /\ [Next]_vars => Generated'
BY DEF Next, vars, Generated

LEMMA StartsTyped == Init => TypeOK
<1> SUFFICES ASSUME Init
             PROVE  TypeOK
  OBVIOUS
<1>1. defined \in Files /\ infoList = Analyze(defined) /\ tables = Tables(defined)
  BY DEF Init
<1>2. defined \in Seq(Definitions)
  BY <1>1, FileIs
<1>3. Entry(defined) = [path : Seq(Range(Characters)), index : 0 .. Len(defined),
                        type : {"LIST", "PROPERTY", "CALLABLE", "MONITOR"}]
  BY DEF Entry, Strings, Letters, Types
<1>4. infoList \in Seq([path : Seq(Range(Characters)), index : 0 .. Len(defined),
                        type : {"LIST", "PROPERTY", "CALLABLE", "MONITOR"}])
  BY <1>1, <1>3, InfoListIs
<1>5. tables \in [Types -> Seq(Definitions)]
  <2>1. tables = [t \in Types |-> tables[t]]
    BY <1>1 DEF Tables
  <2>2. \A t \in Types : tables[t] \in Seq(Definitions)
    BY <1>1, TableIs
  <2> QED
    BY <2>1, <2>2
<1>6. values \in [DOMAIN tables["PROPERTY"] -> Value]
  <2>1. values = [i \in DOMAIN tables["PROPERTY"] |-> CHOOSE v \in Value : TRUE]
    BY DEF Init
  <2>2. (CHOOSE v \in Value : TRUE) \in Value
    BY DefinitionsAssumption
  <2> QED
    BY <2>1, <2>2
<1>7. monitorState \in [DOMAIN tables["MONITOR"] -> BOOLEAN]
  <2>1. monitorState = [i \in DOMAIN tables["MONITOR"] |-> FALSE]
    BY DEF Init
  <2> QED
    BY <2>1
<1>8. answer.result = "none"
  BY DEF Init, Answer
<1>9. ended = FALSE
  BY DEF Init
<1>10. ended \in BOOLEAN
  BY <1>9
<1> QED
  BY <1>2, <1>4, <1>5, <1>6, <1>7, <1>8, <1>10 DEF TypeOK

LEMMA KeepsTyped == TypeOK /\ Generated /\ [Next]_vars => TypeOK'
<1> SUFFICES ASSUME TypeOK, Generated, [Next]_vars
             PROVE  TypeOK'
  OBVIOUS
<1>1. defined' = defined /\ infoList' = infoList /\ tables' = tables
  BY DEF Next, vars
<1>2. ASSUME values' \in [DOMAIN tables["PROPERTY"] -> Value],
             monitorState' \in [DOMAIN tables["MONITOR"] -> BOOLEAN],
             answer'.result \in {"none", "success", "failure"}, ended' \in BOOLEAN
      PROVE  TypeOK'
  <2>1. TypeOK
    OBVIOUS
  <2> QED
    BY <1>1, <1>2, <2>1 DEF TypeOK
<1>3. ASSUME NEW request, NEW p, NEW value, NEW entries,
             Succeeds(request, p, value, entries) \/ Fails(request, p)
      PROVE  answer'.result \in {"none", "success", "failure"}
  BY <1>3 DEF Succeeds, Fails, Answer
<1>4. ASSUME NEW p, Request(p)
      PROVE  TypeOK'
  <2>1. ASSUME UNCHANGED <<values, monitorState, ended>>,
               answer'.result \in {"none", "success", "failure"}
        PROVE  TypeOK'
    <3>1. TypeOK
      OBVIOUS
    <3>2. values' = values /\ monitorState' = monitorState /\ ended' = ended
      BY <2>1
    <3>3. ended' \in BOOLEAN
      BY <3>1, <3>2 DEF TypeOK
    <3> QED
      BY <1>2, <2>1, <3>1, <3>2, <3>3 DEF TypeOK
  <2>2. CASE PropertyGet(p)
    BY <1>3, <2>1, <2>2 DEF PropertyGet
  <2>3. ASSUME NEW v \in Value \cup {WrongType}, PropertySet(p, v)
        PROVE  TypeOK'
    <3>1. TypeOK
      OBVIOUS
    <3>2. monitorState' \in [DOMAIN tables["MONITOR"] -> BOOLEAN]
      BY <2>3, <3>1 DEF TypeOK, PropertySet
    <3>3. values' \in [DOMAIN tables["PROPERTY"] -> Value]
      <4>1. values' = values \/ (v # WrongType /\ values' = [values EXCEPT ![IndexOf(p)] = v])
        BY <2>3 DEF PropertySet
      <4> QED
        BY <2>3, <3>1, <4>1 DEF TypeOK
    <3>4. ended' = ended \/ ended' = TRUE
      BY <2>3 DEF PropertySet
    <3>5. ended' \in BOOLEAN
      BY <3>1, <3>4 DEF TypeOK
    <3>6. answer'.result \in {"none", "success", "failure"}
      <4>1. answer' = answer \/ Succeeds("SET", p, "none", << >>) \/ Fails("SET", p)
        BY <2>3 DEF PropertySet
      <4> QED
        BY <1>3, <3>1, <4>1 DEF TypeOK
    <3> QED
      BY <1>2, <3>2, <3>3, <3>5, <3>6
  <2>4. ASSUME NEW n \in 0 .. MaxValues, CallFunction(p, n)
        PROVE  TypeOK'
    BY <1>3, <2>1, <2>4 DEF CallFunction
  <2>5. CASE Info(p)
    BY <1>3, <2>1, <2>5 DEF Info
  <2>6. CASE List(p)
    <3>1. PICK entries : Succeeds("LIST", p, "none", entries) \/ Fails("LIST", p)
      BY <2>6 DEF List
    <3> QED
      BY <1>3, <2>1, <2>6, <3>1 DEF List
  <2>7. CASE Dump(p)
    BY <1>3, <2>1, <2>7 DEF Dump
  <2>8. ASSUME NEW request, NEW enable \in BOOLEAN, MonitorEnable(p, request, enable)
        PROVE  TypeOK'
    <3>1. TypeOK
      OBVIOUS
    <3>2. values' = values /\ ended' = ended
      BY <2>8 DEF MonitorEnable
    <3>3. monitorState' \in [DOMAIN tables["MONITOR"] -> BOOLEAN]
      <4>1. monitorState' = monitorState \/ monitorState' = [monitorState EXCEPT ![IndexOf(p)] = enable]
        BY <2>8 DEF MonitorEnable
      <4> QED
        BY <2>8, <3>1, <4>1 DEF TypeOK
    <3>4. answer'.result \in {"none", "success", "failure"}
      BY <1>3, <2>8 DEF MonitorEnable
    <3>5. ended' \in BOOLEAN
      BY <3>1, <3>2 DEF TypeOK
    <3> QED
      BY <1>2, <3>1, <3>2, <3>3, <3>4, <3>5 DEF TypeOK
  <2> QED
    BY <1>4, <2>2, <2>3, <2>4, <2>5, <2>6, <2>7, <2>8 DEF Request
<1>5. CASE UNCHANGED vars
  <2>1. TypeOK
    OBVIOUS
  <2>2. values' = values /\ monitorState' = monitorState /\ ended' = ended /\ answer' = answer
    BY <1>5 DEF vars
  <2>3. ended' \in BOOLEAN
    BY <2>1, <2>2 DEF TypeOK
  <2> QED
    BY <1>2, <2>1, <2>2, <2>3 DEF TypeOK
<1> QED
  BY <1>4, <1>5 DEF Next

\* The variables keep their types: INFO_LIST is a list of entries whose indices
\* are those of a definition, for any automation file and any requests
\* (generate_automation_defines.py:450-609, automation_functions.c:193-636).
THEOREM AlwaysTyped == Spec => []TypeOK
<1>1. Init => TypeOK /\ Generated
  BY StartsTyped, StartsGenerated
<1>2. TypeOK /\ Generated /\ [Next]_vars => (TypeOK /\ Generated)'
  BY KeepsTyped, KeepsGenerated
<1> QED
  BY <1>1, <1>2, PTL DEF Spec

-----------------------------------------------------------------------------
(* The names of a path.                                                     *)

Increasing(f, n) == \A i, j \in 1 .. n : i < j => f[i] < f[j]
Covers(f, n, S) == \A x \in S : \E i \in 1 .. n : f[i] = x

\* There is one way to put numbers in order.
LEMMA OneOrder ==
  ASSUME NEW S, IsFiniteSet(S), S \subseteq Nat, NEW n \in Nat, NEW f \in [1 .. n -> S],
         Increasing(f, n), Covers(f, n, S)
  PROVE  f = InOrder(S) /\ n = Cardinality(S)
<1>1. n = Cardinality(S)
  <2>1. \A i, j \in 1 .. n : f[i] = f[j] => i = j
    <3>1. \A i \in 1 .. n : f[i] \in Nat
      OBVIOUS
    <3>2. ASSUME NEW i \in 1 .. n, NEW j \in 1 .. n, f[i] = f[j]
          PROVE  i = j
      <4>1. ~(i < j) /\ ~(j < i)
        BY <3>1, <3>2 DEF Increasing
      <4> QED
        BY <4>1
    <3> QED
      BY <3>2
  <2>2. f \in Bijection(1 .. n, S)
    BY <2>1 DEF Bijection, Injection, Surjection, IsInjective, Covers
  <2>3. ExistsBijection(1 .. n, S)
    BY <2>2, Zenon DEF ExistsBijection
  <2> QED
    BY <2>3, FS_CountingElements
<1> DEFINE g == InOrder(S)
<1>2. /\ g \in [1 .. n -> S]
      /\ \A i, j \in 1 .. n : i < j => g[i] < g[j]
      /\ \A x \in S : \E i \in 1 .. n : g[i] = x
  BY <1>1, InOrderIs, LenProperties
<1> HIDE DEF g
<1>3. \A i \in 1 .. n : f[i] = g[i]
  <2> SUFFICES ASSUME NEW k \in 1 .. n, f[k] # g[k]
               PROVE  FALSE
    OBVIOUS
  <2> DEFINE T == {i \in 1 .. n : f[i] # g[i]}
  <2>1. T \subseteq Nat /\ T # {}
    OBVIOUS
  <2>2. \E x \in T : \A y \in T : x <= y
    <3> HIDE DEF T
    <3> QED
      BY <2>1, LeastNumber
  <2>3. PICK i \in 1 .. n : f[i] # g[i] /\ \A j \in 1 .. n : j < i => f[j] = g[j]
    BY <2>2
  <2>4. f[i] \in S /\ g[i] \in S /\ f[i] \in Nat /\ g[i] \in Nat
    BY <1>2
  <2>5. CASE f[i] < g[i]
    <3>1. PICK j \in 1 .. n : g[j] = f[i]
      BY <1>2, <2>4
    <3>2. j < i
      BY <1>2, <2>4, <2>5, <3>1
    <3> QED
      BY <2>3, <2>4, <3>1, <3>2 DEF Increasing
  <2>6. CASE g[i] < f[i]
    <3>1. PICK j \in 1 .. n : f[j] = g[i]
      BY <2>4 DEF Covers
    <3>2. j < i
      BY <2>4, <2>6, <3>1 DEF Increasing
    <3> QED
      BY <1>2, <2>3, <2>4, <3>1, <3>2
  <2> QED
    BY <2>3, <2>4, <2>5, <2>6
<1> QED
  BY <1>1, <1>2, <1>3 DEF g

\* A path begins with a slash.
Slashed == {p \in Strings : Len(p) > 0 /\ p[1] = Slash}

SlashesOf(p) == {k \in DOMAIN p : p[k] = Slash}
Marks(p) == InOrder(SlashesOf(p))
Stop(p, i) == IF i = Len(Marks(p)) THEN Len(p) ELSE Marks(p)[i + 1] - 1
Words(p) == [i \in DOMAIN Marks(p) |-> SubSeq(p, Marks(p)[i] + 1, Stop(p, i))]

Nowhere(p) == <<p \o Root>>

LEMMA NamesAre ==
  /\ Names(Root) = << >>
  /\ \A p \in Slashed : p # Root => Names(p) = Words(p)
  /\ \A p \in Strings \ Slashed : Names(p) = Nowhere(p)
<1>1. ASSUME NEW p \in Strings
      PROVE  IsPrefix(Root, p) <=> p \in Slashed
  <2>1. Len(p) \in Nat /\ Root \in Strings /\ Len(Root) = 1 /\ Root[1] = Slash
    BY RootIs DEF Strings
  <2>2. IsPrefix(Root, p) <=> Len(p) >= 1 /\ Root[1] = p[1]
    <3>1. IsPrefix(Root, p) <=> 1 <= Len(p) /\ \A i \in 1 .. 1 : Root[i] = p[i]
      BY <2>1, PrefixIs
    <3> QED
      BY <2>1, <3>1
  <2> QED
    BY <2>1, <2>2 DEF Slashed
<1>2. \A p \in Slashed : p # Root => Names(p) = Words(p)
  <2>1. ASSUME NEW p \in Slashed, p # Root
        PROVE  Names(p) = Words(p)
    <3>1. IsPrefix(Root, p)
      BY <1>1 DEF Slashed
    <3> HIDE DEF IsPrefix
    <3> QED
      BY <2>1, <3>1 DEF Names, Words, Marks, SlashesOf, Stop
  <2> QED
    BY <2>1
<1>3. \A p \in Strings \ Slashed : Names(p) = Nowhere(p)
  <2>1. ASSUME NEW p \in Strings \ Slashed
        PROVE  Names(p) = Nowhere(p)
    <3>1. ~IsPrefix(Root, p) /\ p # Root
      BY <1>1, RootIs DEF Slashed
    <3> QED
      BY <3>1 DEF Names, Nowhere
  <2> QED
    BY <2>1
<1> QED
  BY <1>2, <1>3 DEF Names

LEMMA SlashesAre ==
  ASSUME NEW p \in Strings
  PROVE  /\ Len(p) \in Nat /\ DOMAIN p = 1 .. Len(p)
         /\ IsFiniteSet(SlashesOf(p)) /\ SlashesOf(p) \subseteq 1 .. Len(p)
<1>1. Len(p) \in Nat /\ DOMAIN p = 1 .. Len(p)
  BY LenProperties DEF Strings
<1>2. SlashesOf(p) \in SUBSET (1 .. Len(p)) /\ IsFiniteSet(1 .. Len(p))
  BY <1>1, FS_Interval DEF SlashesOf
<1> QED
  BY <1>1, <1>2, FS_Subset

LEMMA MarksAre ==
  ASSUME NEW p \in Slashed
  PROVE  /\ Len(Marks(p)) \in Nat /\ Len(Marks(p)) > 0
         /\ DOMAIN Marks(p) = 1 .. Len(Marks(p))
         /\ \A i \in 1 .. Len(Marks(p)) : Marks(p)[i] \in 1 .. Len(p) /\ p[Marks(p)[i]] = Slash
         /\ \A i, j \in 1 .. Len(Marks(p)) : i < j => Marks(p)[i] < Marks(p)[j]
         /\ \A k \in 1 .. Len(p) : p[k] = Slash => \E i \in 1 .. Len(Marks(p)) : Marks(p)[i] = k
         /\ Marks(p)[1] = 1
<1>1. /\ p \in Strings /\ Len(p) \in Nat /\ Len(p) > 0 /\ p[1] = Slash /\ DOMAIN p = 1 .. Len(p)
      /\ IsFiniteSet(SlashesOf(p)) /\ SlashesOf(p) \subseteq 1 .. Len(p)
  BY SlashesAre DEF Slashed
<1>2. SlashesOf(p) \subseteq Nat
  BY <1>1
<1>3. /\ Len(Marks(p)) \in Nat /\ Marks(p) \in Seq(SlashesOf(p))
      /\ \A i, j \in 1 .. Len(Marks(p)) : i < j => Marks(p)[i] < Marks(p)[j]
      /\ \A k \in SlashesOf(p) : \E i \in 1 .. Len(Marks(p)) : Marks(p)[i] = k
  BY <1>1, <1>2, InOrderIs DEF Marks
<1>4. DOMAIN Marks(p) = 1 .. Len(Marks(p))
      /\ \A i \in 1 .. Len(Marks(p)) : Marks(p)[i] \in SlashesOf(p)
  BY <1>3, LenProperties, ElementOfSeq
<1>5. \A k \in 1 .. Len(p) : p[k] = Slash <=> k \in SlashesOf(p)
  BY <1>1 DEF SlashesOf
<1>6. PICK i \in 1 .. Len(Marks(p)) : Marks(p)[i] = 1
  BY <1>1, <1>3, <1>5
<1>7. \A j \in 1 .. Len(Marks(p)) : Marks(p)[j] \in 1 .. Len(p)
  BY <1>1, <1>4
<1>8. i = 1
  <2>1. ASSUME i # 1
        PROVE  FALSE
    <3>1. 1 \in 1 .. Len(Marks(p)) /\ 1 < i
      BY <1>3, <1>6, <2>1
    <3>2. Marks(p)[1] < Marks(p)[i]
      BY <1>3, <1>6, <3>1
    <3> QED
      BY <1>6, <1>7, <3>1, <3>2
  <2> QED
    BY <2>1
<1> QED
  BY <1>1, <1>3, <1>4, <1>5, <1>6, <1>7, <1>8

LEMMA StopIs ==
  ASSUME NEW p \in Slashed, NEW i \in 1 .. Len(Marks(p))
  PROVE  Stop(p, i) \in Marks(p)[i] .. Len(p)
<1>1. CASE i = Len(Marks(p))
  BY <1>1, MarksAre DEF Stop, Slashed, Strings
<1>2. CASE i # Len(Marks(p))
  <2>1. i + 1 \in 1 .. Len(Marks(p)) /\ i < i + 1
    BY <1>2, MarksAre
  <2>2. PICK a, b : a = Marks(p)[i] /\ b = Marks(p)[i + 1]
    OBVIOUS
  <2>3. a \in 1 .. Len(p) /\ b \in 1 .. Len(p) /\ a < b
    BY <2>1, <2>2, MarksAre
  <2> QED
    BY <1>2, <2>2, <2>3 DEF Stop, Slashed, Strings
<1> QED
  BY <1>1, <1>2

LEMMA WordsAre ==
  ASSUME NEW p \in Slashed
  PROVE  /\ Words(p) \in Seq(Strings) /\ Len(Words(p)) = Len(Marks(p))
         /\ DOMAIN Words(p) = 1 .. Len(Marks(p))
         /\ \A i \in 1 .. Len(Marks(p)) :
              /\ Words(p)[i] \in Strings
              /\ Len(Words(p)[i]) = Stop(p, i) - Marks(p)[i]
              /\ \A j \in 1 .. Len(Words(p)[i]) : Words(p)[i][j] = p[Marks(p)[i] + j]
<1>1. ASSUME NEW i \in 1 .. Len(Marks(p))
      PROVE  /\ Words(p)[i] \in Strings
             /\ Len(Words(p)[i]) = Stop(p, i) - Marks(p)[i]
             /\ \A j \in 1 .. Len(Words(p)[i]) : Words(p)[i][j] = p[Marks(p)[i] + j]
  <2>1. PICK a, b : a = Marks(p)[i] /\ b = Stop(p, i)
    OBVIOUS
  <2>2. a \in Nat /\ b \in Nat /\ a > 0 /\ a <= b /\ b <= Len(p) /\ Len(p) \in Nat
    BY <2>1, MarksAre, StopIs DEF Slashed, Strings
  <2>3. Words(p)[i] = SubSeq(p, a + 1, b)
    BY <2>1, MarksAre DEF Words
  <2>4. \A k \in a + 1 .. b : p[k] \in Letters
    BY <2>2, ElementOfSeq DEF Slashed, Strings
  <2>5. PICK c \in Int : c = a + 1
    BY <2>2
  <2>6. /\ SubSeq(p, c, b) \in Seq(Letters)
        /\ Len(SubSeq(p, c, b)) = (IF c <= b THEN b - c + 1 ELSE 0)
        /\ \A j \in 1 .. b - c + 1 : SubSeq(p, c, b)[j] = p[c + j - 1]
    BY <2>2, <2>4, <2>5, SubSeqProperties
  <2>7. b - c + 1 = b - a /\ (IF c <= b THEN b - c + 1 ELSE 0) = b - a
    BY <2>2, <2>5
  <2>8. \A j \in 1 .. b - a : c + j - 1 = a + j
    BY <2>2, <2>5
  <2>9. Words(p)[i] \in Strings /\ Len(Words(p)[i]) = b - a
    BY <2>3, <2>5, <2>6, <2>7 DEF Strings
  <2>10. \A j \in 1 .. b - a : Words(p)[i][j] = p[a + j]
    <3>1. \A j \in 1 .. b - a : SubSeq(p, c, b)[j] = p[a + j]
      BY <2>6, <2>7, <2>8
    <3> QED
      BY <2>3, <2>5, <3>1
  <2> QED
    BY <2>1, <2>9, <2>10
<1>2. DOMAIN Words(p) = 1 .. Len(Marks(p)) /\ Len(Marks(p)) \in Nat
  BY MarksAre DEF Words
<1>3. Words(p) \in [1 .. Len(Marks(p)) -> Strings]
  <2>1. Words(p) = [i \in 1 .. Len(Marks(p)) |-> Words(p)[i]]
    BY <1>2 DEF Words
  <2> QED
    BY <1>1, <2>1
<1>4. Words(p) \in Seq(Strings)
  BY <1>2, <1>3, SeqDef
<1>5. Len(Words(p)) = Len(Marks(p))
  BY <1>2, <1>4, LenProperties
<1> QED
  BY <1>1, <1>2, <1>4, <1>5

\* Every letter is a slash or belongs to one of the words.
LEMMA LettersInWords ==
  ASSUME NEW p \in Slashed, NEW k \in 1 .. Len(p)
  PROVE  \E i \in 1 .. Len(Marks(p)) : Marks(p)[i] <= k /\ k <= Stop(p, i)
<1> DEFINE n == Len(Marks(p))
           T == {i \in 1 .. n : i = n \/ Marks(p)[i + 1] > k}
<1>1. n \in Nat /\ n > 0 /\ Marks(p)[1] = 1 /\ \A i \in 1 .. n : Marks(p)[i] \in 1 .. Len(p)
  BY MarksAre
<1>2. T \subseteq Nat /\ T # {}
  BY <1>1
<1>3. \E x \in T : \A y \in T : x <= y
  <2> HIDE DEF T
  <2> QED
    BY <1>2, LeastNumber
<1>4. PICK i \in 1 .. n : /\ i = n \/ Marks(p)[i + 1] > k
                          /\ \A j \in 1 .. n : j < i => j # n /\ ~(Marks(p)[j + 1] > k)
  <2>1. PICK i \in T : \A y \in T : i <= y
    BY <1>3
  <2>2. i \in 1 .. n /\ (i = n \/ Marks(p)[i + 1] > k)
    OBVIOUS
  <2>3. ASSUME NEW j \in 1 .. n, j < i
        PROVE  j \notin T
    <3>1. i \in Nat /\ j \in Nat /\ ~(i <= j)
      BY <1>1, <2>2, <2>3
    <3> HIDE DEF T
    <3> QED
      BY <2>1, <3>1
  <2> QED
    BY <2>2, <2>3
<1>5. Len(p) \in Nat /\ k \in Nat
  BY DEF Slashed, Strings
<1>6. Marks(p)[i] <= k
  <2>1. CASE i = 1
    BY <1>1, <1>5, <2>1
  <2>2. CASE i # 1
    <3>1. PICK j \in 1 .. n : j = i - 1
      BY <1>1, <1>4, <2>2
    <3>2. ~(Marks(p)[i] > k)
      <4>1. j < i /\ j + 1 = i
        BY <1>1, <1>4, <3>1
      <4> QED
        BY <1>4, <4>1
    <3> QED
      BY <1>1, <1>5, <3>2
  <2> QED
    BY <2>1, <2>2
<1>7. k <= Stop(p, i)
  <2>1. CASE i = n
    BY <1>5, <2>1 DEF Stop
  <2>2. CASE i # n
    <3>1. i + 1 \in 1 .. n
      BY <1>1, <2>2
    <3>2. PICK b \in 1 .. Len(p) : b = Marks(p)[i + 1]
      BY <1>1, <3>1
    <3>3. Stop(p, i) = b - 1 /\ b > k
      BY <1>4, <2>2, <3>2 DEF Stop
    <3> QED
      BY <1>5, <3>3
  <2> QED
    BY <2>1, <2>2
<1> QED
  BY <1>6, <1>7

Chained(a, s, n) == \A i \in 1 .. n : i # n => s[i] = a[i + 1] - 1
SameLengths(a, s, b, t, n) == \A i \in 1 .. n : s[i] - a[i] = t[i] - b[i]

\* Steps of the same lengths, one after the other, reach the same places.
LEMMA SameSteps ==
  ASSUME NEW n \in Nat, NEW N \in SUBSET Nat,
         NEW a \in [1 .. n -> N], NEW b \in [1 .. n -> N],
         NEW s \in [1 .. n -> N], NEW t \in [1 .. n -> N],
         SameLengths(a, s, b, t, n), Chained(a, s, n), Chained(b, t, n), a[1] = b[1]
  PROVE  a = b /\ s = t
<1>1. ASSUME NEW i \in 1 .. n, a[i] = b[i]
      PROVE  s[i] = t[i]
  <2>1. s[i] - a[i] = t[i] - b[i]
    BY DEF SameLengths
  <2>2. s[i] \in Nat /\ t[i] \in Nat /\ a[i] \in Nat
    OBVIOUS
  <2> QED
    BY <1>1, <2>1, <2>2
<1>2. \A i \in 1 .. n : a[i] = b[i]
  <2> SUFFICES ASSUME NEW k \in 1 .. n, a[k] # b[k]
               PROVE  FALSE
    OBVIOUS
  <2> DEFINE T == {i \in 1 .. n : a[i] # b[i]}
  <2>1. T \subseteq Nat /\ T # {}
    OBVIOUS
  <2>2. \E x \in T : \A y \in T : x <= y
    <3> HIDE DEF T
    <3> QED
      BY <2>1, LeastNumber
  <2>3. PICK i \in 1 .. n : a[i] # b[i] /\ \A j \in 1 .. n : j < i => a[j] = b[j]
    BY <2>2
  <2>4. PICK j \in 1 .. n : j = i - 1
    BY <2>3
  <2>5. j # n /\ j + 1 = i /\ j < i
    BY <2>4
  <2>6. s[j] = a[j + 1] - 1 /\ t[j] = b[j + 1] - 1
    BY <2>5 DEF Chained
  <2>7. s[j] = t[j]
    BY <1>1, <2>3, <2>5
  <2>8. a[i] \in Nat /\ b[i] \in Nat /\ s[j] = a[i] - 1 /\ t[j] = b[i] - 1
    BY <2>5, <2>6
  <2>9. PICK x \in Nat, y \in Nat : x = a[i] /\ y = b[i]
    BY <2>8
  <2>10. x - 1 = y - 1
    BY <2>7, <2>8, <2>9
  <2> QED
    BY <2>3, <2>9, <2>10
<1> QED
  BY <1>1, <1>2

\* Paths of the same words are the same.
LEMMA WordsTell ==
  ASSUME NEW p \in Slashed, NEW q \in Slashed, Words(p) = Words(q)
  PROVE  p = q
<1> DEFINE n == Len(Marks(p))
           mp == [i \in 1 .. n |-> Marks(p)[i]]
           mq == [i \in 1 .. n |-> Marks(q)[i]]
           ep == [i \in 1 .. n |-> Stop(p, i)]
           eq == [i \in 1 .. n |-> Stop(q, i)]
<1>1. n = Len(Marks(q)) /\ n \in Nat /\ n > 0
  <2>1. Len(Words(p)) = Len(Marks(p)) /\ Len(Words(q)) = Len(Marks(q))
    BY WordsAre
  <2> QED
    BY <2>1, MarksAre
<1>2. Len(p) \in Nat /\ Len(q) \in Nat
  BY DEF Slashed, Strings
<1>3. \A i \in 1 .. n : /\ mp[i] \in 1 .. Len(p) /\ ep[i] \in mp[i] .. Len(p)
                        /\ mq[i] \in 1 .. Len(q) /\ eq[i] \in mq[i] .. Len(q)
  BY <1>1, MarksAre, StopIs
<1>4. SameLengths(mp, ep, mq, eq, n)
  BY <1>1, WordsAre DEF SameLengths
<1>5. Chained(mp, ep, n) /\ Chained(mq, eq, n)
  BY <1>1 DEF Chained, Stop
<1>6. mp[1] = mq[1]
  BY <1>1, MarksAre
<1>7. ep[n] = Len(p) /\ eq[n] = Len(q)
  BY <1>1 DEF Stop
<1>8. \A i \in 1 .. n : \A j \in 1 .. ep[i] - mp[i] :
        Words(p)[i][j] = p[mp[i] + j] /\ Words(q)[i][j] = q[mq[i] + j]
  <2>1. \A i \in 1 .. n : Len(Words(p)[i]) = ep[i] - mp[i] /\ Len(Words(q)[i]) = eq[i] - mq[i]
    BY <1>1, WordsAre
  <2>2. \A i \in 1 .. n : \A j \in 1 .. Len(Words(p)[i]) : Words(p)[i][j] = p[mp[i] + j]
    BY WordsAre
  <2>3. \A i \in 1 .. n : \A j \in 1 .. Len(Words(q)[i]) : Words(q)[i][j] = q[mq[i] + j]
    <3>1. \A i \in 1 .. Len(Marks(q)) :
            \A j \in 1 .. Len(Words(q)[i]) : Words(q)[i][j] = q[Marks(q)[i] + j]
      BY WordsAre
    <3>2. \A i \in 1 .. n : i \in 1 .. Len(Marks(q)) /\ mq[i] = Marks(q)[i]
      BY <1>1
    <3> HIDE DEF n, mq
    <3> QED
      BY <3>1, <3>2
  <2>4. \A i \in 1 .. n : Len(Words(p)[i]) = Len(Words(q)[i])
    OBVIOUS
  <2> QED
    BY <2>1, <2>2, <2>3, <2>4
<1>9. \A k \in 1 .. Len(p) : \E i \in 1 .. n : mp[i] <= k /\ k <= ep[i]
  BY LettersInWords
<1>10. \A i \in 1 .. n : p[mp[i]] = Slash /\ q[mq[i]] = Slash
  BY <1>1, MarksAre
<1>11. /\ mp \in [1 .. n -> Nat] /\ mq \in [1 .. n -> Nat]
       /\ ep \in [1 .. n -> Nat] /\ eq \in [1 .. n -> Nat]
  BY <1>2, <1>3
<1> HIDE DEF n, mp, mq, ep, eq
<1>12. mp = mq /\ ep = eq
  <2>1. n \in Nat /\ Nat \in SUBSET Nat
    BY <1>1
  <2> QED
    BY <1>4, <1>5, <1>6, <1>11, <2>1, SameSteps
<1>13. Len(p) = Len(q)
  BY <1>1, <1>7, <1>12
<1>14. ASSUME NEW k \in 1 .. Len(p)
       PROVE  p[k] = q[k]
  <2>1. PICK i \in 1 .. n : mp[i] <= k /\ k <= ep[i]
    BY <1>9
  <2>2. CASE k = mp[i]
    BY <1>10, <1>12, <2>2
  <2>3. CASE k # mp[i]
    <3>1. mp[i] \in Nat /\ ep[i] \in Nat /\ k \in Nat
      BY <1>2, <1>11
    <3>2. PICK j \in Nat : k = mp[i] + j /\ j > 0
      <4>1. k - mp[i] \in Nat /\ k - mp[i] > 0 /\ k = mp[i] + (k - mp[i])
        BY <2>1, <2>3, <3>1
      <4> QED
        BY <4>1
    <3>3. j \in 1 .. ep[i] - mp[i]
      BY <2>1, <3>1, <3>2
    <3> QED
      BY <1>8, <1>12, <3>2, <3>3
  <2> QED
    BY <2>2, <2>3
<1> QED
  BY <1>13, <1>14, SeqEqual DEF Slashed, Strings

-----------------------------------------------------------------------------
(* A path inside another.                                                   *)

Ancestor(p, m) == SubSeq(p, 1, Stop(p, m))

\* Stops come before the next slash.
LEMMA StopBefore ==
  ASSUME NEW p \in Slashed, NEW i \in 1 .. Len(Marks(p)), NEW j \in 1 .. Len(Marks(p)), i < j
  PROVE  Stop(p, i) < Marks(p)[j] /\ Stop(p, i) = Marks(p)[i + 1] - 1
<1>1. Len(Marks(p)) \in Nat /\ i # Len(Marks(p)) /\ i + 1 \in 1 .. Len(Marks(p))
  BY MarksAre
<1>2. Stop(p, i) = Marks(p)[i + 1] - 1
  BY <1>1 DEF Stop
<1>3. PICK a, b : a = Marks(p)[i + 1] /\ b = Marks(p)[j]
  OBVIOUS
<1>4. a \in Nat /\ b \in Nat /\ a <= b
  <2>1. a \in 1 .. Len(p) /\ b \in 1 .. Len(p) /\ Len(p) \in Nat
    BY <1>1, <1>3, MarksAre DEF Slashed, Strings
  <2>2. i + 1 = j \/ i + 1 < j
    OBVIOUS
  <2> QED
    BY <1>1, <1>3, <2>1, <2>2, MarksAre
<1> QED
  BY <1>2, <1>3, <1>4

LEMMA FrontIs ==
  ASSUME NEW p \in Slashed, NEW m \in 1 .. Len(Marks(p))
  PROVE  /\ Ancestor(p, m) \in Slashed /\ Len(Ancestor(p, m)) = Stop(p, m)
         /\ \A j \in 1 .. Stop(p, m) : Ancestor(p, m)[j] = p[j]
         /\ Words(Ancestor(p, m)) = SubSeq(Words(p), 1, m)
         /\ Len(Words(Ancestor(p, m))) = m
<1> DEFINE q == Ancestor(p, m)
           e == Stop(p, m)
           n == Len(Marks(p))
<1>1. /\ Len(p) \in Nat /\ n \in Nat /\ e \in 1 .. Len(p) /\ m \in 1 .. n
      /\ Marks(p)[m] \in 1 .. e
  <2>1. Marks(p)[m] \in 1 .. Len(p) /\ Stop(p, m) \in Marks(p)[m] .. Len(p)
    BY MarksAre, StopIs
  <2> QED
    BY <2>1, MarksAre DEF Slashed, Strings
<1>2. \A j \in 1 .. e : p[j] \in Letters
  BY <1>1, ElementOfSeq DEF Slashed, Strings
<1>3. q \in Strings /\ Len(q) = e /\ \A j \in 1 .. e : q[j] = p[j]
  <2>1. PICK c \in Int : c = e
    BY <1>1
  <2>2. /\ SubSeq(p, 1, c) \in Seq(Letters)
        /\ Len(SubSeq(p, 1, c)) = (IF 1 <= c THEN c - 1 + 1 ELSE 0)
        /\ \A i \in 1 .. c - 1 + 1 : SubSeq(p, 1, c)[i] = p[1 + i - 1]
    BY <1>2, <2>1, SubSeqProperties
  <2>3. c \in Nat /\ 1 <= c /\ c - 1 + 1 = c
    BY <1>1, <2>1
  <2> QED
    BY <2>1, <2>2, <2>3 DEF Ancestor, Strings
<1>4. q \in Slashed
  BY <1>1, <1>3 DEF Slashed
<1> HIDE DEF q, e
<1> DEFINE f == [i \in 1 .. m |-> Marks(p)[i]]
<1>5. \A i \in 1 .. m : i \in 1 .. n /\ Marks(p)[i] \in 1 .. e /\ p[Marks(p)[i]] = Slash
  <2>1. ASSUME NEW i \in 1 .. m
        PROVE  i \in 1 .. n /\ Marks(p)[i] \in 1 .. e /\ p[Marks(p)[i]] = Slash
    <3>1. i \in 1 .. n
      BY <1>1
    <3>2. Marks(p)[i] \in 1 .. Len(p) /\ p[Marks(p)[i]] = Slash
      BY <3>1, MarksAre
    <3>3. i = m \/ i < m
      BY <1>1
    <3>4. i < m => Marks(p)[i] < Marks(p)[m]
      BY <1>1, <3>1, MarksAre
    <3> QED
      BY <1>1, <3>1, <3>2, <3>3, <3>4
  <2> QED
    BY <2>1
<1>6. \A k : k \in SlashesOf(q) <=> k \in 1 .. e /\ p[k] = Slash
  BY <1>3, LenProperties DEF SlashesOf, Strings
<1>7. f \in [1 .. m -> SlashesOf(q)]
  BY <1>5, <1>6
<1>8. Increasing(f, m)
  BY <1>5, MarksAre DEF Increasing
<1>9. Covers(f, m, SlashesOf(q))
  <2>1. ASSUME NEW k \in SlashesOf(q)
        PROVE  \E i \in 1 .. m : f[i] = k
    <3>1. k \in 1 .. e /\ k \in 1 .. Len(p) /\ p[k] = Slash
      BY <1>1, <1>6
    <3>2. PICK i \in 1 .. n : Marks(p)[i] = k
      BY <3>1, MarksAre
    <3>3. ~(m < i)
      <4>1. m < i => e < Marks(p)[i]
        BY <1>1, StopBefore DEF e
      <4> QED
        BY <1>1, <3>1, <3>2, <4>1
    <3>4. i \in 1 .. m
      BY <1>1, <3>3
    <3> QED
      BY <3>2, <3>4
  <2> QED
    BY <2>1 DEF Covers
<1>10. f = Marks(q) /\ m = Cardinality(SlashesOf(q))
  <2>1. IsFiniteSet(SlashesOf(q)) /\ SlashesOf(q) \subseteq Nat
    BY <1>3, <1>1, SlashesAre
  <2>2. m \in Nat
    BY <1>1
  <2> HIDE DEF f
  <2> QED
    BY <1>7, <1>8, <1>9, <2>1, <2>2, OneOrder DEF Marks
<1>11. /\ Len(Marks(q)) = m
       /\ \A i \in 1 .. m : Marks(q)[i] = Marks(p)[i]
  <2>1. m = Len(Marks(q))
    BY <1>3, <1>1, <1>10, SlashesAre, InOrderIs DEF Marks
  <2> QED
    BY <1>10, <2>1
<1>12. \A i \in 1 .. m : Stop(q, i) = Stop(p, i) /\ Stop(p, i) \in 1 .. e
  <2>1. ASSUME NEW i \in 1 .. m
        PROVE  Stop(q, i) = Stop(p, i) /\ Stop(p, i) \in 1 .. e
    <3>1. CASE i = m
      BY <1>1, <1>3, <1>11, <3>1 DEF Stop, e
    <3>2. CASE i # m
      <4>1. i \in 1 .. n /\ i < m /\ i + 1 \in 1 .. m /\ i # n
        BY <1>1, <3>2
      <4>2. Stop(p, i) = Marks(p)[i + 1] - 1 /\ Stop(p, i) < Marks(p)[m]
        BY <1>1, <4>1, StopBefore
      <4>3. Stop(q, i) = Marks(q)[i + 1] - 1
        BY <1>11, <3>2 DEF Stop
      <4>4. Marks(q)[i + 1] = Marks(p)[i + 1]
        BY <1>11, <4>1
      <4>5. Stop(p, i) \in Marks(p)[i] .. Len(p) /\ Marks(p)[i] \in 1 .. Len(p)
        BY <4>1, StopIs, MarksAre
      <4> QED
        BY <1>1, <4>2, <4>3, <4>4, <4>5
    <3> QED
      BY <3>1, <3>2
  <2> QED
    BY <2>1
<1>13. /\ Words(q) \in Seq(Strings) /\ Len(Words(q)) = m
       /\ \A i \in 1 .. m : Words(q)[i] \in Strings /\ Len(Words(q)[i]) = Stop(q, i) - Marks(q)[i]
       /\ \A i \in 1 .. m : \A j \in 1 .. Len(Words(q)[i]) : Words(q)[i][j] = q[Marks(q)[i] + j]
  BY <1>4, <1>11, WordsAre
<1>14. /\ Words(p) \in Seq(Strings) /\ Len(Words(p)) = n
       /\ \A i \in 1 .. m : Words(p)[i] \in Strings /\ Len(Words(p)[i]) = Stop(p, i) - Marks(p)[i]
       /\ \A i \in 1 .. m : \A j \in 1 .. Len(Words(p)[i]) : Words(p)[i][j] = p[Marks(p)[i] + j]
  BY <1>5, WordsAre
<1>15. \A i \in 1 .. m : Words(q)[i] = Words(p)[i]
  <2>1. ASSUME NEW i \in 1 .. m
        PROVE  Words(q)[i] = Words(p)[i]
    <3>1. PICK a, b : a = Marks(p)[i] /\ b = Stop(p, i)
      OBVIOUS
    <3>2. a = Marks(q)[i] /\ b = Stop(q, i) /\ a \in 1 .. e /\ b \in 1 .. e
      BY <1>5, <1>11, <1>12, <3>1
    <3>3. Len(Words(q)[i]) = b - a /\ Len(Words(p)[i]) = b - a
      BY <1>13, <1>14, <3>1, <3>2
    <3>4. \A j \in 1 .. b - a : a + j \in 1 .. e
      <4>1. PICK x \in Nat : x = e
        BY <1>1
      <4>2. a \in 1 .. x /\ b \in 1 .. x
        BY <3>2, <4>1
      <4>3. \A j \in 1 .. b - a : a + j \in 1 .. x
        BY <4>2
      <4> QED
        BY <4>1, <4>3
    <3>5. \A j \in 1 .. b - a : Words(q)[i][j] = q[a + j] /\ Words(p)[i][j] = p[a + j]
      <4>1. \A j \in 1 .. b - a : Words(q)[i][j] = q[a + j]
        BY <1>13, <3>2, <3>3
      <4>2. \A j \in 1 .. b - a : Words(p)[i][j] = p[a + j]
        BY <1>14, <3>1, <3>3
      <4> QED
        BY <4>1, <4>2
    <3>6. \A j \in 1 .. Len(Words(q)[i]) : Words(q)[i][j] = Words(p)[i][j]
      BY <1>3, <3>3, <3>4, <3>5
    <3> QED
      BY <1>13, <1>14, <3>3, <3>6, SeqEqual DEF Strings
  <2> QED
    BY <2>1
<1>16. Words(q) = SubSeq(Words(p), 1, m)
  <2>1. PICK c \in Int : c = m /\ c - 1 + 1 = m /\ 1 <= c
    BY <1>1
  <2>2. \A i \in 1 .. c : Words(p)[i] \in Strings
    BY <1>14, <2>1
  <2>3. /\ SubSeq(Words(p), 1, c) \in Seq(Strings)
        /\ Len(SubSeq(Words(p), 1, c)) = (IF 1 <= c THEN c - 1 + 1 ELSE 0)
        /\ \A i \in 1 .. c - 1 + 1 : SubSeq(Words(p), 1, c)[i] = Words(p)[1 + i - 1]
    BY <2>2, SubSeqProperties
  <2>4. \A i \in 1 .. m : 1 + i - 1 = i
    BY <1>1
  <2> QED
    BY <1>13, <1>15, <2>1, <2>3, <2>4, SeqEqual
<1> QED
  BY <1>3, <1>4, <1>13, <1>16 DEF q, e

\* q goes on below the object of path p.
Inside(p, q) ==
  /\ Len(p) < Len(q) /\ q[Len(p) + 1] = Slash
  /\ \A j \in 1 .. Len(p) : q[j] = p[j]

LEMMA FrontInside ==
  ASSUME NEW q \in Slashed, NEW m \in 1 .. Len(Marks(q)), m # Len(Marks(q))
  PROVE  /\ Inside(Ancestor(q, m), q) /\ Ancestor(q, m) \in Parents(q)
         /\ m + 1 \in 1 .. Len(Marks(q)) /\ Marks(q)[m + 1] = Stop(q, m) + 1
<1>1. m + 1 \in 1 .. Len(Marks(q)) /\ m \in Nat /\ Len(q) \in Nat
  BY MarksAre DEF Slashed, Strings
<1>2. PICK a, b : a = Stop(q, m) /\ b = Marks(q)[m + 1]
  OBVIOUS
<1>3. b \in 1 .. Len(q) /\ q[b] = Slash /\ a = b - 1 /\ a \in Nat /\ a # 0
  <2>1. b \in 1 .. Len(q) /\ q[b] = Slash /\ a = b - 1
    BY <1>1, <1>2, MarksAre DEF Stop
  <2>2. a \in Marks(q)[m] .. Len(q) /\ Marks(q)[m] \in 1 .. Len(q)
    BY <1>2, MarksAre, StopIs
  <2> QED
    BY <1>1, <2>1, <2>2
<1>4. Len(Ancestor(q, m)) = a /\ \A j \in 1 .. a : Ancestor(q, m)[j] = q[j]
  BY <1>2, FrontIs
<1>5. b \in 2 .. Len(q) /\ b - 1 = a /\ a + 1 = b /\ a < Len(q)
  BY <1>1, <1>3
<1>6. Ancestor(q, m) = SubSeq(q, 1, b - 1)
  BY <1>2, <1>5 DEF Ancestor
<1>7. Ancestor(q, m) \in Parents(q)
  BY <1>3, <1>5, <1>6 DEF Parents
<1>8. Inside(Ancestor(q, m), q)
  BY <1>3, <1>4, <1>5 DEF Inside
<1> QED
  BY <1>1, <1>2, <1>5, <1>7, <1>8

LEMMA InsideFront ==
  ASSUME NEW p \in Slashed, NEW q \in Slashed, Inside(p, q)
  PROVE  \E m \in 1 .. Len(Marks(q)) : m # Len(Marks(q)) /\ p = Ancestor(q, m)
<1>1. /\ Len(p) \in Nat /\ Len(p) > 0 /\ Len(q) \in Nat /\ Len(p) < Len(q)
      /\ q[Len(p) + 1] = Slash /\ \A j \in 1 .. Len(p) : q[j] = p[j]
  BY DEF Inside, Slashed, Strings
<1>2. Len(p) + 1 \in 1 .. Len(q)
  BY <1>1
<1>3. PICK i \in 1 .. Len(Marks(q)) : Marks(q)[i] = Len(p) + 1
  BY <1>1, <1>2, MarksAre
<1>4. i # 1
  BY <1>1, <1>3, MarksAre
<1>5. PICK m \in 1 .. Len(Marks(q)) : m + 1 = i /\ m # Len(Marks(q))
  <2>1. Len(Marks(q)) \in Nat /\ i - 1 \in 1 .. Len(Marks(q)) /\ i - 1 + 1 = i /\ i - 1 # Len(Marks(q))
    BY <1>4, MarksAre
  <2> QED
    BY <2>1
<1>6. Stop(q, m) = Len(p)
  <2>1. Marks(q)[m + 1] = Stop(q, m) + 1
    BY <1>5, FrontInside
  <2>2. Stop(q, m) \in Nat
    <3>1. Stop(q, m) \in Marks(q)[m] .. Len(q) /\ Marks(q)[m] \in 1 .. Len(q)
      BY StopIs, MarksAre
    <3> QED
      BY <1>1, <3>1
  <2> QED
    BY <1>1, <1>3, <1>5, <2>1, <2>2
<1>7. p = Ancestor(q, m)
  <2>1. /\ Ancestor(q, m) \in Strings /\ Len(Ancestor(q, m)) = Len(p)
        /\ \A j \in 1 .. Len(p) : Ancestor(q, m)[j] = q[j]
    BY <1>6, FrontIs DEF Slashed
  <2> QED
    BY <1>1, <2>1, SeqEqual DEF Slashed, Strings
<1> QED
  BY <1>5, <1>7

LEMMA WordsInside ==
  ASSUME NEW p \in Slashed, NEW q \in Slashed
  PROVE  IsStrictPrefix(Words(p), Words(q)) <=> Inside(p, q)
<1>1. /\ Words(p) \in Seq(Strings) /\ Len(Words(p)) = Len(Marks(p)) /\ Len(Marks(p)) \in Nat \ {0}
      /\ Words(q) \in Seq(Strings) /\ Len(Words(q)) = Len(Marks(q)) /\ Len(Marks(q)) \in Nat \ {0}
  BY WordsAre, MarksAre
<1>2. /\ SubSeq(Words(p), 1, Len(Words(p))) = Words(p)
      /\ SubSeq(Words(q), 1, Len(Words(q))) = Words(q)
  BY <1>1, SubSeqFull
<1>3. ASSUME IsStrictPrefix(Words(p), Words(q))
      PROVE  Inside(p, q)
  <2>1. /\ Len(Words(p)) <= Len(Words(q)) /\ Words(p) # Words(q)
        /\ Words(p) = SubSeq(Words(q), 1, Len(Words(p)))
    BY <1>2, <1>3 DEF IsStrictPrefix, IsPrefix
  <2>2. Len(Words(p)) # Len(Words(q))
    BY <1>2, <2>1
  <2>3. PICK m \in 1 .. Len(Marks(q)) : m = Len(Words(p)) /\ m # Len(Marks(q))
    <3>1. PICK a \in Nat \ {0}, b \in Nat \ {0} : a = Len(Words(p)) /\ b = Len(Marks(q)) /\ b = Len(Words(q))
      BY <1>1
    <3>2. a <= b /\ a # b
      BY <2>1, <2>2, <3>1
    <3>3. a \in 1 .. Len(Marks(q)) /\ a # Len(Marks(q))
      BY <3>1, <3>2
    <3> QED
      BY <3>1, <3>3
  <2>4. Ancestor(q, m) \in Slashed /\ Words(Ancestor(q, m)) = Words(p)
    BY <2>1, <2>3, FrontIs
  <2>5. p = Ancestor(q, m)
    BY <2>4, WordsTell
  <2> QED
    BY <2>3, <2>5, FrontInside
<1>4. ASSUME Inside(p, q)
      PROVE  IsStrictPrefix(Words(p), Words(q))
  <2>1. PICK m \in 1 .. Len(Marks(q)) : m # Len(Marks(q)) /\ p = Ancestor(q, m)
    BY <1>4, InsideFront
  <2>2. Words(p) = SubSeq(Words(q), 1, m) /\ Len(Words(p)) = m
    BY <2>1, FrontIs
  <2>3. m <= Len(Words(q)) /\ Words(p) # Words(q)
    BY <1>1, <2>1, <2>2
  <2> QED
    BY <1>2, <2>2, <2>3 DEF IsStrictPrefix, IsPrefix
<1> QED
  BY <1>3, <1>4

\* The last word is what follows the last slash.
LEMMA LastWord ==
  ASSUME NEW q \in Slashed, NEW n, n = Len(Marks(q))
  PROVE  /\ Words(q)[n] = SubSeq(q, Marks(q)[n] + 1, Len(q))
         /\ \A m \in 1 .. n : NoSlashAfter(q, Marks(q)[m] + 1) <=> m = n
<1>1. n \in Nat /\ n > 0 /\ n \in DOMAIN Marks(q) /\ Len(q) \in Nat
  BY MarksAre DEF Slashed, Strings
<1>2. Words(q)[n] = SubSeq(q, Marks(q)[n] + 1, Len(q))
  BY <1>1 DEF Words, Stop
<1>3. ASSUME NEW m \in 1 .. n, NoSlashAfter(q, Marks(q)[m] + 1), m # n
      PROVE  FALSE
  <2>1. n \in 1 .. n /\ m < n
    BY <1>1, <1>3
  <2>2. PICK a, b : a = Marks(q)[m] /\ b = Marks(q)[n]
    OBVIOUS
  <2>3. a \in 1 .. Len(q) /\ b \in 1 .. Len(q) /\ a < b /\ q[b] = Slash
    BY <2>1, <2>2, MarksAre
  <2>4. b \in a + 1 .. Len(q)
    BY <1>1, <2>3
  <2> QED
    BY <1>3, <2>2, <2>3, <2>4 DEF NoSlashAfter
<1>4. NoSlashAfter(q, Marks(q)[n] + 1)
  <2>1. PICK a : a = Marks(q)[n]
    OBVIOUS
  <2>2. a \in 1 .. Len(q)
    BY <1>1, <2>1, MarksAre
  <2>3. ASSUME NEW k \in a + 1 .. Len(q), q[k] = Slash
        PROVE  FALSE
    <3>1. k \in 1 .. Len(q) /\ a < k
      BY <1>1, <2>2
    <3>2. PICK i \in 1 .. n : Marks(q)[i] = k
      BY <2>3, <3>1, MarksAre
    <3>3. i = n \/ i < n
      BY <1>1
    <3>4. i < n => k < a
      BY <1>1, <2>1, <3>2, MarksAre
    <3> QED
      BY <1>1, <2>1, <2>2, <3>1, <3>2, <3>3, <3>4
  <2> QED
    BY <2>1, <2>3 DEF NoSlashAfter
<1> QED
  BY <1>2, <1>3, <1>4

-----------------------------------------------------------------------------
(* The tree of named objects.                                               *)

\* No word has a slash, so what does not begin with one is not named by words.
LEMMA WordsArePlain ==
  ASSUME NEW p \in Slashed, NEW i \in 1 .. Len(Marks(p)), NEW j \in 1 .. Len(Words(p)[i])
  PROVE  Words(p)[i][j] # Slash
<1>1. PICK a, b : a = Marks(p)[i] /\ b = Stop(p, i)
  OBVIOUS
<1>2. /\ a \in 1 .. Len(p) /\ b \in a .. Len(p) /\ Len(p) \in Nat
      /\ Len(Words(p)[i]) = b - a /\ Words(p)[i][j] = p[a + j]
  BY <1>1, MarksAre, StopIs, WordsAre DEF Slashed, Strings
<1>3. j \in Nat /\ a < a + j /\ a + j <= b /\ a + j \in 1 .. Len(p)
  BY <1>2
<1>4. ASSUME p[a + j] = Slash
      PROVE  FALSE
  <2>1. PICK m \in 1 .. Len(Marks(p)) : Marks(p)[m] = a + j
    BY <1>3, <1>4, MarksAre
  <2>2. Len(Marks(p)) \in Nat
    BY MarksAre
  <2>3. CASE m < i
    <3>1. Marks(p)[m] < Marks(p)[i]
      BY <2>3, MarksAre
    <3> QED
      BY <1>1, <1>2, <1>3, <2>1, <3>1
  <2>4. CASE i < m
    <3>1. b < Marks(p)[m]
      BY <1>1, <2>4, StopBefore
    <3> QED
      BY <1>2, <1>3, <2>1, <3>1
  <2>5. CASE m = i
    BY <1>1, <1>2, <1>3, <2>1, <2>5
  <2> QED
    BY <2>2, <2>3, <2>4, <2>5
<1> QED
  BY <1>2, <1>4

LEMMA NowhereIs ==
  ASSUME NEW p \in Strings, NEW q \in Slashed
  PROVE  Nowhere(p) # Words(q)
<1> SUFFICES ASSUME Nowhere(p) = Words(q)
             PROVE  FALSE
  OBVIOUS
<1>1. PICK w \in Strings : w = p \o Root
  <2>1. p \o Root \in Strings
    BY RootIs, ConcatProperties DEF Strings
  <2> QED
    BY <2>1
<1>2. Len(p) \in Nat /\ Len(w) = Len(p) + 1 /\ w[Len(p) + 1] = Slash
  <2>1. Len(p) \in Nat /\ Root \in Strings /\ Len(Root) = 1 /\ Root[1] = Slash
    BY RootIs DEF Strings
  <2>2. Len(w) = Len(p) + 1 /\ \A k \in 1 .. Len(p) + 1 : w[k] = IF k <= Len(p) THEN p[k] ELSE Root[k - Len(p)]
    <3>1. p \in Seq(Letters) /\ Root \in Seq(Letters)
      BY <2>1 DEF Strings
    <3>2. /\ Len(p \o Root) = Len(p) + Len(Root)
          /\ \A k \in 1 .. Len(p) + Len(Root) :
               (p \o Root)[k] = IF k <= Len(p) THEN p[k] ELSE Root[k - Len(p)]
      BY <3>1, ConcatProperties
    <3> QED
      BY <1>1, <2>1, <3>2
  <2>3. PICK a \in Nat : a = Len(p)
    BY <2>1
  <2>4. a + 1 \in 1 .. a + 1 /\ ~(a + 1 <= a) /\ a + 1 - a = 1
    BY <2>3
  <2> QED
    BY <2>1, <2>2, <2>3, <2>4
<1>3. Words(q)[1] = w
  BY <1>1 DEF Nowhere
<1>4. 1 \in 1 .. Len(Marks(q))
  BY MarksAre
<1>5. Len(p) + 1 \in 1 .. Len(Words(q)[1])
  BY <1>2, <1>3
<1> QED
  BY <1>2, <1>3, <1>4, <1>5, WordsArePlain

LEMMA RootHasNoNames == Names(Root) = << >>
BY NamesAre

LEMMA NamesSeq ==
  ASSUME NEW p \in Slashed
  PROVE  /\ Names(p) \in Seq(Strings) /\ Len(Names(p)) \in Nat
         /\ p # Root => Names(p) = Words(p) /\ Len(Names(p)) = Len(Marks(p)) /\ Len(Names(p)) > 0
<1>1. CASE p = Root
  BY <1>1, RootHasNoNames, EmptySeq
<1>2. CASE p # Root
  BY <1>2, NamesAre, WordsAre, MarksAre
<1> QED
  BY <1>1, <1>2

\* Different paths have different names.
LEMMA NamesTell ==
  ASSUME NEW p \in Slashed, NEW q \in Slashed, Names(p) = Names(q)
  PROVE  p = q
<1>1. CASE p = Root /\ q = Root
  BY <1>1
<1>2. CASE p # Root /\ q # Root
  <2>1. Words(p) = Words(q)
    BY <1>2, NamesAre
  <2> QED
    BY <2>1, WordsTell
<1>3. Len(Names(Root)) = 0
  BY RootHasNoNames, EmptySeq
<1>4. CASE p = Root /\ q # Root
  <2>1. Names(q) = << >> /\ Len(Names(q)) > 0
    BY <1>4, RootHasNoNames, NamesSeq
  <2> QED
    BY <1>3, <2>1, RootHasNoNames
<1>5. CASE p # Root /\ q = Root
  <2>1. Names(p) = << >> /\ Len(Names(p)) > 0
    BY <1>5, RootHasNoNames, NamesSeq
  <2> QED
    BY <1>3, <2>1, RootHasNoNames
<1> QED
  BY <1>1, <1>2, <1>4, <1>5

LEMMA NamesApart ==
  ASSUME NEW p \in Strings, NEW q \in Slashed, Names(p) = Names(q)
  PROVE  p \in Slashed
<1> SUFFICES ASSUME p \notin Slashed
             PROVE  FALSE
  OBVIOUS
<1>1. Names(p) = Nowhere(p)
  BY NamesAre
<1>2. CASE q # Root
  <2>1. Nowhere(p) = Words(q)
    BY <1>1, <1>2, NamesAre
  <2> QED
    BY <2>1, NowhereIs
<1>3. CASE q = Root
  <2>1. Names(q) = << >> /\ Len(<< >>) = 0
    BY <1>3, NamesAre, EmptySeq
  <2>2. PICK w : w = p \o Root
    OBVIOUS
  <2>3. Len(<<w>>) = 1
    OBVIOUS
  <2>4. Len(Nowhere(p)) = 1
    BY <2>2, <2>3 DEF Nowhere
  <2>5. Nowhere(p) = << >>
    BY <1>1, <2>1
  <2>6. Len(Nowhere(p)) = 0
    BY <2>1, <2>5
  <2> QED
    BY <2>4, <2>6
<1> QED
  BY <1>2, <1>3

LEMMA PathsAre ==
  /\ Root \in Slashed /\ Root \in Paths
  /\ \A e \in Definitions : e.path \in Slashed /\ \A q \in Parents(e.path) : q \in Slashed
  /\ \A p \in Paths : p \in Strings /\ NamesOf[p] = Names(p)
<1>1. Root \in Slashed
  BY RootIs DEF Slashed
<1>2. \A p \in Missing : p \in Strings
  BY DefinitionsAssumption DEF Strings, Letters
<1>3. \A e \in Definitions : e.path \in Slashed /\ \A q \in Parents(e.path) : q \in Slashed
  <2>1. ASSUME NEW e \in Definitions
        PROVE  e.path \in Slashed /\ \A q \in Parents(e.path) : q \in Slashed
    <3>1. /\ e.path \in Strings /\ Len(e.path) \in Nat /\ Len(e.path) > 1
          /\ e.path[1] = Slash /\ e.path[2] # Slash
      BY DefinitionIs
    <3>2. \A q \in Parents(e.path) : q \in Strings /\ Len(q) \in Nat /\ 1 < Len(q) /\ q[1] = Slash
      BY <3>1, ParentsAre
    <3>3. \A q \in Parents(e.path) : Len(q) > 0
      BY <3>2
    <3> QED
      BY <3>1, <3>2, <3>3 DEF Slashed
  <2> QED
    BY <2>1
<1>4. \A p \in Paths : p \in Strings
  BY <1>1, <1>2, <1>3 DEF Paths, Slashed
<1>5. \A p \in Paths : NamesOf[p] = Names(p)
  BY DEF NamesOf
<1> QED
  BY <1>1, <1>3, <1>4, <1>5 DEF Paths

N(k) == Names(infoList[k].path)

EntryKind(o) == IF o.type = "LIST" THEN "list" ELSE tables[o.type][o.index].kind

\* What there is behind each entry of INFO_LIST.
LEMMA EntriesAre ==
  ASSUME Generated
  PROVE  /\ DOMAIN infoList = 1 .. Len(infoList) /\ Len(infoList) \in Nat /\ Len(infoList) > 0
         /\ infoList[1].path = Root /\ infoList[1].type = "LIST"
         /\ \A k \in DOMAIN infoList :
              /\ infoList[k].path \in Paths /\ infoList[k].path \in Slashed
              /\ \/ infoList[k].type = "LIST" /\ infoList[k].path = Root
                 \/ infoList[k].type = "LIST" /\ infoList[k].path \in ListPaths(defined)
                 \/ /\ infoList[k].type \in Types
                    /\ infoList[k].index \in DOMAIN tables[infoList[k].type]
                    /\ tables[infoList[k].type][infoList[k].index].path = infoList[k].path
              /\ k # 1 => /\ infoList[k].path # Root /\ Len(infoList[k].path) > 1
                          /\ infoList[k].path[2] # Slash
         /\ \A q \in ListPaths(defined) :
              \E k \in DOMAIN infoList : infoList[k].path = q /\ infoList[k].type = "LIST"
         /\ \A i \in DOMAIN defined : \E k \in DOMAIN infoList : infoList[k].path = defined[i].path
<1>1. /\ defined \in Files /\ infoList = Analyze(defined) /\ tables = Tables(defined)
  BY DEF Generated
<1>2. /\ DOMAIN infoList = 1 .. Len(infoList) /\ Len(infoList) \in Nat /\ Len(infoList) > 0
      /\ infoList[1] = RootEntry
      /\ \A k \in 2 .. Len(infoList) : infoList[k] \in ObjectPaths(defined)
      /\ \A o \in ObjectPaths(defined) : \E k \in 2 .. Len(infoList) : infoList[k] = o
  BY <1>1, InfoListIs
<1>3. infoList[1].path = Root /\ infoList[1].type = "LIST"
  BY <1>2 DEF RootEntry
<1>4. \A i \in DOMAIN defined : defined[i] \in Definitions
  BY <1>1, FileIs
<1>5. ASSUME NEW k \in DOMAIN infoList, k # 1
      PROVE  /\ infoList[k].path \in Paths /\ infoList[k].path \in Slashed
             /\ \/ infoList[k].type = "LIST" /\ infoList[k].path \in ListPaths(defined)
                \/ /\ infoList[k].type \in Types
                   /\ infoList[k].index \in DOMAIN tables[infoList[k].type]
                   /\ tables[infoList[k].type][infoList[k].index].path = infoList[k].path
             /\ infoList[k].path # Root /\ Len(infoList[k].path) > 1
             /\ infoList[k].path[2] # Slash
  <2>1. infoList[k] \in ObjectPaths(defined)
    BY <1>2, <1>5
  <2>2. CASE \E p \in ListPaths(defined) : infoList[k] = ListEntry(p)
    <3>1. PICK p \in ListPaths(defined) : infoList[k] = ListEntry(p)
      BY <2>2
    <3>2. infoList[k].type = "LIST" /\ infoList[k].path = p
      BY <3>1 DEF ListEntry
    <3>3. Len(p) > 1 /\ p[2] # Slash
      BY <1>1, ListPathsAre
    <3>4. p \in Paths /\ p \in Slashed
      BY <1>4, PathsAre DEF ListPaths, Paths
    <3>5. p # Root
      BY <3>3, RootIs
    <3> QED
      BY <3>2, <3>3, <3>4, <3>5
  <2>3. CASE \E t \in Types : \E i \in DOMAIN tables[t] : infoList[k] = TableEntry(defined, t, i)
    <3>0. PICK t \in Types : \E i \in DOMAIN tables[t] : infoList[k] = TableEntry(defined, t, i)
      BY <2>3
    <3>1. PICK i \in DOMAIN tables[t] : infoList[k] = TableEntry(defined, t, i)
      BY <3>0
    <3>2. infoList[k].type = t /\ infoList[k].index = i /\ infoList[k].path = tables[t][i].path
      BY <1>1, <3>1 DEF TableEntry
    <3>3. PICK j \in DOMAIN defined : tables[t][i] = defined[j]
      BY <1>1, TableIs
    <3>4. /\ Len(defined[j].path) > 1 /\ defined[j].path[2] # Slash
          /\ defined[j].path \in Paths /\ defined[j].path \in Slashed
      BY <1>4, DefinitionIs, PathsAre DEF Paths
    <3>5. defined[j].path # Root
      BY <3>4, RootIs
    <3> QED
      BY <3>2, <3>3, <3>4, <3>5
  <2> QED
    BY <1>1, <2>1, <2>2, <2>3, ObjectsAre
<1>6. \A k \in DOMAIN infoList : infoList[k].path \in Paths /\ infoList[k].path \in Slashed
  BY <1>3, <1>5, PathsAre
<1>7. \A q \in ListPaths(defined) :
        \E k \in DOMAIN infoList : infoList[k].path = q /\ infoList[k].type = "LIST"
  <2>1. ASSUME NEW q \in ListPaths(defined)
        PROVE  \E k \in DOMAIN infoList : infoList[k].path = q /\ infoList[k].type = "LIST"
    <3>1. PICK k \in 2 .. Len(infoList) : infoList[k] = ListEntry(q)
      BY <1>2, ObjectsAre
    <3>2. k \in DOMAIN infoList
      BY <1>2
    <3> QED
      BY <3>1, <3>2 DEF ListEntry
  <2> QED
    BY <2>1
<1>8. \A i \in DOMAIN defined : \E k \in DOMAIN infoList : infoList[k].path = defined[i].path
  <2>1. ASSUME NEW i \in DOMAIN defined
        PROVE  \E k \in DOMAIN infoList : infoList[k].path = defined[i].path
    <3>1. PICK t \in Types : t = TypeOf(defined[i].kind)
      BY <1>4, DefinitionIs
    <3>2. PICK n \in DOMAIN Tables(defined)[t] : Tables(defined)[t][n] = defined[i]
      BY <1>1, <3>1, TableIs
    <3>3. PICK k \in 2 .. Len(infoList) : infoList[k] = TableEntry(defined, t, n)
      BY <1>2, ObjectsAre
    <3>4. k \in DOMAIN infoList
      BY <1>2
    <3> QED
      BY <3>2, <3>3, <3>4 DEF TableEntry
  <2> QED
    BY <2>1
<1> QED
  BY <1>2, <1>3, <1>5, <1>6, <1>7, <1>8, PathsAre

\* Entries of the same names are the same.
LEMMA EntryNames ==
  ASSUME Generated, NEW j \in DOMAIN infoList, NEW k \in DOMAIN infoList, N(j) = N(k)
  PROVE  j = k
<1>1. infoList[j].path = infoList[k].path
  BY EntriesAre, NamesTell DEF N
<1> QED
  BY <1>1, EntriesAre, EntryPaths DEF Generated

Named(d) ==
  {<<NamesOf[e.path], e.kind>> : e \in Range(d)} \cup
  {<<NamesOf[q], "list">> : q \in {Root} \cup UNION {Parents(e.path) : e \in Range(d)}}

LEMMA NamedAre ==
  ASSUME Generated
  PROVE  /\ \A o \in Named(defined) :
              \E k \in DOMAIN infoList : o = <<N(k), EntryKind(infoList[k])>>
         /\ \A k \in DOMAIN infoList : <<N(k), EntryKind(infoList[k])>> \in Named(defined)
<1>1. /\ defined \in Files /\ tables = Tables(defined)
      /\ DOMAIN infoList = 1 .. Len(infoList) /\ Len(infoList) > 0 /\ Len(infoList) \in Nat
  BY EntriesAre DEF Generated
<1>2. UNION {Parents(e.path) : e \in Range(defined)} = ListPaths(defined)
  BY DEF Range, ListPaths
<1>3. \A k \in DOMAIN infoList : NamesOf[infoList[k].path] = N(k)
  BY EntriesAre, PathsAre DEF N
<1>4. ASSUME NEW q \in {Root} \cup ListPaths(defined)
      PROVE  \E k \in DOMAIN infoList : infoList[k].path = q /\ infoList[k].type = "LIST"
  <2>1. 1 \in DOMAIN infoList /\ infoList[1].path = Root /\ infoList[1].type = "LIST"
    BY <1>1, EntriesAre
  <2> QED
    BY <2>1, EntriesAre
<1>5. ASSUME NEW i \in DOMAIN defined, NEW k \in DOMAIN infoList,
             infoList[k].path = defined[i].path
      PROVE  EntryKind(infoList[k]) = defined[i].kind
  <2>1. infoList[k].path # Root
    <3>1. defined[i] \in Definitions
      BY <1>1, FileIs
    <3>2. Len(defined[i].path) > 1 /\ defined[i].path[2] # Slash
      BY <3>1, DefinitionIs
    <3>3. defined[i].path # Root
      BY <3>2, RootIs
    <3> QED
      BY <1>5, <3>3
  <2>2. infoList[k].path \notin ListPaths(defined)
    BY <1>1, <1>5, ListPathsAre
  <2>3. /\ infoList[k].type \in Types
        /\ infoList[k].index \in DOMAIN tables[infoList[k].type]
        /\ tables[infoList[k].type][infoList[k].index].path = infoList[k].path
    BY <2>1, <2>2, EntriesAre
  <2>4. PICK j \in DOMAIN defined : tables[infoList[k].type][infoList[k].index] = defined[j]
    BY <1>1, <2>3, TableIs
  <2>5. i = j
    BY <1>1, <1>5, <2>3, <2>4, FileIs
  <2>6. infoList[k].type # "LIST"
    BY <2>3 DEF Types
  <2> QED
    BY <2>4, <2>5, <2>6 DEF EntryKind
<1>6. ASSUME NEW o \in Named(defined)
      PROVE  \E k \in DOMAIN infoList : o = <<N(k), EntryKind(infoList[k])>>
  <2>1. CASE \E e \in Range(defined) : o = <<NamesOf[e.path], e.kind>>
    <3>1. PICK i \in DOMAIN defined : o = <<NamesOf[defined[i].path], defined[i].kind>>
      BY <2>1 DEF Range
    <3>2. PICK k \in DOMAIN infoList : infoList[k].path = defined[i].path
      BY EntriesAre
    <3>3. EntryKind(infoList[k]) = defined[i].kind /\ NamesOf[defined[i].path] = N(k)
      BY <1>3, <1>5, <3>2
    <3> QED
      BY <3>1, <3>3
  <2>2. CASE \E q \in {Root} \cup ListPaths(defined) : o = <<NamesOf[q], "list">>
    <3>1. PICK q \in {Root} \cup ListPaths(defined) : o = <<NamesOf[q], "list">>
      BY <2>2
    <3>2. PICK k \in DOMAIN infoList : infoList[k].path = q /\ infoList[k].type = "LIST"
      BY <1>4
    <3>3. NamesOf[q] = N(k) /\ EntryKind(infoList[k]) = "list"
      BY <1>3, <3>2 DEF EntryKind
    <3> QED
      BY <3>1, <3>3
  <2> QED
    BY <1>2, <2>1, <2>2 DEF Named
<1>7. ASSUME NEW k \in DOMAIN infoList
      PROVE  <<N(k), EntryKind(infoList[k])>> \in Named(defined)
  <2>1. CASE infoList[k].type = "LIST"
    <3>1. infoList[k].path \in {Root} \cup ListPaths(defined)
      BY <2>1, EntriesAre DEF Types
    <3>2. EntryKind(infoList[k]) = "list"
      BY <2>1 DEF EntryKind
    <3> QED
      BY <1>2, <1>3, <3>1, <3>2 DEF Named
  <2>2. CASE infoList[k].type # "LIST"
    <3>1. /\ infoList[k].type \in Types
          /\ infoList[k].index \in DOMAIN tables[infoList[k].type]
          /\ tables[infoList[k].type][infoList[k].index].path = infoList[k].path
      BY <2>2, EntriesAre
    <3>2. PICK i \in DOMAIN defined : tables[infoList[k].type][infoList[k].index] = defined[i]
      BY <1>1, <3>1, TableIs
    <3>3. EntryKind(infoList[k]) = defined[i].kind /\ infoList[k].path = defined[i].path
      BY <2>2, <3>1, <3>2 DEF EntryKind
    <3>4. defined[i] \in Range(defined)
      BY DEF Range
    <3> QED
      BY <1>3, <3>3, <3>4 DEF Named
  <2> QED
    BY <2>1, <2>2
<1> QED
  BY <1>6, <1>7

\* The tree has just the entries of INFO_LIST, each of the kind of its object.
LEMMA MeantIs ==
  ASSUME Generated
  PROVE  /\ \A k \in DOMAIN infoList : N(k) \in DOMAIN meant /\ meant[N(k)] = EntryKind(infoList[k])
         /\ \A x \in DOMAIN meant : \E k \in DOMAIN infoList : x = N(k)
<1> DEFINE all == Named(defined)
<1>1. meant = [p \in {o[1] : o \in all} |-> (CHOOSE o \in all : o[1] = p)[2]]
  BY DEF Generated, Meant, Named
<1>2. /\ \A o \in all : \E k \in DOMAIN infoList : o = <<N(k), EntryKind(infoList[k])>>
      /\ \A k \in DOMAIN infoList : <<N(k), EntryKind(infoList[k])>> \in all
  BY NamedAre
<1> HIDE DEF all
<1>3. ASSUME NEW k \in DOMAIN infoList
      PROVE  N(k) \in DOMAIN meant /\ meant[N(k)] = EntryKind(infoList[k])
  <2> DEFINE o == CHOOSE o \in all : o[1] = N(k)
             this == <<N(k), EntryKind(infoList[k])>>
  <2>1. this \in all /\ this[1] = N(k) /\ this[2] = EntryKind(infoList[k])
    BY <1>2
  <2> HIDE DEF this
  <2>2. o \in all /\ o[1] = N(k)
    BY <2>1
  <2>3. N(k) \in DOMAIN meant /\ meant[N(k)] = o[2]
    BY <1>1, <2>1
  <2> HIDE DEF o
  <2>4. PICK j \in DOMAIN infoList : o = <<N(j), EntryKind(infoList[j])>>
    BY <1>2, <2>2
  <2>5. j = k
    BY <2>2, <2>4, EntryNames
  <2> QED
    BY <2>3, <2>4, <2>5
<1>4. ASSUME NEW x \in DOMAIN meant
      PROVE  \E k \in DOMAIN infoList : x = N(k)
  <2>1. PICK o \in all : x = o[1]
    BY <1>1
  <2>2. PICK k \in DOMAIN infoList : o = <<N(k), EntryKind(infoList[k])>>
    BY <1>2
  <2> QED
    BY <2>1, <2>2
<1> QED
  BY <1>3, <1>4

\* The kind tells the table.
LEMMA KindsAre ==
  ASSUME Generated, NEW k \in DOMAIN infoList
  PROVE  LET kind == EntryKind(infoList[k])
             type == infoList[k].type
             index == infoList[k].index
         IN  /\ type \in {"LIST"} \cup Types
             /\ type # "LIST" => /\ index \in DOMAIN tables[type] /\ kind = tables[type][index].kind
                                 /\ tables[type][index].path = infoList[k].path
             /\ type = "LIST" <=> kind = "list"
             /\ type = "PROPERTY" <=> kind \in Property
             /\ type = "CALLABLE" <=> kind \in Function
             /\ type = "MONITOR" <=> kind = "monitor"
             /\ kind \in {"list", "monitor"} \cup Property \cup Function
<1>1. defined \in Files /\ tables = Tables(defined)
  BY DEF Generated
<1>2. CASE infoList[k].type = "LIST"
  BY <1>2 DEF EntryKind, Property, Function, Types
<1>3. CASE infoList[k].type # "LIST"
  <2>1. PICK t \in Types : t = infoList[k].type
    BY <1>3, EntriesAre
  <2>2. /\ infoList[k].index \in DOMAIN tables[t]
        /\ tables[t][infoList[k].index].path = infoList[k].path
    BY <1>3, <2>1, EntriesAre
  <2>3. PICK e \in Definitions : e = tables[t][infoList[k].index] /\ TypeOf(e.kind) = t
    <3>1. tables[t][infoList[k].index] \in Definitions
      BY <1>1, <2>2, TableIs, FileIs
    <3> QED
      BY <1>1, <2>2, <3>1, TableIs
  <2>4. EntryKind(infoList[k]) = e.kind
    BY <1>3, <2>1, <2>3 DEF EntryKind
  <2>5. e.kind \in Property \cup Function \cup {"monitor"}
    BY DefinitionIs
  <2>6. /\ t = "PROPERTY" <=> e.kind \in Property
        /\ t = "CALLABLE" <=> e.kind \in Function
        /\ t = "MONITOR" <=> e.kind = "monitor"
        /\ e.kind # "list"
    BY <2>3, <2>5 DEF TypeOf, Property, Function
  <2> QED
    BY <1>3, <2>1, <2>2, <2>3, <2>4, <2>5, <2>6
<1> QED
  BY <1>2, <1>3

\* A request finds the object that it names.
LEMMA LookupIs ==
  ASSUME Generated, NEW p \in Paths
  PROVE  /\ FindInfo(p) \in DOMAIN infoList => NamesOf[p] = N(FindInfo(p))
         /\ FindInfo(p) \in DOMAIN infoList <=> NamesOf[p] \in DOMAIN meant
         /\ \A type \in {"LIST"} \cup Types :
              IsA(p, type) <=> /\ FindInfo(p) \in DOMAIN infoList
                               /\ infoList[FindInfo(p)].type = type
<1>1. NamesOf[p] = Names(p) /\ p \in Strings
  BY PathsAre
<1>2. FindInfo(p) \in DOMAIN infoList => infoList[FindInfo(p)].path = p
  BY FindInfoIs
<1>3. FindInfo(p) \in DOMAIN infoList => NamesOf[p] = N(FindInfo(p)) /\ NamesOf[p] \in DOMAIN meant
  BY <1>1, <1>2, MeantIs DEF N
<1>4. ASSUME NamesOf[p] \in DOMAIN meant
      PROVE  FindInfo(p) \in DOMAIN infoList
  <2>1. PICK k \in DOMAIN infoList : NamesOf[p] = N(k)
    BY <1>4, MeantIs
  <2>2. p \in Slashed
    BY <1>1, <2>1, EntriesAre, NamesApart DEF N
  <2>3. infoList[k].path = p
    BY <1>1, <2>1, <2>2, EntriesAre, NamesTell DEF N
  <2> QED
    BY <2>3, FindInfoIs
<1> QED
  BY <1>3, <1>4 DEF IsA

HeldFrom(tree, entries, properties, monitors) ==
  LET At(table, p) == CHOOSE i \in DOMAIN table : NamesOf[table[i].path] = p
  IN  [p \in DOMAIN tree |->
         CASE tree[p] \in Property -> properties[At(entries["PROPERTY"], p)]
           [] tree[p] = "monitor" -> IF monitors[At(entries["MONITOR"], p)] THEN "on" ELSE "off"
           [] OTHER -> "none"]

LEMMA HeldIsFrom ==
  /\ Held = HeldFrom(meant, tables, values, monitorState)
  /\ Held' = HeldFrom(meant', tables', values', monitorState')
BY DEF Held, HeldFrom

\* What the application holds for the object of entry k.
HeldAt(k, properties, monitors) ==
  IF infoList[k].type = "PROPERTY" THEN properties[infoList[k].index]
  ELSE IF infoList[k].type = "MONITOR"
       THEN IF monitors[infoList[k].index] THEN "on" ELSE "off"
       ELSE "none"

LEMMA HeldIs ==
  ASSUME Generated, NEW properties, NEW monitors
  PROVE  /\ DOMAIN HeldFrom(meant, tables, properties, monitors) = DOMAIN meant
         /\ \A k \in DOMAIN infoList :
              HeldFrom(meant, tables, properties, monitors)[N(k)] = HeldAt(k, properties, monitors)
<1> DEFINE At(table, p) == CHOOSE i \in DOMAIN table : NamesOf[table[i].path] = p
<1>1. ASSUME NEW k \in DOMAIN infoList, infoList[k].type # "LIST"
      PROVE  At(tables[infoList[k].type], N(k)) = infoList[k].index
  <2> DEFINE table == tables[infoList[k].type]
  <2>1. /\ defined \in Files /\ infoList[k].type \in Types /\ infoList[k].index \in DOMAIN table
        /\ table[infoList[k].index].path = infoList[k].path
        /\ table = Tables(defined)[infoList[k].type]
    BY <1>1, EntriesAre DEF Generated
  <2>2. ASSUME NEW i \in DOMAIN table
        PROVE  NamesOf[table[i].path] = N(k) <=> i = infoList[k].index
    <3>1. PICK j \in DOMAIN defined : table[i] = defined[j]
      BY <2>1, TableIs
    <3>2. defined[j] \in Definitions /\ table[i].path \in Paths
      BY <2>1, <3>1, FileIs DEF Paths
    <3>3. NamesOf[table[i].path] = Names(table[i].path) /\ table[i].path \in Slashed
      BY <3>1, <3>2, PathsAre
    <3>4. NamesOf[table[i].path] = N(k) <=> table[i].path = infoList[k].path
      BY <3>3, EntriesAre, NamesTell DEF N
    <3> QED
      BY <2>1, <3>4, TableIs
  <2> QED
    BY <2>1, <2>2
<1>2. HeldFrom(meant, tables, properties, monitors) =
        [p \in DOMAIN meant |->
           CASE meant[p] \in Property -> properties[At(tables["PROPERTY"], p)]
             [] meant[p] = "monitor" -> IF monitors[At(tables["MONITOR"], p)] THEN "on" ELSE "off"
             [] OTHER -> "none"]
  BY DEF HeldFrom
<1> HIDE DEF At
<1>3. ASSUME NEW k \in DOMAIN infoList
      PROVE  HeldFrom(meant, tables, properties, monitors)[N(k)] = HeldAt(k, properties, monitors)
  <2>1. N(k) \in DOMAIN meant /\ meant[N(k)] = EntryKind(infoList[k])
    BY MeantIs
  <2>2. PICK kind : kind = meant[N(k)]
    OBVIOUS
  <2>3. HeldFrom(meant, tables, properties, monitors)[N(k)] =
          CASE kind \in Property -> properties[At(tables["PROPERTY"], N(k))]
            [] kind = "monitor" -> IF monitors[At(tables["MONITOR"], N(k))] THEN "on" ELSE "off"
            [] OTHER -> "none"
    BY <1>2, <2>1, <2>2
  <2>4. /\ infoList[k].type = "PROPERTY" <=> kind \in Property
        /\ infoList[k].type = "MONITOR" <=> kind = "monitor"
        /\ kind = "monitor" => kind \notin Property
    BY <2>1, <2>2, KindsAre DEF Property
  <2>5. CASE kind \in Property
    BY <1>1, <2>3, <2>4, <2>5 DEF HeldAt
  <2>6. CASE kind = "monitor"
    BY <1>1, <2>3, <2>4, <2>6 DEF HeldAt
  <2>7. CASE kind \notin Property /\ kind # "monitor"
    BY <2>3, <2>4, <2>7 DEF HeldAt
  <2> QED
    BY <2>5, <2>6, <2>7
<1> QED
  BY <1>2, <1>3

-----------------------------------------------------------------------------
(* Each handler does what the tree of objects promises.                     *)

Mapped == [answer EXCEPT !.path = NamesOf[answer.path], !.entries = Range(answer.entries)]

LEMMA NoEntries == Range(<< >>) = {}
BY DEF Range

LEMMA AnswerMaps ==
  ASSUME NEW request, NEW p, NEW value, NEW entries
  PROVE  /\ Succeeds(request, p, value, entries) =>
              /\ Device!Succeeds(request, NamesOf[p], value, Range(entries))
              /\ Mapped'.path = NamesOf[p] /\ Mapped'.entries = Range(entries)
         /\ Fails(request, p) => Device!Fails(request, NamesOf[p]) /\ Mapped'.path = NamesOf[p]
<1>1. ASSUME NEW result, answer' = Answer(request, p, result, value, entries)
      PROVE  Mapped' = Device!Answer(request, NamesOf[p], result, value, Range(entries))
  <2>1. Mapped' = [answer' EXCEPT !.path = NamesOf[answer'.path], !.entries = Range(answer'.entries)]
    BY DEF Mapped
  <2>2. answer'.path = p /\ answer'.entries = entries
    BY <1>1 DEF Answer
  <2>3. Mapped' = [Answer(request, p, result, value, entries) EXCEPT !.path = NamesOf[p], !.entries = Range(entries)]
    BY <1>1, <2>1, <2>2
  <2> QED
    BY <2>3 DEF Answer, Device!Answer
<1>2. ASSUME Succeeds(request, p, value, entries)
      PROVE  /\ Device!Succeeds(request, NamesOf[p], value, Range(entries))
             /\ Mapped'.path = NamesOf[p] /\ Mapped'.entries = Range(entries)
  <2>1. Mapped' = Device!Answer(request, NamesOf[p], "success", value, Range(entries))
    BY <1>1, <1>2 DEF Succeeds
  <2> QED
    BY <2>1 DEF Device!Succeeds, Device!Answer, Mapped
<1>3. ASSUME Fails(request, p)
      PROVE  Device!Fails(request, NamesOf[p]) /\ Mapped'.path = NamesOf[p]
  <2>1. answer' = Answer(request, p, "failure", "none", << >>)
    BY <1>3 DEF Fails
  <2>2. Mapped' = Device!Answer(request, NamesOf[p], "failure", "none", {})
    <3>1. Mapped' = [answer' EXCEPT !.path = NamesOf[answer'.path], !.entries = Range(answer'.entries)]
      BY DEF Mapped
    <3>2. answer'.path = p /\ answer'.entries = << >>
      BY <2>1 DEF Answer
    <3>3. Mapped' = [Answer(request, p, "failure", "none", << >>) EXCEPT !.path = NamesOf[p], !.entries = {}]
      BY <2>1, <3>1, <3>2, NoEntries
    <3> QED
      BY <3>3 DEF Answer, Device!Answer
  <2> QED
    BY <2>2 DEF Device!Fails, Device!Answer, Mapped
<1> QED
  BY <1>2, <1>3

LEMMA HeldIsFunction ==
  ASSUME NEW properties, NEW monitors
  PROVE  HeldFrom(meant, tables, properties, monitors) =
           [x \in DOMAIN meant |-> HeldFrom(meant, tables, properties, monitors)[x]]
BY DEF HeldFrom

Still == UNCHANGED <<defined, meant, infoList, tables>>

LEMMA HeldStays ==
  ASSUME Still
  PROVE  /\ Held' = HeldFrom(meant, tables, values', monitorState')
         /\ UNCHANGED <<values, monitorState>> => Held' = Held
BY HeldIsFrom DEF Still

\* The kinds of the object that a request names.
LEMMA HasIs ==
  ASSUME Generated, NEW p \in Paths
  PROVE  /\ IsA(p, "PROPERTY") <=> Device!Has(NamesOf[p], Property)
         /\ IsA(p, "CALLABLE") <=> Device!Has(NamesOf[p], Function)
         /\ IsA(p, "MONITOR") <=> Device!Has(NamesOf[p], {"monitor"})
         /\ IsA(p, "LIST") <=> Device!Has(NamesOf[p], {"list"})
         /\ \A t \in Types : IsA(p, t) =>
              /\ meant[NamesOf[p]] = tables[t][IndexOf(p)].kind
              /\ IndexOf(p) \in DOMAIN tables[t]
         /\ \A kind \in Property : Device!Has(NamesOf[p], {kind}) <=>
              IsA(p, "PROPERTY") /\ tables["PROPERTY"][IndexOf(p)].kind = kind
<1>1. CASE FindInfo(p) \in DOMAIN infoList
  <2>1. PICK k \in DOMAIN infoList : k = FindInfo(p)
    BY <1>1
  <2>2. /\ NamesOf[p] = N(k) /\ N(k) \in DOMAIN meant /\ meant[N(k)] = EntryKind(infoList[k])
    BY <2>1, LookupIs, MeantIs
  <2>3. \A type \in {"LIST"} \cup Types : IsA(p, type) <=> infoList[k].type = type
    BY <2>1, LookupIs
  <2>4. IndexOf(p) = infoList[k].index
    BY <2>1 DEF IndexOf
  <2>5. /\ infoList[k].type # "LIST" =>
             /\ infoList[k].index \in DOMAIN tables[infoList[k].type]
             /\ EntryKind(infoList[k]) = tables[infoList[k].type][infoList[k].index].kind
        /\ infoList[k].type = "LIST" <=> EntryKind(infoList[k]) = "list"
        /\ infoList[k].type = "PROPERTY" <=> EntryKind(infoList[k]) \in Property
        /\ infoList[k].type = "CALLABLE" <=> EntryKind(infoList[k]) \in Function
        /\ infoList[k].type = "MONITOR" <=> EntryKind(infoList[k]) = "monitor"
    BY KindsAre
  <2>6. \A kinds : Device!Has(NamesOf[p], kinds) <=> EntryKind(infoList[k]) \in kinds
    BY <2>2 DEF Device!Has, Device!Objects
  <2>7. {"LIST", "PROPERTY", "CALLABLE", "MONITOR"} = {"LIST"} \cup Types
    BY DEF Types
  <2> QED
    BY <2>2, <2>3, <2>4, <2>5, <2>6, <2>7 DEF Types
<1>2. CASE FindInfo(p) \notin DOMAIN infoList
  <2>1. \A kinds : ~Device!Has(NamesOf[p], kinds)
    BY <1>2, LookupIs DEF Device!Has, Device!Objects
  <2>2. \A type : ~IsA(p, type)
    BY <1>2 DEF IsA
  <2> QED
    BY <2>1, <2>2
<1> QED
  BY <1>1, <1>2

LEMMA SameProperty == Device!Property = Property /\ Device!Function = Function
BY DEF Device!Property, Property, Device!Function, Function

\* The value behind an object of the tree.
LEMMA HeldByEntry ==
  ASSUME Generated, NEW p \in Paths
  PROVE  /\ IsA(p, "PROPERTY") => Held[NamesOf[p]] = values[IndexOf(p)]
         /\ IsA(p, "MONITOR") =>
              Held[NamesOf[p]] = IF monitorState[IndexOf(p)] THEN "on" ELSE "off"
<1> SUFFICES ASSUME FindInfo(p) \in DOMAIN infoList
             PROVE  /\ IsA(p, "PROPERTY") => Held[NamesOf[p]] = values[IndexOf(p)]
                    /\ IsA(p, "MONITOR") =>
                         Held[NamesOf[p]] = IF monitorState[IndexOf(p)] THEN "on" ELSE "off"
  BY DEF IsA
<1>1. PICK k \in DOMAIN infoList : k = FindInfo(p)
  OBVIOUS
<1>2. Held[NamesOf[p]] = HeldAt(k, values, monitorState)
  BY <1>1, LookupIs, HeldIs, HeldIsFrom
<1> QED
  BY <1>1, <1>2 DEF IsA, IndexOf, HeldAt

LEMMA GetMaps ==
  ASSUME Generated, Still, NEW p \in Paths, PropertyGet(p)
  PROVE  Device!Get(NamesOf[p]) /\ Mapped'.path = NamesOf[p] /\ ended' = ended
<1>1. UNCHANGED <<values, monitorState, ended>>
  BY DEF PropertyGet
<1>2. Held' = Held /\ ended' = ended
  BY <1>1, HeldStays
<1>3. CASE IsA(p, "PROPERTY")
  <2>1. Succeeds("GET", p, values[IndexOf(p)], << >>)
    BY <1>3 DEF PropertyGet
  <2>2. Device!Has(NamesOf[p], Device!Property) /\ Held[NamesOf[p]] = values[IndexOf(p)]
    BY <1>3, HasIs, HeldByEntry, SameProperty
  <2>3. Device!Succeeds("GET", NamesOf[p], Held[NamesOf[p]], {}) /\ Mapped'.path = NamesOf[p]
    BY <2>1, <2>2, AnswerMaps, NoEntries
  <2> QED
    BY <1>2, <2>2, <2>3 DEF Device!Get
<1>4. CASE ~IsA(p, "PROPERTY")
  <2>1. Fails("GET", p)
    BY <1>4 DEF PropertyGet
  <2>2. ~Device!Has(NamesOf[p], Device!Property)
    BY <1>4, HasIs, SameProperty
  <2> QED
    BY <1>2, <2>1, <2>2, AnswerMaps DEF Device!Get
<1> QED
  BY <1>3, <1>4

LEMMA InfoMaps ==
  ASSUME Generated, Still, NEW p \in Paths, Info(p)
  PROVE  Device!Info(NamesOf[p]) /\ Mapped'.path = NamesOf[p] /\ ended' = ended
<1>1. UNCHANGED <<values, monitorState, ended>>
  BY DEF Info
<1>2. Held' = Held /\ ended' = ended
  BY <1>1, HeldStays
<1>3. CASE FindInfo(p) \in DOMAIN infoList
  <2>1. PICK k \in DOMAIN infoList : k = FindInfo(p)
    BY <1>3
  <2>2. Succeeds("INFO", p, KindOf(infoList[k]), << >>)
    BY <1>3, <2>1 DEF Info
  <2>3. /\ NamesOf[p] = N(k) /\ N(k) \in Device!Objects /\ meant[N(k)] = EntryKind(infoList[k])
    BY <2>1, LookupIs, MeantIs DEF Device!Objects
  <2>4. Held[N(k)] = HeldAt(k, values, monitorState)
    BY HeldIs, HeldIsFrom
  <2>5. /\ infoList[k].type = "LIST" <=> EntryKind(infoList[k]) = "list"
        /\ infoList[k].type = "MONITOR" <=> EntryKind(infoList[k]) = "monitor"
    BY KindsAre
  <2>6. KindOf(infoList[k]) = IF meant[N(k)] = "monitor" THEN Held[N(k)] ELSE meant[N(k)]
    <3>1. CASE infoList[k].type = "LIST"
      BY <2>3, <2>5, <3>1 DEF KindOf
    <3>2. CASE infoList[k].type = "MONITOR"
      BY <2>3, <2>4, <2>5, <3>2 DEF KindOf, HeldAt
    <3>3. CASE infoList[k].type # "LIST" /\ infoList[k].type # "MONITOR"
      BY <2>3, <2>5, <3>3 DEF KindOf, EntryKind
    <3> QED
      BY <3>1, <3>2, <3>3
  <2>7. /\ Device!Succeeds("INFO", NamesOf[p], KindOf(infoList[k]), {})
        /\ Mapped'.path = NamesOf[p]
    BY <2>2, AnswerMaps, NoEntries
  <2> QED
    BY <1>2, <2>3, <2>6, <2>7 DEF Device!Info
<1>4. CASE FindInfo(p) \notin DOMAIN infoList
  <2>1. Fails("INFO", p)
    BY <1>4 DEF Info
  <2>2. NamesOf[p] \notin Device!Objects
    BY <1>4, LookupIs DEF Device!Objects
  <2> QED
    BY <1>2, <2>1, <2>2, AnswerMaps DEF Device!Info
<1> QED
  BY <1>3, <1>4

\* Two objects never share an entry of a table.
LEMMA OwnEntry ==
  ASSUME Generated, NEW j \in DOMAIN infoList, NEW k \in DOMAIN infoList,
         infoList[j].type = infoList[k].type, infoList[j].type # "LIST",
         infoList[j].index = infoList[k].index
  PROVE  j = k
<1>1. infoList[j].path = infoList[k].path
  BY KindsAre
<1> QED
  BY <1>1, EntriesAre, EntryPaths DEF Generated

\* Changing one entry changes one object.
LEMMA OneChanges ==
  ASSUME Generated, NEW k \in DOMAIN infoList, NEW properties, NEW monitors, NEW new,
         \A j \in DOMAIN infoList : HeldAt(j, properties, monitors) =
           IF j = k THEN new ELSE HeldAt(j, values, monitorState)
  PROVE  HeldFrom(meant, tables, properties, monitors) = [Held EXCEPT ![N(k)] = new]
<1> DEFINE f == HeldFrom(meant, tables, properties, monitors)
<1>1. /\ Held = HeldFrom(meant, tables, values, monitorState)
      /\ DOMAIN f = DOMAIN meant /\ DOMAIN Held = DOMAIN meant
      /\ f = [x \in DOMAIN meant |-> f[x]]
      /\ Held = [x \in DOMAIN meant |-> Held[x]]
  BY HeldIsFrom, HeldIs, HeldIsFunction
<1>2. \A j \in DOMAIN infoList : /\ f[N(j)] = HeldAt(j, properties, monitors)
                                 /\ Held[N(j)] = HeldAt(j, values, monitorState)
  BY HeldIs, HeldIsFrom
<1> HIDE DEF f
<1>3. \A j \in DOMAIN infoList : f[N(j)] = IF j = k THEN new ELSE Held[N(j)]
  BY <1>2
<1>4. N(k) \in DOMAIN meant /\ \A x \in DOMAIN meant : \E j \in DOMAIN infoList : x = N(j)
  BY MeantIs
<1>5. \A x \in DOMAIN meant : f[x] = IF x = N(k) THEN new ELSE Held[x]
  BY <1>3, <1>4, EntryNames
<1>6. [Held EXCEPT ![N(k)] = new] = [x \in DOMAIN meant |-> IF x = N(k) THEN new ELSE Held[x]]
  BY <1>1
<1>7. f = [x \in DOMAIN meant |-> IF x = N(k) THEN new ELSE Held[x]]
  BY <1>1, <1>5
<1> QED
  BY <1>6, <1>7 DEF f

LEMMA ValueChanges ==
  ASSUME Generated, NEW k \in DOMAIN infoList, NEW v, infoList[k].type = "PROPERTY",
         infoList[k].index \in DOMAIN values
  PROVE  HeldFrom(meant, tables, [values EXCEPT ![infoList[k].index] = v], monitorState)
           = [Held EXCEPT ![N(k)] = v]
<1> DEFINE changed == [values EXCEPT ![infoList[k].index] = v]
<1>1. changed[infoList[k].index] = v /\ \A i : i # infoList[k].index => changed[i] = values[i]
  OBVIOUS
<1> HIDE DEF changed
<1>2. \A j \in DOMAIN infoList :
        infoList[j].type = "PROPERTY" /\ infoList[j].index = infoList[k].index => j = k
  BY OwnEntry
<1>3. \A j \in DOMAIN infoList : HeldAt(j, changed, monitorState) =
        IF j = k THEN v ELSE HeldAt(j, values, monitorState)
  BY <1>1, <1>2 DEF HeldAt
<1>4. HeldFrom(meant, tables, changed, monitorState) = [Held EXCEPT ![N(k)] = v]
  <2>1. PICK c, new : c = changed /\ new = v
    OBVIOUS
  <2>2. \A j \in DOMAIN infoList : HeldAt(j, c, monitorState) =
          IF j = k THEN new ELSE HeldAt(j, values, monitorState)
    BY <1>3, <2>1
  <2>3. HeldFrom(meant, tables, c, monitorState) = [Held EXCEPT ![N(k)] = new]
    <3>1. \A properties, monitors, x :
            (\A j \in DOMAIN infoList : HeldAt(j, properties, monitors) =
               IF j = k THEN x ELSE HeldAt(j, values, monitorState))
            => HeldFrom(meant, tables, properties, monitors) = [Held EXCEPT ![N(k)] = x]
      BY OneChanges
    <3> QED
      BY <2>2, <3>1
  <2> QED
    BY <2>1, <2>3
<1> QED
  BY <1>4 DEF changed

LEMMA MonitorChanges ==
  ASSUME Generated, NEW k \in DOMAIN infoList, NEW enable, infoList[k].type = "MONITOR",
         infoList[k].index \in DOMAIN monitorState
  PROVE  HeldFrom(meant, tables, values, [monitorState EXCEPT ![infoList[k].index] = enable])
           = [Held EXCEPT ![N(k)] = IF enable THEN "on" ELSE "off"]
<1> DEFINE changed == [monitorState EXCEPT ![infoList[k].index] = enable]
<1>1. /\ changed[infoList[k].index] = enable
      /\ \A i : i # infoList[k].index => changed[i] = monitorState[i]
  OBVIOUS
<1> HIDE DEF changed
<1>2. \A j \in DOMAIN infoList :
        infoList[j].type = "MONITOR" /\ infoList[j].index = infoList[k].index => j = k
  BY OwnEntry
<1>3. \A j \in DOMAIN infoList : HeldAt(j, values, changed) =
        IF j = k THEN (IF enable THEN "on" ELSE "off") ELSE HeldAt(j, values, monitorState)
  <2>1. HeldAt(k, values, changed) = IF enable THEN "on" ELSE "off"
    <3>1. HeldAt(k, values, changed) = IF changed[infoList[k].index] THEN "on" ELSE "off"
      BY DEF HeldAt
    <3> QED
      BY <1>1, <3>1, Zenon
  <2>2. ASSUME NEW j \in DOMAIN infoList, j # k
        PROVE  HeldAt(j, values, changed) = HeldAt(j, values, monitorState)
    <3>1. CASE infoList[j].type = "MONITOR"
      <4>1. changed[infoList[j].index] = monitorState[infoList[j].index]
        BY <1>1, <1>2, <2>2, <3>1
      <4> QED
        BY <4>1, Zenon DEF HeldAt
    <3>2. CASE infoList[j].type # "MONITOR"
      BY <3>2 DEF HeldAt
    <3> QED
      BY <3>1, <3>2
  <2> QED
    BY <2>1, <2>2
<1>4. HeldFrom(meant, tables, values, changed) =
        [Held EXCEPT ![N(k)] = IF enable THEN "on" ELSE "off"]
  BY <1>3, OneChanges
<1> QED
  BY <1>4 DEF changed

LEMMA MonitorMaps ==
  ASSUME TypeOK, Generated, Still, NEW p \in Paths, NEW request, NEW enable \in BOOLEAN,
         MonitorEnable(p, request, enable)
  PROVE  /\ Device!Monitor(NamesOf[p], request, IF enable THEN "on" ELSE "off")
         /\ Mapped'.path = NamesOf[p] /\ ended' = ended
<1>1. values' = values /\ ended' = ended
  BY DEF MonitorEnable
<1>2. CASE IsA(p, "MONITOR")
  <2>1. PICK k \in DOMAIN infoList : k = FindInfo(p)
    BY <1>2 DEF IsA
  <2>2. /\ infoList[k].type = "MONITOR" /\ IndexOf(p) = infoList[k].index /\ NamesOf[p] = N(k)
        /\ infoList[k].index \in DOMAIN tables["MONITOR"]
    BY <1>2, <2>1, LookupIs, HasIs DEF IsA, IndexOf, Types
  <2>3. /\ monitorState' = [monitorState EXCEPT ![infoList[k].index] = enable]
        /\ Succeeds(request, p, "none", << >>)
    BY <1>2, <2>2 DEF MonitorEnable
  <2>4. infoList[k].index \in DOMAIN monitorState
    BY <2>2 DEF TypeOK
  <2>5. HeldFrom(meant, tables, values', monitorState') =
          [Held EXCEPT ![N(k)] = IF enable THEN "on" ELSE "off"]
    BY <1>1, <2>2, <2>3, <2>4, MonitorChanges
  <2>6. Held' = [Held EXCEPT ![NamesOf[p]] = IF enable THEN "on" ELSE "off"]
    BY <2>2, <2>5, HeldStays
  <2>7. Device!Has(NamesOf[p], {"monitor"})
    BY <1>2, HasIs
  <2> QED
    BY <1>1, <2>3, <2>6, <2>7, AnswerMaps, NoEntries DEF Device!Monitor
<1>3. CASE ~IsA(p, "MONITOR")
  <2>1. Fails(request, p) /\ monitorState' = monitorState
    BY <1>3 DEF MonitorEnable
  <2>2. ~Device!Has(NamesOf[p], {"monitor"})
    BY <1>3, HasIs
  <2>3. Held' = Held
    BY <1>1, <2>1, HeldStays
  <2> QED
    BY <1>1, <2>1, <2>2, <2>3, AnswerMaps DEF Device!Monitor
<1> QED
  BY <1>2, <1>3

LEMMA SetMaps ==
  ASSUME TypeOK, Generated, Still, NEW p \in Paths, NEW v \in Value \cup {WrongType},
         PropertySet(p, v)
  PROVE  \/ Device!Set(NamesOf[p], v) /\ Mapped'.path = NamesOf[p]
         \/ Device!SetReadOnly(NamesOf[p]) /\ NamesOf[p] \in DOMAIN meant
<1>1. monitorState' = monitorState
  BY DEF PropertySet
<1>2. v \in Value <=> v # WrongType
  BY DefinitionsAssumption
<1>3. CASE IsA(p, "PROPERTY") /\ v # WrongType /\ tables["PROPERTY"][IndexOf(p)].kind = "readOnly"
  <2>1. ended' = TRUE /\ values' = values /\ answer' = answer
    BY <1>3 DEF PropertySet
  <2>2. Device!Has(NamesOf[p], {"readOnly"})
    BY <1>3, HasIs DEF Property
  <2>3. NamesOf[p] \in DOMAIN meant
    BY <2>2 DEF Device!Has, Device!Objects
  <2>4. Held' = Held
    BY <1>1, <2>1, HeldStays
  <2>5. Mapped' = Mapped
    BY <2>1 DEF Mapped
  <2> QED
    BY <2>1, <2>2, <2>3, <2>4, <2>5 DEF Device!SetReadOnly, Mapped
<1>4. CASE IsA(p, "PROPERTY") /\ v # WrongType /\ tables["PROPERTY"][IndexOf(p)].kind # "readOnly"
  <2>1. /\ values' = [values EXCEPT ![IndexOf(p)] = v] /\ ended' = ended
        /\ Succeeds("SET", p, "none", << >>)
    BY <1>4 DEF PropertySet
  <2>2. PICK k \in DOMAIN infoList : k = FindInfo(p)
    BY <1>4 DEF IsA
  <2>3. /\ infoList[k].type = "PROPERTY" /\ IndexOf(p) = infoList[k].index /\ NamesOf[p] = N(k)
        /\ infoList[k].index \in DOMAIN tables["PROPERTY"]
        /\ tables["PROPERTY"][IndexOf(p)].kind \in Property
    <3>1. infoList[k].type = "PROPERTY" /\ IndexOf(p) = infoList[k].index /\ NamesOf[p] = N(k)
      BY <1>4, <2>2, LookupIs DEF IsA, IndexOf
    <3> QED
      BY <3>1, KindsAre
  <2>4. infoList[k].index \in DOMAIN values
    BY <2>3 DEF TypeOK
  <2>5. HeldFrom(meant, tables, values', monitorState') = [Held EXCEPT ![N(k)] = v]
    BY <1>1, <2>1, <2>3, <2>4, ValueChanges
  <2>6. Held' = [Held EXCEPT ![NamesOf[p]] = v]
    BY <2>3, <2>5, HeldStays
  <2>7. Device!Has(NamesOf[p], {"readWrite"}) /\ ~Device!Has(NamesOf[p], {"readOnly"})
    BY <1>4, <2>3, HasIs DEF Property
  <2> QED
    BY <1>2, <1>4, <2>1, <2>6, <2>7, AnswerMaps, NoEntries DEF Device!Set
<1>5. CASE ~(IsA(p, "PROPERTY") /\ v # WrongType)
  <2>1. Fails("SET", p) /\ values' = values /\ ended' = ended
    BY <1>5 DEF PropertySet
  <2>2. Held' = Held
    BY <1>1, <2>1, HeldStays
  <2>3. /\ ~(Device!Has(NamesOf[p], {"readOnly"}) /\ v \in Value)
        /\ ~(Device!Has(NamesOf[p], {"readWrite"}) /\ v \in Value)
    BY <1>2, <1>5, HasIs DEF Property
  <2> QED
    BY <2>1, <2>2, <2>3, AnswerMaps DEF Device!Set
<1> QED
  BY <1>3, <1>4, <1>5

\* The most that any function takes.
LEMMA MostParameters ==
  ASSUME Generated
  PROVE  /\ NumberOfParameters \in 0 .. 2
         /\ \A i \in DOMAIN tables["CALLABLE"] :
              /\ tables["CALLABLE"][i].kind \in Function
              /\ ParameterCount(tables["CALLABLE"][i].kind) \in 0 .. NumberOfParameters
              /\ ParameterCount(tables["CALLABLE"][i].kind) <= MaxValues
<1> DEFINE table == tables["CALLABLE"]
           counts == {0} \cup {ParameterCount(d.kind) : d \in Range(table)}
<1>1. ASSUME NEW i \in DOMAIN table
      PROVE  /\ table[i].kind \in Function /\ ParameterCount(table[i].kind) \in 0 .. 2
             /\ ParameterCount(table[i].kind) <= MaxValues
             /\ ParameterCount(table[i].kind) \in counts
  <2>1. PICK e \in Definitions : e = table[i] /\ TypeOf(e.kind) = "CALLABLE"
    <3>1. defined \in Files /\ tables = Tables(defined) /\ "CALLABLE" \in Types
      BY DEF Generated, Types
    <3>2. TypeOf(table[i].kind) = "CALLABLE" /\ \E j \in DOMAIN defined : table[i] = defined[j]
      BY <3>1, TableIs
    <3> QED
      BY <3>1, <3>2, FileIs
  <2>2. e.kind \in Function
    BY <2>1 DEF TypeOf
  <2>3. ParameterCount(e.kind) \in 0 .. 2 /\ ParameterCount(e.kind) <= MaxValues
    BY <2>2, DefinitionsAssumption DEF ParameterCount, Function
  <2>4. ParameterCount(table[i].kind) \in counts
    BY DEF Range
  <2> QED
    BY <2>1, <2>2, <2>3, <2>4
<1>2. counts \subseteq 0 .. 2 /\ 0 \in counts
  BY <1>1 DEF Range
<1>3. NumberOfParameters = CHOOSE x \in counts : \A y \in counts : x >= y
  BY DEF NumberOfParameters, Max
<1> HIDE DEF counts
<1>4. \E x \in counts : \A y \in counts : x >= y
  <2>1. CASE 2 \in counts
    BY <1>2, <2>1
  <2>2. CASE 2 \notin counts /\ 1 \in counts
    BY <1>2, <2>2
  <2>3. CASE 2 \notin counts /\ 1 \notin counts
    BY <1>2, <2>3
  <2> QED
    BY <2>1, <2>2, <2>3
<1>5. NumberOfParameters \in counts /\ \A y \in counts : NumberOfParameters >= y
  BY <1>3, <1>4
<1> QED
  BY <1>1, <1>2, <1>5

LEMMA CallMaps ==
  ASSUME Generated, Still, NEW p \in Paths, NEW n \in 0 .. MaxValues, CallFunction(p, n)
  PROVE  Device!Call(NamesOf[p], n) /\ Mapped'.path = NamesOf[p] /\ ended' = ended
<1>1. UNCHANGED <<values, monitorState, ended>>
  BY DEF CallFunction
<1>2. Held' = Held /\ ended' = ended
  BY <1>1, HeldStays
<1>3. CASE IsA(p, "CALLABLE")
  <2>1. PICK kind \in Function : kind = tables["CALLABLE"][IndexOf(p)].kind
    BY <1>3, HasIs, MostParameters DEF Types
  <2>2. PICK m \in 0 .. 2 : m = ParameterCount(kind) /\ m = Device!Arity(kind)
    BY <2>1 DEF ParameterCount, Device!Arity, Function
  <2>3. meant[NamesOf[p]] = kind /\ Device!Has(NamesOf[p], Device!Function)
    BY <1>3, <2>1, HasIs, SameProperty DEF Types
  <2>4. m <= NumberOfParameters /\ m <= MaxValues /\ NumberOfParameters \in 0 .. 2 /\ MaxValues \in Nat
    <3>1. IndexOf(p) \in DOMAIN tables["CALLABLE"]
      BY <1>3, HasIs DEF Types
    <3>2. /\ ParameterCount(kind) \in 0 .. NumberOfParameters /\ ParameterCount(kind) <= MaxValues
          /\ NumberOfParameters \in 0 .. 2 /\ MaxValues \in Nat
      BY <2>1, <3>1, MostParameters, DefinitionsAssumption
    <3> QED
      BY <2>2, <3>2
  <2>5. PICK limit \in Nat : limit = Min({NumberOfParameters, MaxValues}) /\ m <= limit
    <3> DEFINE S == {NumberOfParameters, MaxValues}
    <3>1. Min(S) = CHOOSE x \in S : \A y \in S : x <= y
      BY DEF Min
    <3>2. \E x \in S : \A y \in S : x <= y
      BY <2>4
    <3>3. Min(S) \in S
      <4> HIDE DEF S
      <4> QED
        BY <3>1, <3>2
    <3> QED
      BY <2>4, <3>3
  <2>6. ParametersAccepted(p, n) <=> \A i \in 1 .. limit : i <= n <=> i <= m
    BY <2>1, <2>2, <2>5 DEF ParametersAccepted
  <2>7. CASE ParametersAccepted(p, n)
    <3>1. m <= n
      <4>1. m # 0 => m \in 1 .. limit
        BY <2>5
      <4> QED
        BY <2>6, <2>7, <4>1
    <3>2. Succeeds("CALL", p, "none", << >>)
      BY <1>3, <2>7 DEF CallFunction
    <3>3. Device!Succeeds("CALL", NamesOf[p], "none", {}) /\ Mapped'.path = NamesOf[p]
      BY <3>2, AnswerMaps, NoEntries
    <3> QED
      BY <1>2, <2>2, <2>3, <3>1, <3>3 DEF Device!Call
  <2>8. CASE ~ParametersAccepted(p, n)
    <3>1. n # m
      BY <2>6, <2>8
    <3>2. Fails("CALL", p)
      BY <2>8 DEF CallFunction
    <3>3. Device!Fails("CALL", NamesOf[p]) /\ Mapped'.path = NamesOf[p]
      BY <3>2, AnswerMaps
    <3> QED
      BY <1>2, <2>2, <2>3, <3>1, <3>3 DEF Device!Call
  <2> QED
    BY <2>7, <2>8
<1>4. CASE ~IsA(p, "CALLABLE")
  <2>1. Fails("CALL", p)
    BY <1>4 DEF CallFunction
  <2>2. ~Device!Has(NamesOf[p], Device!Function)
    BY <1>4, HasIs, SameProperty
  <2> QED
    BY <1>2, <2>1, <2>2, AnswerMaps DEF Device!Call
<1> QED
  BY <1>3, <1>4

-----------------------------------------------------------------------------
(* The entries below an entry.                                              *)

\* The paths between one and another that extends it extend it as well.
LEMMA BetweenExtends ==
  ASSUME NEW p \in Strings, NEW q \in Strings, NEW r \in Strings,
         IsPrefix(p, r), Before(p, q), Before(q, r)
  PROVE  IsPrefix(p, q)
<1>1. Len(p) \in Nat /\ Len(q) \in Nat /\ Len(r) \in Nat
  BY DEF Strings
<1>2. /\ \A i \in 1 .. Len(p) : Code(p[i]) \in Nat
      /\ \A i \in 1 .. Len(q) : Code(q[i]) \in Nat
      /\ \A i \in 1 .. Len(r) : Code(r[i]) \in Nat
  BY CodeIs, ElementOfSeq DEF Strings
<1>3. Len(p) <= Len(r) /\ \A j \in 1 .. Len(p) : p[j] = r[j]
  BY PrefixIs
<1>4. PICK i \in Nat : PartAt(p, q, i)
  BY BeforeIs
<1>5. PICK j \in Nat : PartAt(q, r, j)
  BY BeforeIs
<1>6. CASE i = Len(p) + 1
  BY <1>1, <1>4, <1>6, PrefixIs DEF PartAt
<1>7. ASSUME i <= Len(p)
      PROVE  FALSE
  <2>1. i \in 1 .. Len(p) /\ i \in 1 .. Len(q) /\ Code(p[i]) < Code(q[i]) /\ p[i] = r[i]
    BY <1>1, <1>3, <1>4, <1>7 DEF PartAt
  <2>2. CASE j < i
    <3>1. j \in 1 .. Len(p) /\ j \in 1 .. Len(q) /\ Code(q[j]) < Code(r[j])
      BY <1>1, <1>5, <2>1, <2>2 DEF PartAt
    <3>2. p[j] = q[j] /\ p[j] = r[j]
      BY <1>1, <1>3, <1>4, <2>2, <3>1 DEF PartAt
    <3> QED
      BY <1>2, <3>1, <3>2
  <2>3. CASE j = i
    BY <1>1, <1>2, <1>5, <2>1, <2>3 DEF PartAt
  <2>4. CASE i < j
    <3>1. q[i] = r[i]
      BY <1>1, <1>5, <2>1, <2>4 DEF PartAt
    <3> QED
      BY <1>2, <2>1, <3>1
  <2> QED
    BY <2>2, <2>3, <2>4
<1>8. i <= Len(p) + 1
  BY <1>4 DEF PartAt
<1> QED
  BY <1>1, <1>6, <1>7, <1>8

\* The loops over the entries that follow reach every one that extends.
LEMMA FollowingIs ==
  ASSUME Generated, NEW i \in DOMAIN infoList
  PROVE  Following(i) = {k \in DOMAIN infoList : IsStrictPrefix(infoList[i].path, infoList[k].path)}
<1>1. /\ DOMAIN infoList = 1 .. Len(infoList) /\ Len(infoList) \in Nat
      /\ \A k \in DOMAIN infoList : infoList[k].path \in Strings
      /\ \A j, k \in DOMAIN infoList : j < k => Before(infoList[j].path, infoList[k].path)
      /\ \A j, k \in DOMAIN infoList : infoList[j].path = infoList[k].path => j = k
  BY InfoListIs, EntryPaths DEF Generated
<1> DEFINE ends == {k \in i + 1 .. Len(infoList) : ~IsPrefix(infoList[i].path, infoList[k].path)}
           S == ends \cup {Len(infoList) + 1}
           m == Min(S)
<1>2. m \in S /\ \A y \in S : m <= y
  <2>1. S \subseteq Nat /\ S # {}
    BY <1>1
  <2> HIDE DEF S
  <2>2. m = CHOOSE x \in S : \A y \in S : x <= y
    BY DEF Min
  <2> HIDE DEF m
  <2> QED
    BY <2>1, <2>2, LeastNumber
<1>3. Following(i) = i + 1 .. m - 1
  BY DEF Following
<1> HIDE DEF m
<1>4. i \in Nat /\ i <= Len(infoList) /\ i > 0
  BY <1>1
<1>5. m \in Nat /\ i < m /\ m <= Len(infoList) + 1
  BY <1>1, <1>2, <1>4
<1>6. ASSUME NEW k \in i + 1 .. m - 1
      PROVE  k \in DOMAIN infoList /\ IsStrictPrefix(infoList[i].path, infoList[k].path)
  <2>1. k \in i + 1 .. Len(infoList) /\ k < m /\ k \in DOMAIN infoList /\ k # i
    BY <1>1, <1>4, <1>5
  <2>2. k \notin ends
    BY <1>1, <1>2, <1>5, <2>1
  <2> QED
    BY <1>1, <2>1, <2>2 DEF IsStrictPrefix
<1>7. ASSUME NEW k \in DOMAIN infoList, IsStrictPrefix(infoList[i].path, infoList[k].path)
      PROVE  k \in i + 1 .. m - 1
  <2>1. /\ IsPrefix(infoList[i].path, infoList[k].path)
        /\ Before(infoList[i].path, infoList[k].path)
    BY <1>7 DEF Before, IsStrictPrefix
  <2>2. i < k
    <3>1. i # k
      BY <1>7 DEF IsStrictPrefix
    <3>2. ~(k < i)
      BY <1>1, <2>1, BeforeTransitive, BeforeIrreflexive
    <3> QED
      BY <1>1, <3>1, <3>2
  <2>3. ASSUME m <= k
        PROVE  FALSE
    <3>1. m \in DOMAIN infoList /\ m \in ends
      BY <1>1, <1>2, <1>5, <2>3
    <3>2. ~IsPrefix(infoList[i].path, infoList[m].path) /\ m # k
      BY <2>1, <3>1
    <3>3. /\ Before(infoList[i].path, infoList[m].path)
          /\ Before(infoList[m].path, infoList[k].path)
      BY <1>1, <1>5, <2>3, <3>1, <3>2
    <3> QED
      BY <1>1, <2>1, <3>1, <3>2, <3>3, BetweenExtends
  <2> QED
    BY <1>1, <1>4, <1>5, <2>2, <2>3
<1> QED
  BY <1>3, <1>6, <1>7

LEMMA BelowIs ==
  ASSUME Generated, NEW i \in DOMAIN infoList, NEW k \in DOMAIN infoList
  PROVE  IsStrictPrefix(N(i), N(k)) <=>
           IF i = 1 THEN k # 1 ELSE Inside(infoList[i].path, infoList[k].path)
<1>1. /\ infoList[i].path \in Slashed /\ infoList[k].path \in Slashed
      /\ infoList[1].path = Root /\ N(1) = << >>
      /\ i # 1 => infoList[i].path # Root /\ Len(infoList[i].path) > 1
      /\ k # 1 => infoList[k].path # Root
  BY EntriesAre, RootHasNoNames DEF N
<1>2. Len(N(k)) \in Nat /\ Len(N(i)) \in Nat /\ N(k) \in Seq(Strings)
  BY <1>1, NamesSeq DEF N
<1>3. CASE i = 1
  <2>1. k = 1 => ~IsStrictPrefix(N(i), N(k))
    BY <1>3 DEF IsStrictPrefix
  <2>2. ASSUME k # 1
        PROVE  IsStrictPrefix(N(1), N(k))
    <3>1. Len(N(k)) > 0
      BY <1>1, <2>2, NamesSeq DEF N
    <3>2. N(k) # << >>
      BY <3>1, EmptySeq
    <3>3. SubSeq(<< >>, 1, 0) = << >> /\ SubSeq(N(k), 1, 0) = << >>
      BY SubSeqEmpty
    <3>4. Len(<< >>) = 0
      BY EmptySeq
    <3>5. IsPrefix(<< >>, N(k))
      BY <1>2, <3>3, <3>4 DEF IsPrefix
    <3> QED
      BY <1>1, <3>2, <3>5 DEF IsStrictPrefix
  <2> QED
    BY <1>3, <2>1, <2>2
<1>4. CASE i # 1 /\ k # 1
  BY <1>1, <1>4, NamesAre, WordsInside DEF N
<1>5. CASE i # 1 /\ k = 1
  <2>1. Len(N(i)) > 0
    BY <1>1, <1>5, NamesSeq DEF N
  <2>2. Len(N(k)) = 0
    BY <1>1, <1>5, EmptySeq
  <2>3. ~IsPrefix(N(i), N(k))
    BY <1>2, <2>1, <2>2 DEF IsPrefix
  <2>4. ~Inside(infoList[i].path, Root)
    <3>1. PICK a \in Nat : a = Len(infoList[i].path) /\ a > 1
      BY <1>1, <1>5 DEF Slashed, Strings
    <3>2. PICK b \in Nat : b = Len(Root) /\ b = 1
      BY RootIs
    <3> QED
      BY <3>1, <3>2 DEF Inside
  <2> QED
    BY <1>1, <1>5, <2>3, <2>4 DEF IsStrictPrefix
<1> QED
  BY <1>3, <1>4, <1>5

\* What is printed below an entry are its children, by their last names.
LEMMA ChildIs ==
  ASSUME Generated, NEW i \in DOMAIN infoList, NEW k \in DOMAIN infoList
  PROVE  /\ k \in Dumped(i) <=> IsStrictPrefix(N(i), N(k)) /\ Len(N(k)) = Len(N(i)) + 1
         /\ k \in Dumped(i) => k \in Listed(i) /\ Shown(i, k) = N(k)[Len(N(k))]
<1> DEFINE p == infoList[i].path
           q == infoList[k].path
           n == Len(Marks(q))
<1>1. /\ p \in Slashed /\ q \in Slashed /\ p \in Strings /\ q \in Strings
      /\ Len(p) \in Nat /\ Len(q) \in Nat
      /\ DOMAIN infoList = 1 .. Len(infoList) /\ infoList[1].path = Root
      /\ i # 1 => p # Root /\ Len(p) > 1
      /\ k # 1 => q # Root /\ Len(q) > 1 /\ q[2] # Slash
  BY EntriesAre DEF Slashed, Strings
<1>2. k \in Following(i) <=> IsStrictPrefix(p, q)
  BY FollowingIs
<1>3. /\ k \in Listed(i) <=> k \in Following(i) /\ NoSlashAfter(q, Len(p) + 2)
      /\ k \in Dumped(i) <=> k \in Listed(i) /\ (Len(p) = 1 \/ q[Len(p) + 1] = Slash)
  BY DEF Listed, Dumped
<1>4. /\ n \in Nat /\ n > 0 /\ Marks(q)[1] = 1
      /\ k # 1 => N(k) = Words(q) /\ Len(N(k)) = n
      /\ Words(q)[n] = SubSeq(q, Marks(q)[n] + 1, Len(q))
      /\ \A m \in 1 .. n : NoSlashAfter(q, Marks(q)[m] + 1) <=> m = n
  <2>1. n \in Nat /\ n > 0 /\ Marks(q)[1] = 1
    BY <1>1, MarksAre DEF n
  <2>2. k # 1 => N(k) = Words(q) /\ Len(N(k)) = n
    BY <1>1, NamesSeq DEF N, n, q
  <2>3. /\ Words(q)[n] = SubSeq(q, Marks(q)[n] + 1, Len(q))
        /\ \A m \in 1 .. n : NoSlashAfter(q, Marks(q)[m] + 1) <=> m = n
    BY <1>1, LastWord DEF n
  <2> QED
    BY <2>1, <2>2, <2>3
<1>5. Shown(i, k) = SubSeq(q, IF Len(p) = 1 THEN 2 ELSE Len(p) + 2, Len(q))
  BY DEF Shown
<1> HIDE DEF p, q, n
<1>6. CASE i = 1
  <2>1. p = Root /\ Len(p) = 1 /\ p[1] = Slash /\ N(i) = << >> /\ Len(N(i)) = 0
    BY <1>1, <1>6, RootIs, RootHasNoNames, EmptySeq DEF p, N
  <2>2. IsStrictPrefix(N(i), N(k)) <=> k # 1
    BY <1>6, BelowIs
  <2>3. CASE k = 1
    <3>1. ~IsStrictPrefix(p, q)
      BY <1>6, <2>3 DEF p, q, IsStrictPrefix
    <3> QED
      BY <1>2, <1>3, <2>2, <2>3, <3>1
  <2>4. CASE k # 1
    <3>1. IsStrictPrefix(p, q)
      <4>1. Len(p) <= Len(q) /\ \A j \in 1 .. Len(p) : p[j] = q[j]
        BY <1>1, <2>1, <2>4 DEF Slashed
      <4>2. p # q
        BY <1>1, <2>1, <2>4
      <4> QED
        BY <1>1, <4>1, <4>2, PrefixIs DEF IsStrictPrefix
    <3>2. NoSlashAfter(q, 3) <=> NoSlashAfter(q, 2)
      <4>1. \A j \in 2 .. Len(q) : j = 2 \/ j \in 3 .. Len(q)
        BY <1>1
      <4>2. \A j \in 3 .. Len(q) : j \in 2 .. Len(q)
        BY <1>1
      <4> QED
        BY <1>1, <2>4, <4>1, <4>2 DEF NoSlashAfter
    <3>3. NoSlashAfter(q, 2) <=> n = 1
      <4>1. 1 \in 1 .. n /\ Marks(q)[1] + 1 = 2
        BY <1>4
      <4> QED
        BY <1>4, <4>1
    <3>4. Len(p) + 2 = 3
      BY <2>1
    <3>5. k \in Dumped(i) <=> n = 1
      BY <1>2, <1>3, <2>1, <3>1, <3>2, <3>3, <3>4
    <3>6. n = 1 => Shown(i, k) = N(k)[Len(N(k))]
      <4>1. ASSUME n = 1
            PROVE  Shown(i, k) = N(k)[Len(N(k))]
        <5>1. Words(q)[n] = SubSeq(q, 2, Len(q))
          BY <1>4, <4>1
        <5> QED
          BY <1>4, <1>5, <2>1, <2>4, <5>1
      <4> QED
        BY <4>1
    <3>7. IsStrictPrefix(N(i), N(k))
      BY <2>2, <2>4
    <3>8. Len(N(k)) = Len(N(i)) + 1 <=> n = 1
      <4>1. Len(N(k)) = n /\ n \in Nat
        BY <1>4, <2>4
      <4> QED
        BY <2>1, <4>1
    <3>9. k \in Dumped(i) => k \in Listed(i)
      BY <1>3
    <3> QED
      BY <3>5, <3>6, <3>7, <3>8, <3>9
  <2> QED
    BY <2>3, <2>4
<1>7. CASE i # 1
  <2>1. Len(p) > 1 /\ p # Root
    BY <1>1, <1>7
  <2>2. IsStrictPrefix(N(i), N(k)) <=> Inside(p, q)
    BY <1>7, BelowIs DEF p, q
  <2>3. IsStrictPrefix(p, q) /\ q[Len(p) + 1] = Slash <=> Inside(p, q)
    <3>1. IsPrefix(p, q) <=> Len(p) <= Len(q) /\ \A j \in 1 .. Len(p) : p[j] = q[j]
      BY <1>1, PrefixIs
    <3>2. ASSUME IsPrefix(p, q), p # q
          PROVE  Len(p) < Len(q)
      <4>1. Len(p) = Len(q) => p = q
        BY <1>1, <3>1, <3>2, SeqEqual DEF Strings
      <4> QED
        BY <1>1, <3>1, <3>2, <4>1
    <3>3. Inside(p, q) => p # q
      BY <1>1 DEF Inside
    <3> QED
      BY <1>1, <3>1, <3>2, <3>3 DEF Inside, IsStrictPrefix
  <2>4. CASE ~Inside(p, q)
    BY <1>2, <1>3, <2>1, <2>2, <2>3, <2>4
  <2>5. CASE Inside(p, q)
    <3>1. PICK m \in 1 .. n : m # n /\ p = Ancestor(q, m)
      BY <1>1, <2>5, InsideFront DEF n
    <3>2. m + 1 \in 1 .. n /\ Marks(q)[m + 1] = Stop(q, m) + 1
      BY <1>1, <3>1, FrontInside DEF n
    <3>3. Len(p) = Stop(q, m) /\ Len(Words(p)) = m
      BY <1>1, <3>1, FrontIs DEF n
    <3>4. Len(N(i)) = m
      <4>1. N(i) = Words(p)
        BY <1>1, <1>7, NamesAre DEF p, N
      <4> QED
        BY <3>3, <4>1
    <3>5. Marks(q)[m + 1] + 1 = Len(p) + 2
      BY <1>1, <3>2, <3>3
    <3>6. NoSlashAfter(q, Len(p) + 2) <=> m + 1 = n
      BY <1>4, <3>2, <3>5
    <3>7. k # 1
      <4>1. ASSUME k = 1
            PROVE  FALSE
        <5>1. q = Root
          BY <1>1, <4>1 DEF q
        <5>2. PICK b \in Nat : b = Len(q) /\ b = 1
          BY <5>1, RootIs
        <5>3. PICK a \in Nat : a = Len(p) /\ a > 1
          BY <1>1, <2>1
        <5>4. a < b
          BY <2>5, <5>2, <5>3 DEF Inside
        <5> QED
          BY <5>2, <5>3, <5>4
      <4> QED
        BY <4>1
    <3>8. k \in Dumped(i) <=> m + 1 = n
      BY <1>2, <1>3, <2>1, <2>3, <2>5, <3>6
    <3>9. m + 1 = n => Shown(i, k) = N(k)[Len(N(k))]
      <4>1. ASSUME m + 1 = n
            PROVE  Shown(i, k) = N(k)[Len(N(k))]
        <5>1. Words(q)[n] = SubSeq(q, Len(p) + 2, Len(q))
          BY <1>4, <3>5, <4>1
        <5>2. Len(p) # 1
          <6>1. PICK a : a = Len(p)
            OBVIOUS
          <6>2. a > 1
            BY <2>1, <6>1
          <6> QED
            BY <6>1, <6>2
        <5> QED
          BY <1>4, <1>5, <3>7, <5>1, <5>2
      <4> QED
        BY <4>1
    <3> QED
      BY <1>3, <1>4, <2>2, <2>5, <3>4, <3>7, <3>8, <3>9
  <2> QED
    BY <2>4, <2>5
<1> QED
  BY <1>6, <1>7

\* The fronts of an object's names are lists of the tree.
LEMMA FrontsAreLists ==
  ASSUME Generated, NEW k \in DOMAIN infoList, NEW n \in Nat, n < Len(N(k))
  PROVE  \E j \in DOMAIN infoList : infoList[j].type = "LIST" /\ N(j) = SubSeq(N(k), 1, n)
<1>1. /\ DOMAIN infoList = 1 .. Len(infoList) /\ Len(infoList) \in Nat /\ Len(infoList) > 0
      /\ infoList[1].path = Root /\ infoList[1].type = "LIST"
  BY EntriesAre
<1>2. N(1) = << >>
  BY <1>1, RootHasNoNames DEF N
<1>3. CASE n = 0
  <2>1. SubSeq(N(k), 1, 0) = << >>
    BY SubSeqEmpty
  <2>2. 1 \in DOMAIN infoList
    BY <1>1
  <2>3. N(1) = SubSeq(N(k), 1, n)
    BY <1>2, <1>3, <2>1
  <2> QED
    BY <1>1, <2>2, <2>3
<1>4. CASE n # 0
  <2> DEFINE q == infoList[k].path
  <2>1. q \in Slashed /\ q \in Strings
    BY EntriesAre DEF Slashed
  <2>2. q # Root
    <3>1. q = Root => Len(N(k)) = 0
      BY RootHasNoNames, EmptySeq DEF N
    <3> QED
      BY <1>4, <3>1
  <2>3. N(k) = Words(q) /\ Len(N(k)) = Len(Marks(q))
    BY <2>1, <2>2, NamesAre, NamesSeq DEF N
  <2>4. n \in 1 .. Len(Marks(q)) /\ n # Len(Marks(q))
    <3>1. Len(Marks(q)) \in Nat
      BY <2>1, MarksAre
    <3> QED
      BY <1>4, <2>3, <3>1
  <2>5. Ancestor(q, n) \in Parents(q) /\ Ancestor(q, n) \in Slashed /\ Words(Ancestor(q, n)) = SubSeq(N(k), 1, n)
    BY <2>1, <2>3, <2>4, FrontInside, FrontIs
  <2>6. /\ defined \in Files /\ tables = Tables(defined)
        /\ \A i \in DOMAIN defined : defined[i] \in Definitions
    BY FileIs DEF Generated
  <2>7. Ancestor(q, n) \in ListPaths(defined)
    <3>1. CASE \E i \in DOMAIN defined : q = defined[i].path
      BY <2>5, <3>1 DEF ListPaths
    <3>2. CASE q \in ListPaths(defined)
      <4>1. PICK i \in DOMAIN defined : q \in Parents(defined[i].path)
        BY <3>2 DEF ListPaths
      <4>2. Parents(q) \subseteq Parents(defined[i].path)
        <5> DEFINE e == defined[i].path
        <5>1. /\ e \in Strings /\ Len(e) \in Nat /\ Len(e) > 1 /\ e[1] = Slash /\ e[2] # Slash
          BY <2>6, DefinitionIs
        <5>2. /\ q \in Strings /\ Len(q) \in Nat /\ 1 < Len(q) /\ Len(q) < Len(e)
              /\ \A j \in 1 .. Len(q) : q[j] = e[j]
          BY <4>1, <5>1, ParentsAre
        <5> HIDE DEF q, e
        <5>3. ASSUME NEW c \in 2 .. Len(q), q[c] = Slash
              PROVE  SubSeq(q, 1, c - 1) \in Parents(e)
          <6>1. c \in 2 .. Len(e) /\ e[c] = Slash
            BY <5>1, <5>2, <5>3
          <6>2. PICK a \in Nat : a = c - 1
            BY <5>3
          <6>3. SubSeq(q, 1, a) = SubSeq(e, 1, a)
            BY <5>1, <5>2, <5>3, <6>2, FrontsEqual
          <6> QED
            BY <6>1, <6>2, <6>3 DEF Parents
        <5>4. Parents(q) = {SubSeq(q, 1, c - 1) : c \in {b \in 2 .. Len(q) : q[b] = Slash}}
          BY DEF Parents
        <5> QED
          BY <5>3, <5>4 DEF e
      <4> QED
        BY <2>5, <4>1, <4>2 DEF ListPaths
    <3>3. CASE infoList[k].type # "LIST"
      <4>1. /\ infoList[k].type \in Types
            /\ infoList[k].index \in DOMAIN tables[infoList[k].type]
            /\ tables[infoList[k].type][infoList[k].index].path = q
        BY <3>3, EntriesAre
      <4>2. \E i \in DOMAIN defined : tables[infoList[k].type][infoList[k].index] = defined[i]
        BY <2>6, <4>1, TableIs
      <4> QED
        BY <3>1, <4>1, <4>2
    <3>4. infoList[k].type = "LIST" => q \in ListPaths(defined)
      BY <2>2, EntriesAre DEF Types
    <3> QED
      BY <3>2, <3>3, <3>4
  <2>8. PICK j \in DOMAIN infoList : infoList[j].path = Ancestor(q, n) /\ infoList[j].type = "LIST"
    BY <2>7, EntriesAre
  <2>9. Ancestor(q, n) # Root
    <3>1. \A d \in ListPaths(defined) : d # Root
      <4>1. ASSUME Root \in ListPaths(defined)
            PROVE  FALSE
        <5>1. Len(Root) > 1
          BY <2>6, <4>1, ListPathsAre
        <5> QED
          BY <5>1, RootIs
      <4> QED
        BY <4>1
    <3> QED
      BY <2>7, <3>1
  <2>10. N(j) = SubSeq(N(k), 1, n)
    BY <2>5, <2>8, <2>9, NamesAre DEF N
  <2> QED
    BY <2>8, <2>10
<1> QED
  BY <1>3, <1>4

\* The names from entry i down to entry k.
Rest(i, k) == SubSeq(N(k), Len(N(i)) + 1, Len(N(k)))

LEMMA RestIs ==
  ASSUME Generated, NEW i \in DOMAIN infoList, NEW k \in DOMAIN infoList, IsPrefix(N(i), N(k))
  PROVE  /\ Len(N(i)) \in Nat /\ Len(N(k)) \in Nat /\ Len(N(i)) <= Len(N(k))
         /\ N(i) \in Seq(Strings) /\ N(k) \in Seq(Strings)
         /\ Rest(i, k) \in Seq(Strings) /\ Len(Rest(i, k)) = Len(N(k)) - Len(N(i))
         /\ \A j \in 1 .. Len(N(k)) - Len(N(i)) : Rest(i, k)[j] = N(k)[Len(N(i)) + j]
         /\ \A j \in 1 .. Len(N(i)) : N(i)[j] = N(k)[j]
<1>1. /\ N(i) \in Seq(Strings) /\ N(k) \in Seq(Strings)
      /\ Len(N(i)) \in Nat /\ Len(N(k)) \in Nat
  BY EntriesAre, NamesSeq DEF N
<1>2. PICK a \in Nat : a = Len(N(i))
  BY <1>1
<1>3. PICK b \in Nat : b = Len(N(k))
  BY <1>1
<1>4. PICK s \in Seq(Strings) : s = N(k)
  BY <1>1
<1>5. PICK t \in Seq(Strings) : t = N(i)
  BY <1>1
<1>6. a <= b /\ t = SubSeq(s, 1, a)
  BY <1>2, <1>3, <1>4, <1>5 DEF IsPrefix
<1>7. /\ SubSeq(s, a + 1, b) \in Seq(Strings) /\ Len(SubSeq(s, a + 1, b)) = b - a
      /\ \A j \in 1 .. b - a : SubSeq(s, a + 1, b)[j] = s[a + j]
  BY <1>3, <1>4, <1>6
<1>8. \A j \in 1 .. a : t[j] = s[j]
  BY <1>3, <1>4, <1>6
<1> QED
  BY <1>1, <1>2, <1>3, <1>4, <1>5, <1>6, <1>7, <1>8 DEF Rest

\* What the tree has below an entry.
LEMMA BelowAre ==
  ASSUME Generated, NEW i \in DOMAIN infoList
  PROVE  Device!Below(N(i)) =
           {Rest(i, k) : k \in {j \in DOMAIN infoList : IsStrictPrefix(N(i), N(j))}}
<1> DEFINE One == {SubSeq(q, Len(N(i)) + 1, Len(q)) :
                     q \in {r \in DOMAIN meant : IsStrictPrefix(N(i), r)}}
           Other == {Rest(i, k) : k \in {j \in DOMAIN infoList : IsStrictPrefix(N(i), N(j))}}
<1>1. Device!Below(N(i)) = One
  BY Zenon DEF Device!Below, Device!Objects, Device!IsStrictPrefix, Device!IsPrefix,
               IsStrictPrefix, IsPrefix
<1>2. ASSUME NEW x \in One
      PROVE  x \in Other
  <2>1. PICK q \in DOMAIN meant : IsStrictPrefix(N(i), q) /\ x = SubSeq(q, Len(N(i)) + 1, Len(q))
    BY <1>2
  <2>2. PICK k \in DOMAIN infoList : q = N(k)
    BY MeantIs
  <2> QED
    BY <2>1, <2>2 DEF Rest
<1>3. ASSUME NEW x \in Other
      PROVE  x \in One
  <2>1. PICK k \in DOMAIN infoList : IsStrictPrefix(N(i), N(k)) /\ x = Rest(i, k)
    BY <1>3
  <2>2. N(k) \in DOMAIN meant
    BY MeantIs
  <2> QED
    BY <2>1, <2>2 DEF Rest
<1>4. One = Other
  <2> HIDE DEF One, Other
  <2> QED
    BY <1>2, <1>3
<1> QED
  BY <1>1, <1>4

LEMMA ListedAre ==
  ASSUME Generated, NEW i \in DOMAIN infoList
  PROVE  /\ Listed(i) \subseteq DOMAIN infoList /\ Dumped(i) \subseteq Listed(i)
         /\ IsFiniteSet(Listed(i)) /\ IsFiniteSet(Dumped(i))
         /\ Listed(i) \subseteq Nat /\ Dumped(i) \subseteq Nat
<1>1. Listed(i) \subseteq DOMAIN infoList
  BY FollowingIs DEF Listed
<1>2. Dumped(i) \subseteq Listed(i)
  BY DEF Dumped
<1>3. DOMAIN infoList = 1 .. Len(infoList) /\ Len(infoList) \in Nat
  BY EntriesAre
<1>4. IsFiniteSet(DOMAIN infoList) /\ DOMAIN infoList \subseteq Nat
  BY <1>3, FS_Interval
<1>5. IsFiniteSet(Listed(i)) /\ IsFiniteSet(Dumped(i))
  BY <1>1, <1>2, <1>4, FS_Subset
<1> QED
  BY <1>1, <1>2, <1>4, <1>5

\* A child is named by one name.
LEMMA ChildRest ==
  ASSUME Generated, NEW i \in DOMAIN infoList, NEW k \in Dumped(i)
  PROVE  /\ k \in DOMAIN infoList /\ k \in Listed(i) /\ Rest(i, k) = <<Shown(i, k)>>
         /\ IsStrictPrefix(N(i), N(k)) /\ Len(N(k)) = Len(N(i)) + 1
         /\ Shown(i, k) \in Strings
<1>1. k \in DOMAIN infoList /\ k \in Listed(i)
  BY ListedAre
<1>2. /\ IsStrictPrefix(N(i), N(k)) /\ Len(N(k)) = Len(N(i)) + 1
      /\ Shown(i, k) = N(k)[Len(N(k))]
  BY <1>1, ChildIs
<1>3. IsPrefix(N(i), N(k))
  BY <1>2 DEF IsStrictPrefix
<1>4. PICK a \in Nat : a = Len(N(i))
  BY <1>1, <1>3, RestIs
<1>5. PICK b : b = Len(N(k))
  OBVIOUS
<1>6. b = a + 1 /\ b - a = 1
  BY <1>2, <1>4, <1>5
<1>7. PICK s \in Seq(Strings) : s = Rest(i, k) /\ Len(s) = b - a
  BY <1>1, <1>3, <1>4, <1>5, RestIs
<1>8. \A j \in 1 .. b - a : s[j] = N(k)[a + j]
  BY <1>1, <1>3, <1>4, <1>5, <1>7, RestIs
<1>9. s[1] = Shown(i, k)
  BY <1>2, <1>5, <1>6, <1>8
<1>10. Len(s) = 1
  BY <1>6, <1>7
<1>11. s[1] \in Strings /\ s = <<s[1]>>
  <2>1. s[1] \in Strings
    BY <1>10, ElementOfSeq
  <2>2. PICK x \in Strings : x = s[1]
    BY <2>1
  <2>3. <<x>> \in Seq(Strings) /\ Len(<<x>>) = 1 /\ <<x>>[1] = x
    OBVIOUS
  <2>4. \A j \in 1 .. 1 : s[j] = <<x>>[j]
    BY <2>2, <2>3
  <2> HIDE DEF Strings
  <2> QED
    BY <1>10, <2>2, <2>3, <2>4, SeqEqual
<1> QED
  BY <1>1, <1>2, <1>7, <1>9, <1>11

LEMMA ListMaps ==
  ASSUME Generated, Still, NEW p \in Paths, List(p)
  PROVE  Device!List(NamesOf[p]) /\ Mapped'.path = NamesOf[p] /\ ended' = ended
<1>1. UNCHANGED <<values, monitorState, ended>>
  BY DEF List
<1>2. Held' = Held /\ ended' = ended
  BY <1>1, HeldStays
<1>3. CASE IsA(p, "LIST")
  <2>1. PICK i \in DOMAIN infoList : i = FindInfo(p) /\ NamesOf[p] = N(i)
    BY <1>3, LookupIs DEF IsA
  <2> DEFINE listed == InOrder(Listed(i))
             entries == [c \in DOMAIN listed |-> <<Shown(i, listed[c])>>]
  <2>2. Succeeds("LIST", p, "none", entries)
    BY <1>3, <2>1 DEF List
  <2>3. /\ Device!Succeeds("LIST", NamesOf[p], "none", Range(entries))
        /\ Mapped'.path = NamesOf[p] /\ Mapped'.entries = Range(entries)
    <3> HIDE DEF entries
    <3> QED
      BY <2>2, AnswerMaps
  <2>4. ASSUME NEW k \in Listed(i)
        PROVE  <<Shown(i, k)>> \in Range(entries)
    <3>1. PICK c \in 1 .. Cardinality(Listed(i)) : listed[c] = k
      BY ListedAre, InOrderIs
    <3>2. c \in DOMAIN listed
      BY ListedAre, InOrderIs, LenProperties
    <3>3. entries[c] = <<Shown(i, k)>> /\ c \in DOMAIN entries
      BY <3>1, <3>2
    <3> HIDE DEF entries
    <3> QED
      BY <3>3 DEF Range
  <2>5. ASSUME NEW q \in Device!Children(N(i))
        PROVE  q \in Range(entries)
    <3> HIDE DEF entries
    <3>1. q \in Device!Below(N(i)) /\ Len(q) = 1
      BY DEF Device!Children
    <3>2. PICK k \in DOMAIN infoList : IsStrictPrefix(N(i), N(k)) /\ q = Rest(i, k)
      BY <3>1, BelowAre
    <3>3. IsPrefix(N(i), N(k))
      BY <3>2 DEF IsStrictPrefix
    <3>4. Len(N(k)) = Len(N(i)) + 1
      <4>1. PICK a \in Nat : a = Len(N(i))
        BY <3>3, RestIs
      <4>2. PICK b \in Nat : b = Len(N(k))
        BY <3>3, RestIs
      <4>3. 1 = b - a
        BY <3>1, <3>2, <3>3, <4>1, <4>2, RestIs
      <4> QED
        BY <4>1, <4>2, <4>3
    <3>5. k \in Dumped(i)
      BY <3>2, <3>4, ChildIs
    <3>6. q = <<Shown(i, k)>> /\ k \in Listed(i)
      BY <3>2, <3>5, ChildRest
    <3> QED
      BY <2>4, <3>6
  <2>6. Device!Has(NamesOf[p], {"list"})
    BY <1>3, HasIs
  <2> HIDE DEF entries
  <2>7. Device!Children(NamesOf[p]) \subseteq Mapped'.entries
    BY <2>1, <2>3, <2>5
  <2>8. Device!Succeeds("LIST", NamesOf[p], "none", Mapped'.entries)
    BY <2>3
  <2> QED
    BY <1>2, <2>3, <2>6, <2>7, <2>8 DEF Device!List, Mapped
<1>4. CASE ~IsA(p, "LIST")
  <2>1. Fails("LIST", p)
    BY <1>4 DEF List
  <2>2. ~Device!Has(NamesOf[p], {"list"})
    BY <1>4, HasIs
  <2> QED
    BY <1>2, <2>1, <2>2, AnswerMaps DEF Device!List
<1> QED
  BY <1>3, <1>4

-----------------------------------------------------------------------------
(* Dumps.                                                                   *)

\* f[m] is what the first m sequences make, joined one after the other.
Joins(f, ss, X) ==
  /\ FlattenSeq(ss) = f[Len(ss)] /\ f[1] = ss[1]
  /\ \A i \in 2 .. Len(ss) : f[i] = f[i - 1] \o ss[i]
  /\ \A m \in 1 .. Len(ss) :
       /\ f[m] \in Seq(X)
       /\ \A x : x \in Range(f[m]) <=> \E c \in 1 .. m : x \in Range(ss[c])

LEMMA FlattenSteps ==
  ASSUME NEW X, NEW ss \in Seq(Seq(X)), Len(ss) # 0
  PROVE  \E f : Joins(f, ss, X)
<1> DEFINE n == Len(ss)
           Up(f, i) == IF i = 1 THEN ss[i] ELSE f[i - 1] \o ss[i]
           flatten == CHOOSE f : f = [i \in 1 .. n |-> Up(f, i)]
<1>1. n \in Nat /\ DOMAIN ss = 1 .. n /\ \A i \in 1 .. n : ss[i] \in Seq(X)
  BY LenProperties, ElementOfSeq
<1>2. FlattenSeq(ss) = flatten[n]
  BY Zenon DEF FlattenSeq
<1> DEFINE Good(m) == \E f \in [1 .. n -> Seq(X)] : \A i \in 1 .. m : f[i] = Up(f, i)
<1>3. Good(0)
  <2>1. [i \in 1 .. n |-> << >>] \in [1 .. n -> Seq(X)]
    BY EmptySeq
  <2>2. \A i : i \notin 1 .. 0
    OBVIOUS
  <2> QED
    BY <2>1, <2>2
<1>4. ASSUME NEW m \in 0 .. n - 1, Good(m)
      PROVE  Good(m + 1)
  <2>1. PICK f \in [1 .. n -> Seq(X)] : \A i \in 1 .. m : f[i] = Up(f, i)
    BY <1>4
  <2> DEFINE g == [f EXCEPT ![m + 1] = Up(f, m + 1)]
  <2>2. m + 1 \in 1 .. n
    BY <1>1
  <2>3. Up(f, m + 1) \in Seq(X)
    <3>1. CASE m + 1 = 1
      BY <1>1, <2>2, <3>1
    <3>2. CASE m + 1 # 1
      <4>1. m \in 1 .. n
        BY <1>1, <3>2
      <4>2. f[m] \in Seq(X) /\ ss[m + 1] \in Seq(X)
        BY <1>1, <2>2, <4>1
      <4>3. f[m] \o ss[m + 1] \in Seq(X)
        BY <4>2, ConcatProperties
      <4> QED
        BY <3>2, <4>3
    <3> QED
      BY <3>1, <3>2
  <2>4. g \in [1 .. n -> Seq(X)]
    <3> HIDE DEF Up
    <3> QED
      BY <2>2, <2>3
  <2>5. ASSUME NEW i \in 1 .. m + 1
        PROVE  g[i] = Up(g, i)
    <3>1. i # 1 => g[i - 1] = f[i - 1]
      <4>1. i # 1 => i - 1 \in 1 .. n /\ i - 1 # m + 1
        BY <1>1
      <4> HIDE DEF Up
      <4> QED
        BY <4>1
    <3>2. Up(g, i) = Up(f, i)
      <4> HIDE DEF g
      <4> QED
        BY <3>1
    <3>3. g[i] = Up(f, i)
      <4>1. i \in 1 .. n
        BY <1>1
      <4>2. i # m + 1 => i \in 1 .. m
        OBVIOUS
      <4>3. i # m + 1 => f[i] = Up(f, i)
        BY <2>1, <4>2
      <4> HIDE DEF Up
      <4> QED
        BY <4>1, <4>3
    <3> QED
      BY <3>2, <3>3
  <2> HIDE DEF g, Up
  <2> QED
    BY <2>4, <2>5
<1> HIDE DEF Good
<1>5. Good(n)
  <2> DEFINE T == {k \in 0 .. n : Good(n - k)}
  <2>1. n \in T
    <3>1. n - n = 0 /\ n \in 0 .. n
      BY <1>1
    <3> QED
      BY <1>3, <3>1
  <2>2. PICK k \in T : \A j \in T : k <= j
    <3>1. T \subseteq Nat /\ T # {}
      <4>1. 0 .. n \subseteq Nat /\ T \subseteq 0 .. n
        OBVIOUS
      <4> HIDE DEF T
      <4> QED
        BY <2>1, <4>1
    <3> HIDE DEF T
    <3> QED
      BY <3>1, LeastNumber
  <2>3. k = 0
    <3>1. ASSUME k # 0
          PROVE  FALSE
      <4>1. n - k \in 0 .. n - 1 /\ n - k + 1 = n - (k - 1) /\ k - 1 \in 0 .. n /\ ~(k <= k - 1)
        BY <1>1, <3>1
      <4>2. k - 1 \in T
        BY <1>4, <4>1
      <4> HIDE DEF T
      <4> QED
        BY <2>2, <4>1, <4>2
    <3> QED
      BY <3>1
  <2>4. n - 0 = n
    BY <1>1
  <2> QED
    BY <2>3, <2>4
<1>6. PICK f \in [1 .. n -> Seq(X)] : \A i \in 1 .. n : f[i] = Up(f, i)
  BY <1>5 DEF Good
<1>7. f = [i \in 1 .. n |-> Up(f, i)]
  <2> HIDE DEF Up
  <2> QED
    BY <1>6
<1>8. flatten = [i \in 1 .. n |-> Up(flatten, i)]
  <2> HIDE DEF Up
  <2> QED
    BY <1>7
<1> HIDE DEF flatten
<1> DEFINE Right(m) == /\ flatten[m] \in Seq(X)
                       /\ \A x : x \in Range(flatten[m]) <=> \E c \in 1 .. m : x \in Range(ss[c])
<1>9. ASSUME NEW m \in 1 .. n, m # 1 => Right(m - 1)
      PROVE  Right(m)
  <2>1. flatten[m] = Up(flatten, m)
    <3> HIDE DEF Up
    <3> QED
      BY <1>8
  <2>2. CASE m = 1
    <3>1. flatten[m] = ss[1]
      BY <2>1, <2>2
    <3>2. \A c : c \in 1 .. m <=> c = 1
      BY <2>2
    <3> QED
      BY <1>1, <2>2, <3>1, <3>2
  <2>3. CASE m # 1
    <3>1. flatten[m] = flatten[m - 1] \o ss[m]
      BY <2>1, <2>3
    <3>2. flatten[m - 1] \in Seq(X) /\ ss[m] \in Seq(X)
      BY <1>1, <1>9, <2>3
    <3>3. /\ flatten[m] \in Seq(X)
          /\ Range(flatten[m]) = Range(flatten[m - 1]) \cup Range(ss[m])
      BY <3>1, <3>2, ConcatProperties, RangeConcatenation
    <3>4. \A c : c \in 1 .. m <=> c \in 1 .. m - 1 \/ c = m
      BY <2>3
    <3>5. \A x : x \in Range(flatten[m - 1]) <=> \E c \in 1 .. m - 1 : x \in Range(ss[c])
      BY <1>9, <2>3
    <3> QED
      BY <3>3, <3>4, <3>5
  <2> QED
    BY <2>2, <2>3
<1> HIDE DEF Right
<1>10. \A m \in 1 .. n : Right(m)
  <2> DEFINE T == {m \in 1 .. n : ~Right(m)}
  <2>1. ASSUME T # {}
        PROVE  FALSE
    <3>1. PICK m \in T : \A j \in T : m <= j
      <4>1. T \subseteq Nat
        OBVIOUS
      <4> HIDE DEF T
      <4> QED
        BY <2>1, <4>1, LeastNumber
    <3>2. m \in 1 .. n /\ ~Right(m)
      OBVIOUS
    <3>3. m # 1 => m - 1 \in 1 .. n /\ ~(m <= m - 1)
      BY <1>1, <3>2
    <3>4. m # 1 => m - 1 \notin T
      <4> HIDE DEF T
      <4> QED
        BY <3>1, <3>3
    <3> QED
      BY <1>9, <3>2, <3>3, <3>4
  <2> QED
    BY <2>1
<1>11. flatten[1] = ss[1] /\ \A i \in 2 .. n : flatten[i] = flatten[i - 1] \o ss[i]
  <2>1. \A i \in 1 .. n : flatten[i] = Up(flatten, i)
    <3> HIDE DEF Up
    <3> QED
      BY <1>8
  <2>2. 1 \in 1 .. n /\ \A i \in 2 .. n : i \in 1 .. n /\ i # 1
    BY <1>1
  <2> QED
    BY <2>1, <2>2
<1>12. Joins(flatten, ss, X)
  BY <1>2, <1>10, <1>11 DEF Right, Joins
<1> QED
  BY <1>12

\* The sequence of all elements has the elements of each.
LEMMA FlattenIs ==
  ASSUME NEW X, NEW ss \in Seq(Seq(X))
  PROVE  /\ FlattenSeq(ss) \in Seq(X)
         /\ \A x : x \in Range(FlattenSeq(ss)) <=> \E c \in DOMAIN ss : x \in Range(ss[c])
<1>1. Len(ss) \in Nat /\ DOMAIN ss = 1 .. Len(ss)
  BY LenProperties
<1>2. CASE Len(ss) = 0
  <2>1. FlattenSeq(ss) = ss /\ ss = << >>
    BY <1>2, EmptySeq DEF FlattenSeq
  <2>2. << >> \in Seq(X) /\ Range(<< >>) = {}
    BY EmptySeq, NoEntries
  <2> QED
    BY <1>1, <1>2, <2>1, <2>2
<1>3. CASE Len(ss) # 0
  <2>1. Len(ss) \in 1 .. Len(ss)
    BY <1>1, <1>3
  <2>2. PICK f : Joins(f, ss, X)
    BY <1>3, FlattenSteps
  <2> QED
    BY <1>1, <2>1, <2>2 DEF Joins
<1> QED
  BY <1>2, <1>3

\* A sequence without repetitions after one that has none of its elements.
LEMMA JoinInjective ==
  ASSUME NEW X, NEW s \in Seq(X), NEW t \in Seq(X), IsInjective(s), IsInjective(t),
         \A x : ~(x \in Range(s) /\ x \in Range(t))
  PROVE  IsInjective(s \o t)
<1>1. PICK a \in Nat : a = Len(s) /\ DOMAIN s = 1 .. a
  BY LenProperties
<1>2. PICK b \in Nat : b = Len(t) /\ DOMAIN t = 1 .. b
  BY LenProperties
<1>3. PICK r \in Seq(X) : r = s \o t /\ Len(r) = a + b
  BY <1>1, <1>2, ConcatProperties
<1>4. DOMAIN r = 1 .. a + b
  BY <1>3, LenProperties
<1>5. \A j \in 1 .. a : r[j] = s[j] /\ r[j] \in Range(s)
  <2>1. \A j \in 1 .. a : j \in 1 .. a + b
    OBVIOUS
  <2>2. \A j \in 1 .. a : r[j] = s[j]
    BY <1>1, <1>2, <1>3, <2>1, ConcatProperties
  <2> QED
    BY <1>1, <2>2 DEF Range
<1>6. \A j \in a + 1 .. a + b : j - a \in 1 .. b /\ r[j] = t[j - a] /\ r[j] \in Range(t)
  <2>1. \A j \in a + 1 .. a + b : j \in 1 .. a + b /\ ~(j <= a) /\ j - a \in 1 .. b
    OBVIOUS
  <2>2. \A j \in a + 1 .. a + b : r[j] = t[j - a]
    BY <1>1, <1>2, <1>3, <2>1, ConcatProperties
  <2> QED
    BY <1>2, <2>1, <2>2 DEF Range
<1>7. ASSUME NEW i \in 1 .. a + b, NEW j \in 1 .. a + b, r[i] = r[j]
      PROVE  i = j
  <2>1. CASE i \in 1 .. a /\ j \in 1 .. a
    BY <1>1, <1>5, <1>7, <2>1 DEF IsInjective
  <2>2. CASE i \in a + 1 .. a + b /\ j \in a + 1 .. a + b
    <3>1. i - a = j - a
      BY <1>2, <1>6, <1>7, <2>2 DEF IsInjective
    <3> QED
      BY <3>1
  <2>3. CASE i \in 1 .. a /\ j \in a + 1 .. a + b
    BY <1>5, <1>6, <1>7, <2>3
  <2>4. CASE i \in a + 1 .. a + b /\ j \in 1 .. a
    BY <1>5, <1>6, <1>7, <2>4
  <2> QED
    BY <2>1, <2>2, <2>3, <2>4
<1> QED
  BY <1>3, <1>4, <1>7 DEF IsInjective

\* If no element comes twice in one of them, nor in two of them, then it does not
\* come twice in all.
LEMMA FlattenInjective ==
  ASSUME NEW X, NEW ss \in Seq(Seq(X)),
         \A c \in DOMAIN ss : IsInjective(ss[c]),
         \A c, d \in DOMAIN ss : \A x : x \in Range(ss[c]) /\ x \in Range(ss[d]) => c = d
  PROVE  IsInjective(FlattenSeq(ss))
<1>1. PICK n \in Nat : n = Len(ss) /\ DOMAIN ss = 1 .. n /\ \A c \in 1 .. n : ss[c] \in Seq(X)
  BY LenProperties, ElementOfSeq
<1>2. CASE n = 0
  <2>1. FlattenSeq(ss) = ss /\ DOMAIN ss = {}
    BY <1>1, <1>2 DEF FlattenSeq
  <2> QED
    BY <2>1 DEF IsInjective
<1>3. CASE n # 0
  <2>0. PICK f : Joins(f, ss, X)
    BY <1>1, <1>3, FlattenSteps
  <2>1. /\ FlattenSeq(ss) = f[n] /\ f[1] = ss[1]
        /\ \A i \in 2 .. n : f[i] = f[i - 1] \o ss[i]
        /\ \A m \in 1 .. n :
             /\ f[m] \in Seq(X)
             /\ \A x : x \in Range(f[m]) <=> \E c \in 1 .. m : x \in Range(ss[c])
    BY <1>1, <2>0 DEF Joins
  <2> DEFINE T == {m \in 1 .. n : ~IsInjective(f[m])}
  <2>2. ASSUME T # {}
        PROVE  FALSE
    <3>1. PICK m \in T : \A j \in T : m <= j
      <4>1. T \subseteq Nat
        OBVIOUS
      <4> HIDE DEF T
      <4> QED
        BY <2>2, <4>1, LeastNumber
    <3>2. m \in 1 .. n /\ ~IsInjective(f[m])
      OBVIOUS
    <3>3. m # 1
      <4>1. 1 \in DOMAIN ss
        BY <1>1, <1>3
      <4> QED
        BY <2>1, <3>2, <4>1
    <3>4. m - 1 \in 1 .. n /\ ~(m <= m - 1) /\ m \in 2 .. n
      BY <3>2, <3>3
    <3>5. IsInjective(f[m - 1])
      <4>1. m - 1 \notin T
        <5> HIDE DEF T
        <5> QED
          BY <3>1, <3>4
      <4> QED
        BY <3>4, <4>1
    <3>6. PICK s \in Seq(X) : s = f[m - 1]
      BY <2>1, <3>4
    <3>7. PICK t \in Seq(X) : t = ss[m]
      BY <1>1, <3>2
    <3>8. IsInjective(s) /\ IsInjective(t)
      BY <1>1, <3>2, <3>5, <3>6, <3>7
    <3>9. \A x : ~(x \in Range(s) /\ x \in Range(t))
      <4>1. ASSUME NEW x, x \in Range(s), x \in Range(t)
            PROVE  FALSE
        <5>1. PICK c \in 1 .. m - 1 : x \in Range(ss[c])
          BY <2>1, <3>4, <3>6, <4>1
        <5>2. c \in 1 .. n /\ c # m
          BY <3>2, <5>1
        <5> QED
          BY <1>1, <3>2, <3>7, <4>1, <5>1, <5>2
      <4> QED
        BY <4>1
    <3>10. IsInjective(s \o t)
      BY <3>8, <3>9, JoinInjective
    <3> QED
      BY <2>1, <3>2, <3>4, <3>6, <3>7, <3>10
  <2>3. n \in 1 .. n /\ n \notin T
    BY <1>3, <2>2
  <2> QED
    BY <2>1, <2>3
<1> QED
  BY <1>2, <1>3

\* The dumps of the entries below entry i, given the dumps d of all entries;
\* and the dump of entry i itself.
Deeper(d, i) ==
  LET below == InOrder(Dumped(i))
  IN  [c \in DOMAIN below |->
         LET dumped == d[below[c]]
         IN  [e \in DOMAIN dumped |-> <<Shown(i, below[c])>> \o dumped[e]]]

Whole(d, i) == << << >> >> \o FlattenSeq(Deeper(d, i))

Lines == Seq(Seq(Strings))

\* What they print.
Printed(d, i) == UNION {{<<Shown(i, k)>> \o y : y \in Range(d[k])} : k \in Dumped(i)}

LEMMA PrintedAre ==
  ASSUME NEW d, NEW i, NEW x
  PROVE  x \in Printed(d, i) <=>
           \E k \in Dumped(i) : \E y \in Range(d[k]) : x = <<Shown(i, k)>> \o y
<1> DEFINE Part(k) == {<<Shown(i, k)>> \o y : y \in Range(d[k])}
<1>1. Printed(d, i) = UNION {Part(k) : k \in Dumped(i)}
  BY DEF Printed
<1>2. \A k \in Dumped(i) : x \in Part(k) <=> \E y \in Range(d[k]) : x = <<Shown(i, k)>> \o y
  OBVIOUS
<1> HIDE DEF Part
<1>3. x \in UNION {Part(k) : k \in Dumped(i)} <=> \E k \in Dumped(i) : x \in Part(k)
  OBVIOUS
<1> QED
  BY <1>1, <1>2, <1>3, Zenon

LEMMA DeeperIs ==
  ASSUME Generated, NEW i \in DOMAIN infoList, NEW d, \A k \in Dumped(i) : d[k] \in Lines
  PROVE  /\ Deeper(d, i) \in Seq(Lines)
         /\ \A x : (\E c \in DOMAIN Deeper(d, i) : x \in Range(Deeper(d, i)[c])) <=>
                   x \in Printed(d, i)
<1> DEFINE below == InOrder(Dumped(i))
           Below(k) == [e \in DOMAIN d[k] |-> <<Shown(i, k)>> \o d[k][e]]
<1>1. /\ DOMAIN below = 1 .. Len(below) /\ Len(below) \in Nat
      /\ \A c \in DOMAIN below : below[c] \in Dumped(i)
      /\ \A k \in Dumped(i) : \E c \in DOMAIN below : below[c] = k
  <2>1. below \in Seq(Dumped(i)) /\ Len(below) = Cardinality(Dumped(i))
    BY ListedAre, InOrderIs
  <2>2. DOMAIN below = 1 .. Cardinality(Dumped(i)) /\ Len(below) \in Nat
    BY <2>1, LenProperties
  <2>3. \A c \in DOMAIN below : below[c] \in Dumped(i)
    BY <2>1, <2>2, ElementOfSeq
  <2>4. \A k \in Dumped(i) : \E c \in 1 .. Cardinality(Dumped(i)) : below[c] = k
    BY ListedAre, InOrderIs
  <2> HIDE DEF below
  <2> QED
    BY <2>1, <2>2, <2>3, <2>4
<1>2. Deeper(d, i) = [c \in DOMAIN below |-> Below(below[c])]
  BY Zenon DEF Deeper
<1>3. ASSUME NEW k \in Dumped(i)
      PROVE  /\ Below(k) \in Lines
             /\ \A x : x \in Range(Below(k)) <=> \E y \in Range(d[k]) : x = <<Shown(i, k)>> \o y
  <2>1. PICK s \in Seq(Seq(Strings)) : s = d[k]
    BY <1>3 DEF Lines
  <2>2. PICK w \in Strings : w = Shown(i, k)
    BY ChildRest
  <2>3. <<w>> \in Seq(Strings)
    OBVIOUS
  <2>4. DOMAIN s = 1 .. Len(s) /\ Len(s) \in Nat
    BY LenProperties
  <2>5. \A e \in 1 .. Len(s) : <<w>> \o s[e] \in Seq(Strings)
    BY <2>3, <2>4, ElementOfSeq, ConcatProperties
  <2> DEFINE r == [e \in 1 .. Len(s) |-> <<w>> \o s[e]]
  <2>6. Below(k) = r
    BY <2>1, <2>2, <2>4
  <2>7. r \in Seq(Seq(Strings))
    BY <2>4, <2>5, IsASeq
  <2>8. \A x : x \in Range(r) <=> \E y \in Range(s) : x = <<w>> \o y
    BY <2>4 DEF Range
  <2> HIDE DEF r, Below
  <2> QED
    BY <2>1, <2>2, <2>6, <2>7, <2>8 DEF Lines
<1> HIDE DEF below, Below
<1>4. \A c \in 1 .. Len(below) : Below(below[c]) \in Lines
  BY <1>1, <1>3
<1>5. Deeper(d, i) \in Seq(Lines)
  BY <1>1, <1>2, <1>4, IsASeq
<1>6. DOMAIN Deeper(d, i) = DOMAIN below /\ \A c \in DOMAIN below : Deeper(d, i)[c] = Below(below[c])
  BY <1>2
<1>7. \A x : (\E c \in DOMAIN Deeper(d, i) : x \in Range(Deeper(d, i)[c])) <=>
             \E k \in Dumped(i) : x \in Range(Below(k))
  BY <1>1, <1>6
<1>8. ASSUME NEW x
      PROVE  (\E k \in Dumped(i) : x \in Range(Below(k))) <=>
                x \in Printed(d, i)
  <2>1. \A k \in Dumped(i) :
          x \in Range(Below(k)) <=> \E y \in Range(d[k]) : x = <<Shown(i, k)>> \o y
    BY <1>3
  <2>2. (\E k \in Dumped(i) : x \in Range(Below(k))) <=>
          \E k \in Dumped(i) : \E y \in Range(d[k]) : x = <<Shown(i, k)>> \o y
    BY <2>1, Zenon
  <2>3. x \in Printed(d, i) <=>
          \E k \in Dumped(i) : \E y \in Range(d[k]) : x = <<Shown(i, k)>> \o y
    BY PrintedAre
  <2> QED
    BY <2>2, <2>3, Zenon
<1> QED
  BY <1>5, <1>7, <1>8, Zenon

\* A dump is made of the dumps below.
LEMMA WholeIs ==
  ASSUME Generated, NEW i \in DOMAIN infoList, NEW d, \A k \in Dumped(i) : d[k] \in Lines
  PROVE  /\ Whole(d, i) \in Lines
         /\ Range(Tail(Whole(d, i))) = Printed(d, i)
         /\ Range(Whole(d, i)) = {<< >>} \cup Printed(d, i)
         /\ Tail(Whole(d, i)) = FlattenSeq(Deeper(d, i)) /\ FlattenSeq(Deeper(d, i)) \in Lines
<1> DEFINE X == Seq(Strings)
           first == << << >> >>
<1>1. PICK s : s = FlattenSeq(Deeper(d, i))
  OBVIOUS
<1>2. /\ s \in Seq(X)
      /\ \A x : x \in Range(s) <=> \E c \in DOMAIN Deeper(d, i) : x \in Range(Deeper(d, i)[c])
  BY <1>1, DeeperIs, FlattenIs DEF Lines
<1>3. first \in Seq(X) /\ Range(first) = {<< >>}
  BY EmptySeq DEF Range
<1>4. Whole(d, i) = first \o s
  BY <1>1 DEF Whole
<1>5. first \o s \in Seq(X) /\ Range(first \o s) = {<< >>} \cup Range(s)
  <2>1. first \o s \in Seq(X)
    BY <1>2, <1>3
  <2>2. Range(first \o s) = Range(first) \cup Range(s)
    <3> HIDE DEF first, X
    <3> QED
      BY <1>2, <1>3, RangeConcatenation
  <2> QED
    BY <1>3, <2>1, <2>2
<1>6. Tail(first \o s) = s
  <2> HIDE DEF X
  <2> QED
    BY <1>2, <1>3, HeadTailProperties, ConcatProperties, SeqEqual
<1>7. Whole(d, i) \in Lines /\ s \in Lines
  BY <1>2, <1>4, <1>5 DEF Lines
<1> HIDE DEF X, first
<1>8. Range(s) = Printed(d, i)
  <2>1. \A x : (\E c \in DOMAIN Deeper(d, i) : x \in Range(Deeper(d, i)[c])) <=>
               x \in Printed(d, i)
    BY DeeperIs
  <2> QED
    BY <1>2, <2>1
<1>9. Tail(Whole(d, i)) = s
  BY <1>4, <1>6
<1>10. Range(Whole(d, i)) = {<< >>} \cup Range(s)
  BY <1>4, <1>5
<1> QED
  BY <1>1, <1>7, <1>8, <1>9, <1>10

\* It depends on these only.
LEMMA WholeSame ==
  ASSUME Generated, NEW i \in DOMAIN infoList, NEW d, NEW e, \A k \in Dumped(i) : d[k] = e[k]
  PROVE  Whole(d, i) = Whole(e, i)
<1> DEFINE below == InOrder(Dumped(i))
           Below(f, k) == [j \in DOMAIN f[k] |-> <<Shown(i, k)>> \o f[k][j]]
<1>1. \A c \in DOMAIN below : below[c] \in Dumped(i)
  BY ListedAre, InOrderIs, LenProperties, ElementOfSeq
<1>2. \A k \in Dumped(i) : Below(d, k) = Below(e, k)
  OBVIOUS
<1>3. /\ Deeper(d, i) = [c \in DOMAIN below |-> Below(d, below[c])]
      /\ Deeper(e, i) = [c \in DOMAIN below |-> Below(e, below[c])]
  BY Zenon DEF Deeper
<1>4. Deeper(d, i) = Deeper(e, i)
  <2> HIDE DEF below, Below
  <2> QED
    BY <1>1, <1>2, <1>3
<1> QED
  BY <1>4 DEF Whole

\* What is printed below an entry comes after it.
LEMMA DumpedAfter ==
  ASSUME Generated, NEW i \in DOMAIN infoList, NEW k \in Dumped(i)
  PROVE  k \in i + 1 .. Len(infoList)
<1>1. PICK n \in Nat : n = Len(infoList) /\ DOMAIN infoList = 1 .. n
  BY EntriesAre
<1>2. k \in Following(i) /\ k \in 1 .. n
  BY <1>1, ListedAre DEF Listed, Dumped
<1>3. k > i
  <2>1. PICK last : Following(i) = i + 1 .. last
    BY DEF Following
  <2> QED
    BY <1>1, <1>2, <2>1
<1> QED
  BY <1>1, <1>2, <1>3

LEMMA DumpIs ==
  ASSUME Generated
  PROVE  /\ DumpInternal = [i \in DOMAIN infoList |-> Whole(DumpInternal, i)]
<1>1. PICK n \in Nat : n = Len(infoList) /\ DOMAIN infoList = 1 .. n
  BY EntriesAre
<1>2. \A i \in 1 .. n : \A k \in Dumped(i) : k \in i + 1 .. n
  BY <1>1, DumpedAfter
<1> DEFINE Good(m) == \E d \in [1 .. n -> Lines] : \A i \in m + 1 .. n : d[i] = Whole(d, i)
<1>3. Good(n)
  <2>1. [i \in 1 .. n |-> << >>] \in [1 .. n -> Lines]
    BY EmptySeq DEF Lines
  <2>2. \A i : i \notin n + 1 .. n
    OBVIOUS
  <2> QED
    BY <2>1, <2>2
<1>4. ASSUME NEW m \in 1 .. n, Good(m)
      PROVE  Good(m - 1)
  <2>1. PICK d \in [1 .. n -> Lines] : \A i \in m + 1 .. n : d[i] = Whole(d, i)
    BY <1>4
  <2> DEFINE e == [d EXCEPT ![m] = Whole(d, m)]
  <2>2. Whole(d, m) \in Lines
    BY <1>1, <1>2, WholeIs
  <2>3. e \in [1 .. n -> Lines]
    BY <2>2
  <2>4. ASSUME NEW i \in m - 1 + 1 .. n
        PROVE  e[i] = Whole(e, i)
    <3>1. i \in 1 .. n /\ (i # m => i \in m + 1 .. n)
      OBVIOUS
    <3>2. \A k \in Dumped(i) : e[k] = d[k]
      BY <1>2, <3>1
    <3>3. e[i] = Whole(d, i)
      BY <2>1, <3>1
    <3> HIDE DEF e
    <3> QED
      BY <1>1, <3>1, <3>2, <3>3, WholeSame
  <2> HIDE DEF e
  <2> QED
    BY <2>3, <2>4
<1> HIDE DEF Good
<1>5. Good(0)
  <2> DEFINE T == {m \in 0 .. n : Good(m)}
  <2>1. n \in T
    BY <1>3
  <2>2. PICK m \in T : \A j \in T : m <= j
    <3>1. T \subseteq Nat /\ T # {}
      BY <2>1
    <3> HIDE DEF T
    <3> QED
      BY <3>1, LeastNumber
  <2>3. ASSUME m # 0
        PROVE  FALSE
    <3>1. m \in 1 .. n /\ m - 1 \in 0 .. n /\ ~(m <= m - 1)
      BY <2>3
    <3>2. m - 1 \in T
      BY <1>4, <3>1
    <3> HIDE DEF T
    <3> QED
      BY <2>2, <3>1, <3>2
  <2> QED
    BY <2>3
<1>6. PICK d \in [1 .. n -> Lines] : \A i \in 1 .. n : d[i] = Whole(d, i)
  BY <1>5 DEF Good
<1>7. d = [i \in 1 .. n |-> Whole(d, i)]
  BY <1>6
<1>8. DumpInternal = CHOOSE f : f = [i \in DOMAIN infoList |-> Whole(f, i)]
  BY Zenon DEF DumpInternal, Whole, Deeper
<1> QED
  BY <1>1, <1>7, <1>8

LEMMA FrontOfNames ==
  ASSUME NEW X, NEW s \in Seq(X), NEW t \in Seq(X)
  PROVE  IsPrefix(s, t) <=> Len(s) <= Len(t) /\ \A j \in 1 .. Len(s) : s[j] = t[j]
<1>1. PICK a \in Nat : a = Len(s) /\ DOMAIN s = 1 .. a
  OBVIOUS
<1>2. PICK b \in Nat : b = Len(t)
  OBVIOUS
<1>3. CASE a <= b
  <2>1. /\ SubSeq(t, 1, a) \in Seq(X) /\ Len(SubSeq(t, 1, a)) = a
        /\ \A j \in 1 .. a : SubSeq(t, 1, a)[j] = t[j]
    BY <1>2, <1>3
  <2>2. s = SubSeq(t, 1, a) <=> \A j \in 1 .. a : s[j] = t[j]
    BY <1>1, <2>1, SeqEqual
  <2>3. SubSeq(s, 1, a) = s
    <3>1. /\ SubSeq(s, 1, a) \in Seq(X) /\ Len(SubSeq(s, 1, a)) = a
          /\ \A j \in 1 .. a : SubSeq(s, 1, a)[j] = s[j]
      BY <1>1
    <3> QED
      BY <1>1, <3>1, SeqEqual
  <2> QED
    BY <1>1, <1>2, <1>3, <2>2, <2>3 DEF IsPrefix
<1>4. CASE ~(a <= b)
  BY <1>1, <1>2, <1>4 DEF IsPrefix
<1> QED
  BY <1>3, <1>4

\* On the way down the names are joined.
LEMMA RestSteps ==
  ASSUME Generated, NEW i \in DOMAIN infoList, NEW k \in Dumped(i),
         NEW l \in DOMAIN infoList, IsPrefix(N(k), N(l))
  PROVE  IsPrefix(N(i), N(l)) /\ <<Shown(i, k)>> \o Rest(k, l) = Rest(i, l)
<1>1. /\ k \in DOMAIN infoList /\ Len(N(k)) = Len(N(i)) + 1 /\ IsPrefix(N(i), N(k))
      /\ Shown(i, k) \in Strings /\ Shown(i, k) = N(k)[Len(N(k))]
  BY ChildRest, ChildIs DEF IsStrictPrefix
<1>2. PICK a \in Nat : a = Len(N(i)) /\ a + 1 = Len(N(k))
  BY <1>1, RestIs
<1>3. PICK b \in Nat : b = Len(N(l)) /\ a + 1 <= b
  BY <1>1, <1>2, RestIs
<1>4. PICK w \in Strings : w = Shown(i, k) /\ w = N(k)[a + 1]
  BY <1>1, <1>2
<1>5. PICK r \in Seq(Strings) : r = Rest(k, l) /\ Len(r) = b - (a + 1)
  <2>1. Rest(k, l) \in Seq(Strings) /\ Len(Rest(k, l)) = Len(N(l)) - Len(N(k))
    BY <1>1, RestIs
  <2> QED
    BY <1>2, <1>3, <2>1
<1>6. \A j \in 1 .. b - (a + 1) : r[j] = N(l)[a + 1 + j]
  <2>1. \A j \in 1 .. Len(N(l)) - Len(N(k)) : Rest(k, l)[j] = N(l)[Len(N(k)) + j]
    BY <1>1, RestIs
  <2> QED
    BY <1>2, <1>3, <1>5, <2>1
<1>7. (\A j \in 1 .. a : N(i)[j] = N(k)[j]) /\ \A j \in 1 .. a + 1 : N(k)[j] = N(l)[j]
  <2>1. \A j \in 1 .. Len(N(i)) : N(i)[j] = N(k)[j]
    BY <1>1, RestIs
  <2>2. \A j \in 1 .. Len(N(k)) : N(k)[j] = N(l)[j]
    BY <1>1, RestIs
  <2> QED
    BY <1>2, <2>1, <2>2
<1>8. \A j \in 1 .. a : N(i)[j] = N(l)[j]
  BY <1>7
<1>9. N(i) \in Seq(Strings) /\ N(l) \in Seq(Strings)
  BY <1>1, RestIs
<1>10. IsPrefix(N(i), N(l))
  <2>1. a <= b
    BY <1>3
  <2> QED
    BY <1>2, <1>3, <1>8, <1>9, <2>1, FrontOfNames
<1>11. PICK s \in Seq(Strings) : s = Rest(i, l) /\ Len(s) = b - a
  BY <1>2, <1>3, <1>10, RestIs
<1>12. \A j \in 1 .. b - a : s[j] = N(l)[a + j]
  BY <1>2, <1>3, <1>10, <1>11, RestIs
<1>13. PICK t : t = <<w>> \o r
  OBVIOUS
<1>14. /\ t \in Seq(Strings) /\ Len(t) = b - a
       /\ \A j \in 1 .. b - a : t[j] = IF j = 1 THEN w ELSE r[j - 1]
  <2>1. <<w>> \in Seq(Strings) /\ Len(<<w>>) = 1 /\ <<w>>[1] = w
    OBVIOUS
  <2> HIDE DEF Strings
  <2>2. /\ t \in Seq(Strings) /\ Len(t) = 1 + Len(r)
        /\ \A j \in 1 .. 1 + Len(r) : t[j] = IF j <= 1 THEN <<w>>[j] ELSE r[j - 1]
    BY <1>13, <2>1, ConcatProperties
  <2>3. 1 + Len(r) = b - a
    BY <1>3, <1>5
  <2> QED
    BY <2>1, <2>2, <2>3
<1>15. ASSUME NEW j \in 1 .. b - a
       PROVE  t[j] = s[j]
  <2>1. CASE j = 1
    BY <1>4, <1>7, <1>12, <1>14, <2>1
  <2>2. CASE j # 1
    <3>1. j - 1 \in 1 .. b - (a + 1) /\ a + 1 + (j - 1) = a + j
      BY <1>3, <2>2
    <3>2. r[j - 1] = N(l)[a + j]
      BY <1>6, <3>1
    <3>3. t[j] = r[j - 1]
      BY <1>14, <2>2
    <3>4. s[j] = N(l)[a + j]
      BY <1>12
    <3> QED
      BY <3>2, <3>3, <3>4
  <2> QED
    BY <2>1, <2>2
<1>16. t = s
  <2> HIDE DEF Strings
  <2>1. Len(t) = Len(s)
    BY <1>11, <1>14
  <2>2. \A j \in 1 .. Len(t) : t[j] = s[j]
    BY <1>14, <1>15
  <2>3. t \in Seq(Strings) /\ s \in Seq(Strings)
    BY <1>11, <1>14
  <2> QED
    BY <2>1, <2>2, <2>3, SeqEqual
<1> QED
  BY <1>4, <1>5, <1>10, <1>11, <1>13, <1>16

\* Every entry further down is reached through a child.
LEMMA ThroughChild ==
  ASSUME Generated, NEW i \in DOMAIN infoList, NEW l \in DOMAIN infoList,
         IsPrefix(N(i), N(l)), l # i
  PROVE  \E k \in Dumped(i) : IsPrefix(N(k), N(l))
<1>1. N(i) # N(l)
  BY EntryNames
<1>2. PICK a \in Nat : a = Len(N(i))
  BY RestIs
<1>3. PICK b \in Nat : b = Len(N(l)) /\ a <= b
  BY <1>2, RestIs
<1>4. PICK s \in Seq(Strings) : s = N(i) /\ Len(s) = a
  BY <1>2, RestIs
<1>5. PICK t \in Seq(Strings) : t = N(l) /\ Len(t) = b
  BY <1>3, RestIs
<1>6. \A j \in 1 .. a : s[j] = t[j]
  BY <1>2, <1>4, <1>5, RestIs
<1>7. a < b
  <2>1. a # b
    BY <1>1, <1>4, <1>5, <1>6, SeqEqual
  <2> QED
    BY <1>3, <2>1
<1>8. /\ SubSeq(t, 1, a + 1) \in Seq(Strings) /\ Len(SubSeq(t, 1, a + 1)) = a + 1
      /\ \A j \in 1 .. a + 1 : SubSeq(t, 1, a + 1)[j] = t[j]
  <2> HIDE DEF Strings
  <2> QED
    BY <1>5, <1>7
<1>9. PICK k \in DOMAIN infoList : N(k) = SubSeq(t, 1, a + 1)
  <2>1. CASE a + 1 < b
    BY <1>3, <1>5, <2>1, FrontsAreLists
  <2>2. CASE a + 1 = b
    <3>1. SubSeq(t, 1, a + 1) = t
      BY <1>5, <1>8, <2>2, SeqEqual
    <3> QED
      BY <1>5, <3>1
  <2> QED
    BY <1>7, <2>1, <2>2
<1>10. PICK u \in Seq(Strings) : u = N(k) /\ Len(u) = a + 1 /\ \A j \in 1 .. a + 1 : u[j] = t[j]
  BY <1>8, <1>9
<1>11. IsPrefix(u, t)
  <2>1. a + 1 <= b
    BY <1>7
  <2> QED
    BY <1>5, <1>10, <2>1, FrontOfNames
<1>12. IsPrefix(s, u)
  <2>1. a <= a + 1 /\ \A j \in 1 .. a : s[j] = u[j]
    BY <1>6, <1>10
  <2> QED
    BY <1>4, <1>10, <2>1, FrontOfNames
<1>13. s # u
  BY <1>4, <1>10
<1>14. k \in Dumped(i)
  BY <1>2, <1>4, <1>10, <1>12, <1>13, ChildIs DEF IsStrictPrefix
<1> QED
  BY <1>5, <1>10, <1>11, <1>14

Reached(i) == {Rest(i, k) : k \in {j \in DOMAIN infoList : IsPrefix(N(i), N(j))}}

LEMMA RestOfSelf ==
  ASSUME Generated, NEW i \in DOMAIN infoList
  PROVE  /\ IsPrefix(N(i), N(i)) /\ Rest(i, i) = << >>
         /\ \A k \in DOMAIN infoList : IsPrefix(N(i), N(k)) /\ k # i => Rest(i, k) # << >>
<1>1. N(i) \in Seq(Strings)
  BY EntriesAre, NamesSeq DEF N
<1>2. PICK a \in Nat : a = Len(N(i))
  BY <1>1
<1>3. IsPrefix(N(i), N(i))
  BY <1>1, <1>2, FrontOfNames
<1>4. Rest(i, i) = << >>
  <2>1. PICK r \in Seq(Strings) : r = Rest(i, i) /\ Len(r) = a - a
    BY <1>2, <1>3, RestIs
  <2>2. Len(r) = 0
    BY <2>1
  <2> QED
    BY <2>1, <2>2, EmptySeq
<1>5. ASSUME NEW k \in DOMAIN infoList, IsPrefix(N(i), N(k)), k # i, Rest(i, k) = << >>
      PROVE  FALSE
  <2>1. N(i) # N(k)
    BY <1>5, EntryNames
  <2>2. PICK b \in Nat : b = Len(N(k)) /\ a <= b
    BY <1>2, <1>5, RestIs
  <2>3. b - a = 0
    BY <1>2, <1>5, <2>2, RestIs, EmptySeq
  <2>4. b = a
    BY <2>3
  <2>5. N(k) \in Seq(Strings) /\ \A j \in 1 .. a : N(i)[j] = N(k)[j]
    BY <1>2, <1>5, RestIs
  <2> QED
    BY <1>1, <1>2, <2>1, <2>2, <2>4, <2>5, SeqEqual
<1> QED
  BY <1>3, <1>4, <1>5

\* A dump reaches the entries that are further down, and no other.
LEMMA DumpReaches ==
  ASSUME Generated, NEW i \in DOMAIN infoList
  PROVE  DumpInternal[i] \in Lines /\ Range(DumpInternal[i]) = Reached(i)
<1>1. PICK n \in Nat : n = Len(infoList) /\ DOMAIN infoList = 1 .. n
  BY EntriesAre
<1> DEFINE Right(j) == DumpInternal[j] \in Lines /\ Range(DumpInternal[j]) = Reached(j)
<1>2. ASSUME NEW j \in 1 .. n, \A k \in Dumped(j) : Right(k)
      PROVE  Right(j)
  <2>1. DumpInternal[j] = Whole(DumpInternal, j)
    BY <1>1, DumpIs
  <2>2. DumpInternal[j] \in Lines /\ Range(DumpInternal[j]) = {<< >>} \cup Printed(DumpInternal, j)
    BY <1>1, <1>2, <2>1, WholeIs
  <2>3. ASSUME NEW x \in Printed(DumpInternal, j)
        PROVE  x \in Reached(j)
    <3>1. PICK k \in Dumped(j) : \E y \in Range(DumpInternal[k]) : x = <<Shown(j, k)>> \o y
      BY PrintedAre
    <3>2. PICK y \in Reached(k) : x = <<Shown(j, k)>> \o y
      BY <1>2, <3>1
    <3>3. PICK l \in DOMAIN infoList : IsPrefix(N(k), N(l)) /\ y = Rest(k, l)
      BY DEF Reached
    <3>4. IsPrefix(N(j), N(l)) /\ x = Rest(j, l)
      BY <1>1, <3>2, <3>3, RestSteps
    <3> QED
      BY <3>4 DEF Reached
  <2>4. << >> \in Reached(j)
    BY <1>1, RestOfSelf DEF Reached
  <2>5. ASSUME NEW x \in Reached(j), x # << >>
        PROVE  x \in Printed(DumpInternal, j)
    <3>1. PICK l \in DOMAIN infoList : IsPrefix(N(j), N(l)) /\ x = Rest(j, l)
      BY DEF Reached
    <3>2. l # j
      BY <1>1, <2>5, <3>1, RestOfSelf
    <3>3. PICK k \in Dumped(j) : IsPrefix(N(k), N(l))
      BY <1>1, <3>1, <3>2, ThroughChild
    <3>4. Rest(k, l) \in Reached(k)
      BY <3>3 DEF Reached
    <3>5. Rest(k, l) \in Range(DumpInternal[k]) /\ x = <<Shown(j, k)>> \o Rest(k, l)
      BY <1>1, <1>2, <3>1, <3>3, <3>4, RestSteps
    <3> QED
      BY <3>5, PrintedAre
  <2> QED
    BY <2>2, <2>3, <2>4, <2>5
<1>3. \A j \in 1 .. n : \A k \in Dumped(j) : k \in j + 1 .. n
  BY <1>1, DumpedAfter
<1> HIDE DEF Right
<1> DEFINE T == {m \in 0 .. n : \A j \in m + 1 .. n : Right(j)}
<1>4. n \in T
  OBVIOUS
<1>5. PICK m \in T : \A j \in T : m <= j
  <2>1. T \subseteq Nat /\ T # {}
    BY <1>4
  <2> HIDE DEF T
  <2> QED
    BY <2>1, LeastNumber
<1>6. ASSUME m # 0
      PROVE  FALSE
  <2>1. m \in 1 .. n /\ m - 1 \in 0 .. n /\ ~(m <= m - 1)
    BY <1>6
  <2>2. \A j \in m + 1 .. n : Right(j)
    OBVIOUS
  <2>3. Right(m)
    BY <1>2, <1>3, <2>1, <2>2
  <2>4. \A j \in m - 1 + 1 .. n : j = m \/ j \in m + 1 .. n
    BY <2>1
  <2>5. m - 1 \in T
    BY <2>1, <2>2, <2>3, <2>4
  <2> HIDE DEF T
  <2> QED
    BY <1>5, <2>1, <2>5
<1>7. \A j \in 1 .. n : Right(j)
  BY <1>6
<1> QED
  BY <1>1, <1>7 DEF Right

LEMMA DumpMaps ==
  ASSUME Generated, Still, NEW p \in Paths, Dump(p)
  PROVE  Device!Dump(NamesOf[p]) /\ Mapped'.path = NamesOf[p] /\ ended' = ended
<1>1. UNCHANGED <<values, monitorState, ended>>
  BY DEF Dump
<1>2. Held' = Held /\ ended' = ended
  BY <1>1, HeldStays
<1>3. CASE IsA(p, "LIST")
  <2>1. PICK i \in DOMAIN infoList : i = FindInfo(p) /\ NamesOf[p] = N(i)
    BY <1>3, LookupIs DEF IsA
  <2>2. Succeeds("DUMP", p, "none", Tail(DumpInternal[i]))
    BY <1>3, <2>1 DEF Dump
  <2>3. /\ Device!Succeeds("DUMP", NamesOf[p], "none", Range(Tail(DumpInternal[i])))
        /\ Mapped'.path = NamesOf[p]
    BY <2>2, AnswerMaps
  <2>4. Range(Tail(DumpInternal[i])) = Device!Below(N(i))
    <3>1. \A k \in Dumped(i) : DumpInternal[k] \in Lines
      BY ListedAre, DumpReaches
    <3>2. DumpInternal[i] = Whole(DumpInternal, i)
      BY DumpIs
    <3>3. /\ Range(Tail(DumpInternal[i])) = Printed(DumpInternal, i)
          /\ Reached(i) = {<< >>} \cup Printed(DumpInternal, i)
      BY <3>1, <3>2, WholeIs, DumpReaches
    <3>4. << >> \notin Printed(DumpInternal, i)
      <4>1. ASSUME << >> \in Printed(DumpInternal, i)
            PROVE  FALSE
        <5>1. PICK k \in Dumped(i) : \E y \in Range(DumpInternal[k]) : << >> = <<Shown(i, k)>> \o y
          BY <4>1, PrintedAre
        <5>2. k \in DOMAIN infoList
          BY ListedAre
        <5>3. PICK y \in Reached(k) : << >> = <<Shown(i, k)>> \o y
          BY <5>1, <5>2, DumpReaches
        <5>4. PICK l \in DOMAIN infoList : IsPrefix(N(k), N(l)) /\ y = Rest(k, l)
          BY DEF Reached
        <5>5. Rest(i, l) = << >> /\ IsPrefix(N(i), N(l))
          BY <5>3, <5>4, RestSteps
        <5>6. l = i
          BY <5>5, RestOfSelf
        <5>7. Len(N(k)) <= Len(N(i)) /\ Len(N(k)) = Len(N(i)) + 1 /\ Len(N(i)) \in Nat
          BY <5>2, <5>4, <5>6, RestIs, ChildRest
        <5> QED
          BY <5>7
      <4> QED
        BY <4>1
    <3>5. \A k \in DOMAIN infoList :
            IsStrictPrefix(N(i), N(k)) <=> IsPrefix(N(i), N(k)) /\ Rest(i, k) # << >>
      <4>1. ASSUME NEW k \in DOMAIN infoList
            PROVE  IsStrictPrefix(N(i), N(k)) <=> IsPrefix(N(i), N(k)) /\ Rest(i, k) # << >>
        <5>1. N(i) = N(k) <=> i = k
          BY EntryNames
        <5> QED
          BY <5>1, RestOfSelf DEF IsStrictPrefix
      <4> QED
        BY <4>1
    <3>6. Device!Below(N(i)) = Reached(i) \ {<< >>}
      <4>1. Device!Below(N(i)) =
              {Rest(i, k) : k \in {j \in DOMAIN infoList : IsStrictPrefix(N(i), N(j))}}
        BY BelowAre
      <4> QED
        BY <3>5, <4>1 DEF Reached
    <3> QED
      BY <3>3, <3>4, <3>6
  <2>5. Device!Has(NamesOf[p], {"list"})
    BY <1>3, HasIs
  <2> QED
    BY <1>2, <2>1, <2>3, <2>4, <2>5 DEF Device!Dump
<1>4. CASE ~IsA(p, "LIST")
  <2>1. Fails("DUMP", p)
    BY <1>4 DEF Dump
  <2>2. ~Device!Has(NamesOf[p], {"list"})
    BY <1>4, HasIs
  <2> QED
    BY <1>2, <2>1, <2>2, AnswerMaps DEF Device!Dump
<1> QED
  BY <1>3, <1>4

LEMMA StartMaps == Init => Device!Init
<1> SUFFICES ASSUME Init
             PROVE  Device!Init
  OBVIOUS
<1>1. Generated
  BY StartsGenerated
<1>2. 1 \in DOMAIN infoList /\ N(1) = << >>
  BY <1>1, EntriesAre, RootHasNoNames DEF N
<1>3. << >> \in Device!Objects
  BY <1>1, <1>2, MeantIs DEF Device!Objects
<1>4. ASSUME NEW x \in Device!Objects, NEW n \in 0 .. Len(x) - 1
      PROVE  Device!Has(SubSeq(x, 1, n), {"list"})
  <2>1. PICK k \in DOMAIN infoList : x = N(k)
    BY <1>1, <1>4, MeantIs DEF Device!Objects
  <2>2. Len(N(k)) \in Nat
    BY <1>1, EntriesAre, NamesSeq DEF N
  <2>3. n \in Nat /\ n < Len(N(k))
    BY <1>4, <2>1, <2>2
  <2>4. PICK j \in DOMAIN infoList : infoList[j].type = "LIST" /\ N(j) = SubSeq(N(k), 1, n)
    BY <1>1, <2>3, FrontsAreLists
  <2>5. N(j) \in DOMAIN meant /\ meant[N(j)] = "list"
    BY <1>1, <2>4, MeantIs DEF EntryKind
  <2> QED
    BY <2>1, <2>4, <2>5 DEF Device!Has, Device!Objects
<1>5. Held = [x \in Device!Objects |->
                IF meant[x] \in Device!Property THEN CHOOSE v \in Value : TRUE
                ELSE IF meant[x] = "monitor" THEN "off" ELSE "none"]
  <2> DEFINE First(x) == IF meant[x] \in Property THEN CHOOSE v \in Value : TRUE
                         ELSE IF meant[x] = "monitor" THEN "off" ELSE "none"
  <2>1. ASSUME NEW x \in DOMAIN meant
        PROVE  Held[x] = First(x)
    <3>1. PICK k \in DOMAIN infoList : x = N(k)
      BY <1>1, MeantIs
    <3>2. Held[x] = HeldAt(k, values, monitorState)
      BY <1>1, <3>1, HeldIs, HeldIsFrom
    <3>3. meant[x] = EntryKind(infoList[k])
      BY <1>1, <3>1, MeantIs
    <3>4. infoList[k].type = "PROPERTY" => values[infoList[k].index] = CHOOSE v \in Value : TRUE
      <4>1. infoList[k].type = "PROPERTY" => infoList[k].index \in DOMAIN tables["PROPERTY"]
        BY <1>1, KindsAre
      <4>2. values = [i \in DOMAIN tables["PROPERTY"] |-> CHOOSE v \in Value : TRUE]
        BY DEF Init
      <4> QED
        BY <4>1, <4>2
    <3>5. infoList[k].type = "MONITOR" => monitorState[infoList[k].index] = FALSE
      <4>1. infoList[k].type = "MONITOR" => infoList[k].index \in DOMAIN tables["MONITOR"]
        BY <1>1, KindsAre
      <4>2. monitorState = [i \in DOMAIN tables["MONITOR"] |-> FALSE]
        BY DEF Init
      <4> QED
        BY <4>1, <4>2
    <3>6. /\ infoList[k].type = "PROPERTY" <=> meant[x] \in Property
          /\ infoList[k].type = "MONITOR" <=> meant[x] = "monitor"
      BY <1>1, <3>3, KindsAre
    <3> QED
      BY <3>2, <3>4, <3>5, <3>6 DEF HeldAt
  <2>2. Held = [x \in DOMAIN meant |-> Held[x]]
    BY HeldIsFunction, HeldIsFrom
  <2>3. Held = [x \in DOMAIN meant |-> First(x)]
    <3> HIDE DEF First
    <3> QED
      BY <2>1, <2>2
  <2> QED
    BY <2>3, SameProperty DEF Device!Objects
<1>6. Mapped = Device!Answer("none", << >>, "none", "none", {})
  <2>1. answer = Answer("none", Root, "none", "none", << >>)
    BY DEF Init
  <2>2. NamesOf[Root] = << >>
    BY PathsAre, RootHasNoNames
  <2>3. answer.path = Root /\ answer.entries = << >>
    BY <2>1 DEF Answer
  <2>4. Mapped = [Answer("none", Root, "none", "none", << >>) EXCEPT !.path = << >>, !.entries = {}]
    BY <2>1, <2>2, <2>3, NoEntries DEF Mapped
  <2> QED
    BY <2>4 DEF Answer, Device!Answer
<1>7. ended = FALSE
  BY DEF Init
<1> QED
  BY <1>3, <1>4, <1>5, <1>6, <1>7 DEF Device!Init, Mapped

\* A request of the program is one of the tree of objects.
LEMMA StepMaps == TypeOK /\ Generated /\ Next => Device!Next
<1> SUFFICES ASSUME TypeOK, Generated, Next
             PROVE  Device!Next
  OBVIOUS
<1>1. ~ended /\ Still
  BY DEF Next, Still
<1>2. PICK p \in {infoList[i].path : i \in DOMAIN infoList} \cup Missing : Request(p)
  BY DEF Next
<1>3. p \in Paths
  BY <1>2, EntriesAre DEF Paths
<1>4. meant' = meant
  BY <1>1 DEF Still
<1>5. SUFFICES \/ Device!Request(NamesOf[p]) /\ Mapped'.path = NamesOf[p]
               \/ \E x \in Device!Objects : Device!SetReadOnly(x)
  BY <1>1, <1>4 DEF Device!Next, Mapped
<1>6. CASE PropertyGet(p)
  BY <1>1, <1>3, <1>6, GetMaps DEF Device!Request
<1>7. CASE \E v \in Value \cup {WrongType} : PropertySet(p, v)
  <2>1. PICK v \in Value \cup {WrongType} : PropertySet(p, v)
    BY <1>7
  <2>2. \/ Device!Set(NamesOf[p], v) /\ Mapped'.path = NamesOf[p]
        \/ Device!SetReadOnly(NamesOf[p]) /\ NamesOf[p] \in DOMAIN meant
    BY <1>1, <1>3, <2>1, SetMaps
  <2> QED
    BY <2>2 DEF Device!Request, Device!Objects
<1>8. CASE \E n \in 0 .. MaxValues : CallFunction(p, n)
  <2>1. PICK n \in 0 .. MaxValues : CallFunction(p, n)
    BY <1>8
  <2>2. Device!Call(NamesOf[p], n) /\ Mapped'.path = NamesOf[p]
    BY <1>1, <1>3, <2>1, CallMaps
  <2> QED
    BY <2>2 DEF Device!Request
<1>9. CASE Info(p)
  BY <1>1, <1>3, <1>9, InfoMaps DEF Device!Request
<1>10. CASE List(p)
  BY <1>1, <1>3, <1>10, ListMaps DEF Device!Request
<1>11. CASE Dump(p)
  BY <1>1, <1>3, <1>11, DumpMaps DEF Device!Request
<1>12. CASE MonitorEnable(p, "ENABLE", TRUE)
  BY <1>1, <1>3, <1>12, MonitorMaps DEF Device!Request
<1>13. CASE MonitorEnable(p, "DISABLE", FALSE)
  BY <1>1, <1>3, <1>13, MonitorMaps DEF Device!Request
<1> QED
  BY <1>2, <1>6, <1>7, <1>8, <1>9, <1>10, <1>11, <1>12, <1>13 DEF Request

LEMMA StutterMaps == UNCHANGED vars => UNCHANGED Device!vars
<1> SUFFICES ASSUME UNCHANGED vars
             PROVE  UNCHANGED Device!vars
  OBVIOUS
<1>1. Still /\ values' = values /\ monitorState' = monitorState /\ answer' = answer /\ ended' = ended
  BY DEF vars, Still
<1>2. Held' = Held
  BY <1>1, HeldStays
<1>3. Mapped' = Mapped
  BY <1>1 DEF Mapped
<1> QED
  BY <1>1, <1>2, <1>3 DEF Device!vars, Mapped, Still

\* Whatever an automation file defines, in whatever order and however the names
\* extend one another, the server generated for it keeps the promises of Device:
\* INFO_LIST and its binary comparisons lead every request to the object that it
\* names, a listing has every child and a dump everything below and nothing
\* else (generate_automation_defines.py:450-609, automation_functions.c:193-636).
THEOREM MakesTheTree == Spec => RefinesDevice
<1>1. Init => TypeOK /\ Generated
  BY StartsTyped, StartsGenerated
<1>2. TypeOK /\ Generated /\ [Next]_vars => (TypeOK /\ Generated)'
  BY KeepsTyped, KeepsGenerated
<1>3. TypeOK /\ Generated /\ [Next]_vars => [Device!Next]_(Device!vars)
  BY StepMaps, StutterMaps
<1> QED
  BY <1>1, <1>2, <1>3, StartMaps, PTL DEF Spec, RefinesDevice, Device!Spec


-----------------------------------------------------------------------------
(* What a walk prints, and how often.                                       *)

\* An entry below another one is told by the names in between.
LEMMA RestTells ==
  ASSUME Generated, NEW i \in DOMAIN infoList, NEW k \in DOMAIN infoList, NEW l \in DOMAIN infoList,
         IsPrefix(N(i), N(k)), IsPrefix(N(i), N(l)), Rest(i, k) = Rest(i, l)
  PROVE  k = l
<1>1. PICK a \in Nat : a = Len(N(i))
  BY RestIs
<1>2. PICK b \in Nat : b = Len(N(k)) /\ a <= b
  BY <1>1, RestIs
<1>3. PICK c \in Nat : c = Len(N(l)) /\ a <= c
  BY <1>1, RestIs
<1>4. b = c
  <2>1. b - a = c - a
    BY <1>1, <1>2, <1>3, RestIs
  <2> QED
    BY <2>1
<1>5. PICK s \in Seq(Strings) : s = N(k) /\ Len(s) = b
  BY <1>2, RestIs
<1>6. PICK t \in Seq(Strings) : t = N(l) /\ Len(t) = b
  BY <1>3, <1>4, RestIs
<1>7. ASSUME NEW j \in 1 .. b
      PROVE  s[j] = t[j]
  <2>1. CASE j \in 1 .. a
    <3>1. N(i)[j] = N(k)[j] /\ N(i)[j] = N(l)[j]
      BY <1>1, <2>1, RestIs
    <3> QED
      BY <1>5, <1>6, <3>1
  <2>2. CASE j \notin 1 .. a
    <3>1. j - a \in 1 .. b - a /\ a + (j - a) = j
      BY <2>2
    <3>2. Rest(i, k)[j - a] = N(k)[a + (j - a)]
      BY <1>1, <1>2, <3>1, RestIs
    <3>3. Rest(i, l)[j - a] = N(l)[a + (j - a)]
      BY <1>1, <1>3, <1>4, <3>1, RestIs
    <3> QED
      BY <1>5, <1>6, <3>1, <3>2, <3>3
  <2> QED
    BY <2>1, <2>2
<1>8. s = t
  <2> HIDE DEF Strings
  <2>1. Len(s) = Len(t) /\ \A j \in 1 .. Len(s) : s[j] = t[j]
    BY <1>5, <1>6, <1>7
  <2> QED
    BY <2>1, SeqEqual
<1> QED
  BY <1>5, <1>6, <1>8, EntryNames

LEMMA ChildrenDiffer ==
  ASSUME Generated, NEW i \in DOMAIN infoList, NEW k \in Dumped(i), NEW l \in Dumped(i),
         Shown(i, k) = Shown(i, l)
  PROVE  k = l
<1>1. k \in DOMAIN infoList /\ l \in DOMAIN infoList /\ Rest(i, k) = Rest(i, l)
  BY ChildRest
<1>2. IsPrefix(N(i), N(k)) /\ IsPrefix(N(i), N(l))
  BY ChildRest DEF IsStrictPrefix
<1> QED
  BY <1>1, <1>2, RestTells

\* A sequence is told by its first element and the rest.
LEMMA FirstTells ==
  ASSUME NEW X, NEW v \in X, NEW w \in X, NEW x \in Seq(X), NEW y \in Seq(X),
         <<v>> \o x = <<w>> \o y
  PROVE  v = w /\ x = y
<1>1. PICK r : r = <<v>> \o x
  OBVIOUS
<1>2. /\ <<v>> \in Seq(X) /\ Len(<<v>>) = 1 /\ <<v>>[1] = v
      /\ <<w>> \in Seq(X) /\ Len(<<w>>) = 1 /\ <<w>>[1] = w
  OBVIOUS
<1>3. PICK a \in Nat : a = Len(x)
  BY LenProperties
<1>4. PICK b \in Nat : b = Len(y)
  BY LenProperties
<1>5. Len(r) = 1 + a /\ \A j \in 1 .. 1 + a : r[j] = IF j <= 1 THEN <<v>>[j] ELSE x[j - 1]
  BY <1>1, <1>2, <1>3, ConcatProperties
<1>6. Len(r) = 1 + b /\ \A j \in 1 .. 1 + b : r[j] = IF j <= 1 THEN <<w>>[j] ELSE y[j - 1]
  BY <1>1, <1>2, <1>4, ConcatProperties
<1>7. v = w /\ a = b
  <2>1. 1 \in 1 .. 1 + a /\ 1 \in 1 .. 1 + b
    OBVIOUS
  <2> QED
    BY <1>2, <1>5, <1>6, <2>1
<1>8. ASSUME NEW j \in 1 .. a
      PROVE  x[j] = y[j]
  <2>1. j + 1 \in 1 .. 1 + a /\ ~(j + 1 <= 1) /\ j + 1 - 1 = j
    OBVIOUS
  <2>2. r[j + 1] = x[j + 1 - 1] /\ r[j + 1] = y[j + 1 - 1]
    BY <1>5, <1>6, <1>7, <2>1
  <2> QED
    BY <2>1, <2>2
<1> QED
  BY <1>3, <1>4, <1>7, <1>8, SeqEqual

\* What follows the same first element is the same.
LEMMA Cancels ==
  ASSUME NEW X
  PROVE  \A w \in X : \A x, y \in Seq(X) : <<w>> \o x = <<w>> \o y => x = y
BY FirstTells

\* Nothing comes twice in what is printed below an entry, if nothing does further down.
LEMMA DeeperInjective ==
  ASSUME Generated, NEW i \in DOMAIN infoList, NEW d,
         \A k \in Dumped(i) : d[k] \in Lines /\ IsInjective(d[k])
  PROVE  IsInjective(FlattenSeq(Deeper(d, i)))
<1> DEFINE below == InOrder(Dumped(i))
           Below(k) == [e \in DOMAIN d[k] |-> <<Shown(i, k)>> \o d[k][e]]
           X == Seq(Strings)
<1>1. \A c \in DOMAIN below : below[c] \in Dumped(i)
  BY ListedAre, InOrderIs, LenProperties, ElementOfSeq
<1>2. \A c, e \in DOMAIN below : below[c] = below[e] => c = e
  <2>1. PICK n \in Nat : n = Cardinality(Dumped(i)) /\ DOMAIN below = 1 .. n
    BY ListedAre, InOrderIs, LenProperties
  <2>2. \A c, e \in 1 .. n : c < e => below[c] < below[e]
    BY <2>1, ListedAre, InOrderIs
  <2>3. \A c \in 1 .. n : below[c] \in Nat
    BY <1>1, <2>1, ListedAre
  <2> HIDE DEF below
  <2> QED
    BY <2>1, <2>2, <2>3
<1>3. Deeper(d, i) = [c \in DOMAIN below |-> Below(below[c])]
  BY Zenon DEF Deeper
<1>4. ASSUME NEW k \in Dumped(i)
      PROVE  /\ IsInjective(Below(k))
             /\ \A x \in Range(Below(k)) : \E y \in X : x = <<Shown(i, k)>> \o y
  <2>1. PICK s \in Seq(X) : s = d[k] /\ IsInjective(s)
    BY <1>4 DEF Lines
  <2>2. PICK w \in Strings : w = Shown(i, k)
    BY ChildRest
  <2>3. DOMAIN s = 1 .. Len(s) /\ \A e \in DOMAIN s : s[e] \in X
    BY LenProperties, ElementOfSeq
  <2> DEFINE r == [e \in DOMAIN s |-> <<w>> \o s[e]]
  <2>4. Below(k) = r
    BY <2>1, <2>2
  <2> HIDE DEF X, Strings
  <2>5. ASSUME NEW a \in DOMAIN r, NEW b \in DOMAIN r, r[a] = r[b]
        PROVE  a = b
    <3>1. a \in DOMAIN s /\ b \in DOMAIN s /\ <<w>> \o s[a] = <<w>> \o s[b]
      BY <2>5
    <3>2. PICK x, y \in X : x = s[a] /\ y = s[b]
      BY <2>3, <3>1
    <3>3. <<w>> \o x = <<w>> \o y
      BY <3>1, <3>2
    <3>4. x \in Seq(Strings) /\ y \in Seq(Strings)
      BY <3>2 DEF X
    <3>5. x = y
      BY Cancels, <2>2, <3>3, <3>4
    <3> QED
      BY <2>1, <3>1, <3>2, <3>5 DEF IsInjective
  <2>6. \A x \in Range(r) : \E y \in X : x = <<w>> \o y
    BY <2>3 DEF Range
  <2> HIDE DEF r
  <2> QED
    BY <2>2, <2>4, <2>5, <2>6 DEF IsInjective
<1> HIDE DEF below, Below
<1>5. DOMAIN Deeper(d, i) = DOMAIN below /\ \A c \in DOMAIN below : Deeper(d, i)[c] = Below(below[c])
  BY <1>3
<1>6. \A c \in DOMAIN Deeper(d, i) : IsInjective(Deeper(d, i)[c])
  BY <1>1, <1>4, <1>5
<1>7. ASSUME NEW c \in DOMAIN Deeper(d, i), NEW e \in DOMAIN Deeper(d, i), NEW x,
             x \in Range(Deeper(d, i)[c]), x \in Range(Deeper(d, i)[e])
      PROVE  c = e
  <2>1. below[c] \in Dumped(i) /\ below[e] \in Dumped(i)
    BY <1>1, <1>5
  <2>2. PICK y \in X : x = <<Shown(i, below[c])>> \o y
    BY <1>4, <1>5, <1>7, <2>1
  <2>3. PICK z \in X : x = <<Shown(i, below[e])>> \o z
    BY <1>4, <1>5, <1>7, <2>1
  <2>4. Shown(i, below[c]) \in Strings /\ Shown(i, below[e]) \in Strings
    BY <2>1, ChildRest
  <2>5. Shown(i, below[c]) = Shown(i, below[e])
    BY <2>2, <2>3, <2>4, FirstTells
  <2>6. below[c] = below[e]
    BY <2>1, <2>5, ChildrenDiffer
  <2> QED
    BY <1>2, <1>5, <2>6
<1>8. Deeper(d, i) \in Seq(Seq(X))
  BY DeeperIs DEF Lines
<1>9. PICK ss \in Seq(Seq(X)) : ss = Deeper(d, i)
  BY <1>8
<1> HIDE DEF X
<1>10. \A c, e \in DOMAIN ss : \A x : x \in Range(ss[c]) /\ x \in Range(ss[e]) => c = e
  BY <1>7, <1>9
<1>11. \A c \in DOMAIN ss : IsInjective(ss[c])
  BY <1>6, <1>9
<1> QED
  BY <1>9, <1>10, <1>11, FlattenInjective

\* A dump prints no object twice.
LEMMA DumpInjective ==
  ASSUME Generated, NEW i \in DOMAIN infoList
  PROVE  IsInjective(DumpInternal[i]) /\ IsInjective(Tail(DumpInternal[i]))
<1>1. PICK n \in Nat : n = Len(infoList) /\ DOMAIN infoList = 1 .. n
  BY EntriesAre
<1> DEFINE Right(j) == IsInjective(DumpInternal[j]) /\ IsInjective(Tail(DumpInternal[j]))
<1>2. ASSUME NEW j \in 1 .. n, \A k \in Dumped(j) : Right(k)
      PROVE  Right(j)
  <2>1. DumpInternal[j] = Whole(DumpInternal, j)
    BY <1>1, DumpIs
  <2>2. \A k \in Dumped(j) : DumpInternal[k] \in Lines
    BY <1>1, ListedAre, DumpReaches
  <2>3. PICK s \in Lines : /\ s = FlattenSeq(Deeper(DumpInternal, j))
                           /\ Tail(DumpInternal[j]) = s /\ Range(s) = Printed(DumpInternal, j)
    BY <1>1, <2>1, <2>2, WholeIs
  <2>4. IsInjective(s)
    BY <1>1, <1>2, <2>2, <2>3, DeeperInjective
  <2>5. << >> \notin Range(s)
    <3>1. ASSUME << >> \in Range(s)
          PROVE  FALSE
      <4>1. PICK k \in Dumped(j) : \E y \in Range(DumpInternal[k]) : << >> = <<Shown(j, k)>> \o y
        BY <2>3, <3>1, PrintedAre
      <4>2. PICK y \in Range(DumpInternal[k]) : << >> = <<Shown(j, k)>> \o y
        BY <4>1
      <4>3. PICK w \in Strings : w = Shown(j, k)
        BY <1>1, ChildRest
      <4>4. y \in Seq(Strings)
        <5> DEFINE X == Seq(Strings)
        <5>1. PICK z \in Seq(X) : z = DumpInternal[k]
          BY <2>2 DEF Lines
        <5> HIDE DEF X
        <5>2. \A e \in DOMAIN z : z[e] \in X
          BY LenProperties, ElementOfSeq
        <5>3. y \in X
          BY <4>2, <5>1, <5>2 DEF Range
        <5> QED
          BY <5>3 DEF X
      <4>5. <<w>> \in Seq(Strings) /\ Len(<<w>>) = 1
        OBVIOUS
      <4> HIDE DEF Strings
      <4>6. Len(y) \in Nat
        BY <4>4, LenProperties
      <4>7. Len(<<w>> \o y) = 1 + Len(y) /\ Len(<< >>) = 0
        BY <4>4, <4>5, ConcatProperties, EmptySeq
      <4>8. Len(<<w>> \o y) = 0
        BY <4>2, <4>3, <4>7, Zenon
      <4> QED
        BY <4>6, <4>7, <4>8
    <3> QED
      BY <3>1
  <2> DEFINE first == << << >> >>
  <2>6. IsInjective(first) /\ first \in Seq(Seq(Strings)) /\ Range(first) = {<< >>}
    BY EmptySeq DEF Range, IsInjective
  <2> HIDE DEF first
  <2>7. IsInjective(first \o s)
    <3>1. s \in Seq(Seq(Strings))
      BY DEF Lines
    <3>2. \A x : ~(x \in Range(first) /\ x \in Range(s))
      BY <2>5, <2>6
    <3> QED
      BY <2>4, <2>6, <3>1, <3>2, JoinInjective
  <2>8. DumpInternal[j] = first \o s
    BY <2>1, <2>3 DEF Whole, first
  <2> QED
    BY <2>3, <2>4, <2>7, <2>8
<1>3. \A j \in 1 .. n : \A k \in Dumped(j) : k \in j + 1 .. n
  BY <1>1, DumpedAfter
<1> HIDE DEF Right
<1> DEFINE T == {m \in 0 .. n : \A j \in m + 1 .. n : Right(j)}
<1>4. n \in T
  OBVIOUS
<1>5. PICK m \in T : \A j \in T : m <= j
  <2>1. T \subseteq Nat /\ T # {}
    BY <1>4
  <2> HIDE DEF T
  <2> QED
    BY <2>1, LeastNumber
<1>6. ASSUME m # 0
      PROVE  FALSE
  <2>1. m \in 1 .. n /\ m - 1 \in 0 .. n /\ ~(m <= m - 1)
    BY <1>6
  <2>2. \A j \in m + 1 .. n : Right(j)
    OBVIOUS
  <2>3. Right(m)
    BY <1>2, <1>3, <2>1, <2>2
  <2>4. \A j \in m - 1 + 1 .. n : j = m \/ j \in m + 1 .. n
    BY <2>1
  <2>5. m - 1 \in T
    BY <2>1, <2>2, <2>3, <2>4
  <2> HIDE DEF T
  <2> QED
    BY <1>5, <2>1, <2>5
<1>7. \A j \in 1 .. n : Right(j)
  BY <1>6
<1> QED
  BY <1>1, <1>7 DEF Right

LEMMA StretchIs ==
  ASSUME NEW p \in Strings, NEW a \in 1 .. Len(p) + 1, NEW b \in a - 1 .. Len(p)
  PROVE  /\ SubSeq(p, a, b) \in Strings /\ Len(SubSeq(p, a, b)) = b - a + 1
         /\ \A j \in 1 .. b - a + 1 : SubSeq(p, a, b)[j] = p[a + j - 1]
<1>1. Len(p) \in Nat /\ \A j \in 1 .. Len(p) : p[j] \in Letters
  BY LenProperties, ElementOfSeq DEF Strings
<1>2. a \in Int /\ b \in Int /\ \A j \in a .. b : p[j] \in Letters
  BY <1>1
<1>3. /\ SubSeq(p, a, b) \in Seq(Letters)
      /\ Len(SubSeq(p, a, b)) = IF a <= b THEN b - a + 1 ELSE 0
      /\ \A j \in 1 .. b - a + 1 : SubSeq(p, a, b)[j] = p[a + j - 1]
  BY <1>2, SubSeqProperties
<1>4. (IF a <= b THEN b - a + 1 ELSE 0) = b - a + 1
  BY <1>1
<1> QED
  BY <1>3, <1>4 DEF Strings

\* Two stretches of a path, one after the other.
LEMMA StretchesJoin ==
  ASSUME NEW p \in Strings, NEW a \in 1 .. Len(p), NEW b \in a .. Len(p), NEW c \in b .. Len(p)
  PROVE  SubSeq(p, a, b) \o SubSeq(p, b + 1, c) = SubSeq(p, a, c)
<1>1. PICK n \in Nat : /\ n = Len(p) /\ a \in Nat /\ b \in Nat /\ c \in Nat
                      /\ 1 <= a /\ a <= b /\ b <= c /\ c <= n
  BY LenProperties DEF Strings
<1>2. PICK s \in Strings : /\ s = SubSeq(p, a, b) /\ Len(s) = b - a + 1
                           /\ \A j \in 1 .. b - a + 1 : s[j] = p[a + j - 1]
  <2>1. a \in 1 .. n + 1 /\ b \in a - 1 .. n
    BY <1>1
  <2> QED
    BY <1>1, <2>1, StretchIs
<1>3. PICK t \in Strings : /\ t = SubSeq(p, b + 1, c) /\ Len(t) = c - b
                           /\ \A j \in 1 .. c - b : t[j] = p[b + j]
  <2>1. PICK e \in Nat : e = b + 1 /\ e \in 1 .. n + 1 /\ c \in e - 1 .. n
    BY <1>1
  <2>2. /\ SubSeq(p, e, c) \in Strings /\ Len(SubSeq(p, e, c)) = c - e + 1
        /\ \A j \in 1 .. c - e + 1 : SubSeq(p, e, c)[j] = p[e + j - 1]
    BY <1>1, <2>1, StretchIs
  <2>3. c - e + 1 = c - b /\ \A j \in 1 .. c - b : e + j - 1 = b + j
    BY <1>1, <2>1
  <2>4. PICK t : t = SubSeq(p, e, c)
    OBVIOUS
  <2>5. t \in Strings /\ Len(t) = c - b /\ \A j \in 1 .. c - b : t[j] = p[b + j]
    BY <2>2, <2>3, <2>4
  <2> QED
    BY <2>1, <2>4, <2>5
<1>4. PICK u \in Strings : /\ u = SubSeq(p, a, c) /\ Len(u) = c - a + 1
                           /\ \A j \in 1 .. c - a + 1 : u[j] = p[a + j - 1]
  <2>1. a \in 1 .. n + 1 /\ c \in a - 1 .. n
    BY <1>1
  <2> QED
    BY <1>1, <2>1, StretchIs
<1>5. PICK r \in Strings :
        /\ r = s \o t /\ Len(r) = c - a + 1
        /\ \A j \in 1 .. c - a + 1 : r[j] = IF j <= b - a + 1 THEN s[j] ELSE t[j - (b - a + 1)]
  <2>1. s \o t \in Strings
    BY ConcatProperties DEF Strings
  <2>2. /\ Len(s \o t) = Len(s) + Len(t)
        /\ \A j \in 1 .. Len(s) + Len(t) :
             (s \o t)[j] = IF j <= Len(s) THEN s[j] ELSE t[j - Len(s)]
    <3>1. s \in Seq(Letters) /\ t \in Seq(Letters)
      BY DEF Strings
    <3> QED
      BY <3>1, ConcatProperties
  <2>3. Len(s) + Len(t) = c - a + 1
    BY <1>1, <1>2, <1>3
  <2>4. Len(s \o t) = c - a + 1
    BY <2>2, <2>3
  <2>5. \A j \in 1 .. c - a + 1 :
          (s \o t)[j] = IF j <= b - a + 1 THEN s[j] ELSE t[j - (b - a + 1)]
    BY <1>2, <2>2, <2>3
  <2> QED
    BY <2>1, <2>4, <2>5
<1>6. ASSUME NEW j \in 1 .. c - a + 1
      PROVE  r[j] = u[j]
  <2>1. CASE j <= b - a + 1
    BY <1>1, <1>2, <1>4, <1>5, <2>1
  <2>2. CASE ~(j <= b - a + 1)
    <3>1. j - (b - a + 1) \in 1 .. c - b /\ b + (j - (b - a + 1)) = a + j - 1
      BY <1>1, <2>2
    <3> QED
      BY <1>3, <1>4, <1>5, <2>2, <3>1
  <2> QED
    BY <2>1, <2>2
<1>7. r = u
  BY <1>4, <1>5, <1>6, SeqEqual DEF Strings
<1> QED
  BY <1>2, <1>3, <1>4, <1>5, <1>7

\* A slash and a name of a path are a stretch of it.
LEMMA WordStretch ==
  ASSUME NEW p \in Slashed, NEW i \in 1 .. Len(Marks(p))
  PROVE  /\ <<Slash>> \o Words(p)[i] = SubSeq(p, Marks(p)[i], Stop(p, i))
         /\ <<Slash>> \o Words(p)[i] \in Strings
<1>1. PICK a \in 1 .. Len(p) : a = Marks(p)[i] /\ p[a] = Slash
  BY MarksAre
<1>2. PICK b \in a .. Len(p) : b = Stop(p, i)
  BY <1>1, StopIs
<1>3. p \in Seq(Letters) /\ Len(p) \in Nat
  BY DEF Slashed, Strings
<1>4. Words(p)[i] = SubSeq(p, a + 1, b)
  BY <1>1, <1>2, MarksAre DEF Words
<1>5. SubSeq(p, a, b) = <<p[a]>> \o SubSeq(p, a + 1, b)
  BY <1>1, <1>2, <1>3, SubSeqRecursiveFirst
<1>6. SubSeq(p, a, b) \in Strings
  <2>1. \A j \in a .. b : p[j] \in Letters
    BY <1>1, <1>2, <1>3, ElementOfSeq
  <2> QED
    BY <1>1, <1>2, <2>1, SubSeqProperties DEF Strings
<1> QED
  BY <1>1, <1>2, <1>4, <1>5, <1>6

\* The last names of a path, joined, are what is left of it.
LEMMA JoinedIs ==
  ASSUME NEW p \in Slashed, NEW n \in Nat, n = Len(Marks(p)), NEW m \in 0 .. n - 1
  PROVE  Joined(SubSeq(Words(p), m + 1, n)) = SubSeq(p, Marks(p)[m + 1], Len(p))
<1>1. /\ Words(p) \in Seq(Strings) /\ Len(Words(p)) = n
      /\ p \in Strings /\ Len(p) \in Nat
  BY WordsAre DEF Slashed, Strings
<1> DEFINE names == SubSeq(Words(p), m + 1, n)
           a == Marks(p)[m + 1]
<1>2. /\ names \in Seq(Strings) /\ Len(names) = n - m /\ DOMAIN names = 1 .. n - m
      /\ \A j \in 1 .. n - m : names[j] = Words(p)[m + j]
  <2>1. \A j \in m + 1 .. n : Words(p)[j] \in Strings
    BY <1>1, ElementOfSeq
  <2> HIDE DEF Strings
  <2>2. /\ names \in Seq(Strings) /\ Len(names) = n - m
        /\ \A j \in 1 .. n - m : names[j] = Words(p)[m + 1 + j - 1]
    BY <2>1, SubSeqProperties
  <2>3. \A j \in 1 .. n - m : m + 1 + j - 1 = m + j
    OBVIOUS
  <2> QED
    BY <2>2, <2>3, LenProperties
<1>3. m + 1 \in 1 .. n /\ a \in 1 .. Len(p)
  BY MarksAre
<1> DEFINE ss == [j \in DOMAIN names |-> <<Slash>> \o names[j]]
<1>4. /\ ss \in Seq(Strings) /\ Len(ss) = n - m
      /\ \A j \in 1 .. n - m : ss[j] = SubSeq(p, Marks(p)[m + j], Stop(p, m + j))
  <2> HIDE DEF names
  <2>1. \A j \in 1 .. n - m : m + j \in 1 .. n
    OBVIOUS
  <2>2. \A j \in 1 .. n - m : /\ <<Slash>> \o names[j] = SubSeq(p, Marks(p)[m + j], Stop(p, m + j))
                              /\ <<Slash>> \o names[j] \in Strings
    BY <1>2, <2>1, WordStretch
  <2>3. ss = [j \in 1 .. n - m |-> <<Slash>> \o names[j]]
    BY <1>2
  <2>4. n - m \in Nat
    OBVIOUS
  <2> HIDE DEF Strings
  <2>5. ss \in Seq(Strings)
    BY <2>2, <2>3, <2>4, IsASeq
  <2>6. Len(ss) = n - m
    <3>1. DOMAIN ss = 1 .. n - m
      BY <2>3
    <3> HIDE DEF ss
    <3> QED
      BY <2>4, <2>5, <3>1, LenProperties
  <2> QED
    BY <2>2, <2>3, <2>5, <2>6
<1>5. Joined(names) = FlattenSeq(ss)
  BY DEF Joined
<1> HIDE DEF names, ss
<1>6. PICK f : Joins(f, ss, Letters)
  BY <1>4, FlattenSteps DEF Strings
<1> DEFINE Right(j) == f[j] = SubSeq(p, a, Stop(p, m + j))
<1>7. Right(1)
  BY <1>3, <1>4, <1>6 DEF Joins
<1>8. ASSUME NEW j \in 2 .. n - m, Right(j - 1)
      PROVE  Right(j)
  <2>1. m + j \in 1 .. n /\ m + (j - 1) \in 1 .. n /\ m + 1 <= m + (j - 1) /\ m + (j - 1) < m + j
        /\ m + (j - 1) + 1 = m + j
    OBVIOUS
  <2>2. f[j] = f[j - 1] \o ss[j]
    BY <1>4, <1>6 DEF Joins
  <2>3. PICK b \in Nat : b = Stop(p, m + (j - 1)) /\ b \in 1 .. Len(p) /\ a <= b
    <3>1. a <= Marks(p)[m + (j - 1)]
      <4>1. CASE j = 2
        BY <1>3, <4>1
      <4>2. CASE j # 2
        <5>1. m + 1 < m + (j - 1)
          BY <4>2
        <5>2. PICK x \in 1 .. Len(Marks(p)) : x = m + 1
          BY <1>3
        <5>3. PICK y \in 1 .. Len(Marks(p)) : y = m + (j - 1)
          BY <2>1
        <5>4. Marks(p)[x] < Marks(p)[y]
          BY <5>1, <5>2, <5>3, MarksAre
        <5>5. Marks(p)[x] \in 1 .. Len(p) /\ Marks(p)[y] \in 1 .. Len(p)
          BY MarksAre
        <5>6. Marks(p)[x] <= Marks(p)[y]
          BY <1>1, <5>4, <5>5
        <5> QED
          BY <5>2, <5>3, <5>6, Zenon
      <4> QED
        BY <4>1, <4>2
    <3>2. Marks(p)[m + (j - 1)] \in 1 .. Len(p)
      BY <2>1, MarksAre
    <3>3. Stop(p, m + (j - 1)) \in Marks(p)[m + (j - 1)] .. Len(p)
      BY <2>1, StopIs
    <3> QED
      BY <1>1, <1>3, <3>1, <3>2, <3>3
  <2>4. Marks(p)[m + j] = b + 1
    <3>1. b = Marks(p)[m + (j - 1) + 1] - 1
      BY <2>1, <2>3, StopBefore
    <3>2. Marks(p)[m + j] \in 1 .. Len(p)
      BY <2>1, MarksAre
    <3> QED
      BY <1>1, <2>1, <3>1, <3>2
  <2>5. PICK c \in Nat : c = Stop(p, m + j) /\ c \in b .. Len(p)
    <3>1. Stop(p, m + j) \in b + 1 .. Len(p)
      BY <2>1, <2>4, StopIs
    <3> QED
      BY <1>1, <2>3, <3>1
  <2>6. f[j - 1] = SubSeq(p, a, b) /\ ss[j] = SubSeq(p, b + 1, c)
    <3>1. j \in 1 .. n - m
      OBVIOUS
    <3>2. ss[j] = SubSeq(p, Marks(p)[m + j], Stop(p, m + j))
      BY <1>4, <3>1
    <3>3. f[j - 1] = SubSeq(p, a, Stop(p, m + (j - 1)))
      BY <1>8
    <3>4. ss[j] = SubSeq(p, b + 1, c)
      BY <2>4, <2>5, <3>2, Zenon
    <3>5. f[j - 1] = SubSeq(p, a, b)
      BY <2>3, <3>3, Zenon
    <3> QED
      BY <3>4, <3>5
  <2>7. SubSeq(p, a, b) \o SubSeq(p, b + 1, c) = SubSeq(p, a, c)
    <3>1. PICK e \in 1 .. Len(p) : e = a
      BY <1>3
    <3>2. b \in e .. Len(p) /\ c \in b .. Len(p)
      BY <1>1, <2>3, <2>5, <3>1
    <3>3. SubSeq(p, e, b) \o SubSeq(p, b + 1, c) = SubSeq(p, e, c)
      BY <1>1, <3>2, StretchesJoin
    <3> QED
      BY <3>1, <3>3
  <2> QED
    BY <2>2, <2>5, <2>6, <2>7
<1> HIDE DEF Right
<1>9. \A j \in 1 .. n - m : Right(j)
  <2> DEFINE T == {j \in 1 .. n - m : ~Right(j)}
  <2>1. ASSUME T # {}
        PROVE  FALSE
    <3>1. PICK j \in T : \A k \in T : j <= k
      <4>1. T \subseteq Nat
        OBVIOUS
      <4> HIDE DEF T
      <4> QED
        BY <2>1, <4>1, LeastNumber
    <3>2. j \in 1 .. n - m /\ ~Right(j)
      OBVIOUS
    <3>3. j # 1
      BY <1>7, <3>2
    <3>4. j \in 2 .. n - m /\ j - 1 \in 1 .. n - m /\ ~(j <= j - 1)
      BY <3>2, <3>3
    <3>5. Right(j - 1)
      <4>1. j - 1 \notin T
        <5> HIDE DEF T
        <5> QED
          BY <3>1, <3>4
      <4> QED
        BY <3>4, <4>1
    <3> QED
      BY <1>8, <3>2, <3>4, <3>5
  <2> QED
    BY <2>1
<1>10. n - m \in 1 .. n - m /\ m + (n - m) = n
  OBVIOUS
<1>11. FlattenSeq(ss) = f[n - m]
  BY <1>4, <1>6 DEF Joins
<1>12. Stop(p, n) = Len(p)
  BY DEF Stop
<1> QED
  BY <1>5, <1>9, <1>10, <1>11, <1>12 DEF Right, names

\* What is left of the path of an entry below another one, and what they share.
LEMMA PathSplits ==
  ASSUME Generated, NEW i \in DOMAIN infoList, NEW k \in DOMAIN infoList, IsStrictPrefix(N(i), N(k)),
         NEW h \in Nat, h = IF i = 1 THEN 0 ELSE Len(infoList[i].path)
  PROVE  /\ infoList[k].path \in Slashed /\ h < Len(infoList[k].path)
         /\ Joined(Rest(i, k)) = SubSeq(infoList[k].path, h + 1, Len(infoList[k].path))
         /\ \A j \in 1 .. h : infoList[k].path[j] = infoList[i].path[j]
<1>1. PICK q \in Slashed : q = infoList[k].path
  BY EntriesAre
<1>2. PICK p \in Slashed : p = infoList[i].path
  BY EntriesAre
<1>3. k # 1 /\ q # Root /\ N(k) = Words(q)
  <2>1. k # 1
    <3>1. CASE i = 1
      BY <3>1, BelowIs
    <3>2. CASE i # 1
      <4>1. Inside(p, q)
        BY <1>1, <1>2, <3>2, BelowIs
      <4>2. Len(p) \in Nat /\ Len(p) > 1 /\ Len(Root) = 1
        BY <1>2, <3>2, EntriesAre, RootIs DEF Slashed, Strings
      <4>3. q # Root
        BY <4>1, <4>2 DEF Inside
      <4> QED
        BY <1>1, <4>3, EntriesAre
    <3> QED
      BY <3>1, <3>2
  <2>2. q # Root
    BY <1>1, <2>1, EntriesAre
  <2> QED
    BY <1>1, <2>1, <2>2, NamesAre DEF N
<1>4. PICK n \in Nat : n = Len(Marks(q)) /\ n = Len(N(k)) /\ n > 0
  BY <1>3, WordsAre, MarksAre
<1>5. CASE i = 1
  <2>1. N(i) = << >> /\ Len(N(i)) = 0
    BY <1>5, EntriesAre, RootHasNoNames, EmptySeq DEF N
  <2>2. PICK m \in 0 .. n - 1 : m = Len(N(i)) /\ m = 0
    BY <1>4, <2>1
  <2>3. Rest(i, k) = SubSeq(Words(q), m + 1, n)
    BY <1>3, <1>4, <2>2 DEF Rest
  <2>4. Joined(SubSeq(Words(q), m + 1, n)) = SubSeq(q, Marks(q)[m + 1], Len(q))
    BY <1>4, JoinedIs
  <2>5. m + 1 = 1 /\ Marks(q)[1] = 1 /\ h + 1 = 1 /\ h = 0
    BY <1>5, <2>2, MarksAre
  <2>6. Marks(q)[m + 1] = h + 1
    BY <2>5
  <2>7. Len(q) > 0 /\ \A j : j \notin 1 .. 0
    BY DEF Slashed
  <2> QED
    BY <1>1, <2>3, <2>4, <2>5, <2>6, <2>7
<1>6. CASE i # 1
  <2>1. Inside(p, q)
    BY <1>1, <1>2, <1>6, BelowIs
  <2>2. PICK m \in 1 .. n : m # n /\ p = Ancestor(q, m)
    BY <1>4, <2>1, InsideFront
  <2>3. p # Root /\ N(i) = Words(p)
    BY <1>2, <1>6, EntriesAre, NamesAre DEF N
  <2>4. Len(N(i)) = m /\ Len(p) = Stop(q, m)
    <3>1. m \in 1 .. Len(Marks(q))
      BY <1>4
    <3>2. Len(Words(Ancestor(q, m))) = m /\ Len(Ancestor(q, m)) = Stop(q, m)
      BY <3>1, FrontIs
    <3> QED
      BY <2>2, <2>3, <3>2
  <2>5. m \in 0 .. n - 1
    BY <2>2
  <2>6. Rest(i, k) = SubSeq(Words(q), m + 1, n)
    BY <1>3, <1>4, <2>4 DEF Rest
  <2>7. Joined(Rest(i, k)) = SubSeq(q, Marks(q)[m + 1], Len(q))
    <3>1. Joined(SubSeq(Words(q), m + 1, n)) = SubSeq(q, Marks(q)[m + 1], Len(q))
      BY <1>4, <2>5, JoinedIs
    <3> QED
      BY <2>6, <3>1
  <2>8. Marks(q)[m + 1] = h + 1
    <3>1. h = Stop(q, m)
      BY <1>2, <1>6, <2>4
    <3>2. Marks(q)[m + 1] = Stop(q, m) + 1
      BY <1>4, <2>2, FrontInside
    <3> QED
      BY <3>1, <3>2
  <2>9. h = Len(p) /\ h < Len(q) /\ \A j \in 1 .. h : q[j] = p[j]
    BY <1>2, <1>6, <2>1 DEF Inside
  <2> QED
    BY <1>1, <1>2, <2>7, <2>8, <2>9
<1> QED
  BY <1>5, <1>6

\* Names that are printed below an entry, as one path, are those of one object.
LEMMA JoinedTells ==
  ASSUME Generated, NEW i \in DOMAIN infoList, NEW k \in DOMAIN infoList, NEW l \in DOMAIN infoList,
         IsStrictPrefix(N(i), N(k)), IsStrictPrefix(N(i), N(l)),
         Joined(Rest(i, k)) = Joined(Rest(i, l))
  PROVE  k = l
<1>1. PICK h \in Nat : h = IF i = 1 THEN 0 ELSE Len(infoList[i].path)
  BY EntriesAre, LenProperties DEF Slashed, Strings
<1>2. PICK p \in Strings : p = infoList[k].path
  BY EntriesAre DEF Slashed
<1>3. PICK q \in Strings : q = infoList[l].path
  BY EntriesAre DEF Slashed
<1>4. PICK a \in Nat : a = Len(p) /\ h < a
  BY <1>1, <1>2, LenProperties, PathSplits DEF Strings
<1>5. PICK b \in Nat : b = Len(q) /\ h < b
  BY <1>1, <1>3, LenProperties, PathSplits DEF Strings
<1>6. SubSeq(p, h + 1, a) = SubSeq(q, h + 1, b)
  <2>1. Joined(Rest(i, k)) = SubSeq(p, h + 1, a)
    BY <1>1, <1>2, <1>4, PathSplits
  <2>2. Joined(Rest(i, l)) = SubSeq(q, h + 1, b)
    BY <1>1, <1>3, <1>5, PathSplits
  <2> QED
    BY <2>1, <2>2
<1>7. \A j \in 1 .. h : p[j] = q[j]
  <2>1. \A j \in 1 .. h : p[j] = infoList[i].path[j]
    BY <1>1, <1>2, PathSplits
  <2>2. \A j \in 1 .. h : q[j] = infoList[i].path[j]
    BY <1>1, <1>3, PathSplits
  <2> QED
    BY <2>1, <2>2
<1>8. PICK e \in Nat : e = h + 1 /\ e \in 1 .. a + 1 /\ a \in e - 1 .. a /\ e \in 1 .. b + 1 /\ b \in e - 1 .. b
  BY <1>4, <1>5
<1>9. PICK s : s = SubSeq(p, e, a)
  OBVIOUS
<1>10. Len(s) = a - e + 1 /\ \A j \in 1 .. a - e + 1 : s[j] = p[e + j - 1]
  BY <1>4, <1>8, <1>9, StretchIs
<1>11. s = SubSeq(q, e, b)
  BY <1>6, <1>8, <1>9
<1>12. Len(s) = b - e + 1 /\ \A j \in 1 .. b - e + 1 : s[j] = q[e + j - 1]
  BY <1>5, <1>8, <1>11, StretchIs
<1>13. a = b
  BY <1>10, <1>12
<1>14. ASSUME NEW j \in 1 .. a
       PROVE  p[j] = q[j]
  <2>1. CASE j \in 1 .. h
    BY <1>7, <2>1
  <2>2. CASE j \notin 1 .. h
    <3>1. j - h \in 1 .. a - e + 1 /\ j - h \in 1 .. b - e + 1 /\ e + (j - h) - 1 = j
      BY <1>8, <1>13, <2>2
    <3>2. s[j - h] = p[e + (j - h) - 1] /\ s[j - h] = q[e + (j - h) - 1]
      BY <1>10, <1>12, <3>1
    <3> QED
      BY <3>1, <3>2
  <2> QED
    BY <2>1, <2>2
<1>15. p = q
  BY <1>4, <1>5, <1>13, <1>14, SeqEqual DEF Strings
<1>16. infoList[k].path = infoList[l].path
  BY <1>2, <1>3, <1>15
<1> QED
  BY <1>16, EntriesAre, EntryPaths DEF Generated

\* The names printed by a dump, as paths, are those of different objects.
LEMMA DumpsAreExact ==
  ASSUME Generated, NEW i \in DOMAIN infoList, NEW entries, entries = Tail(DumpInternal[i])
  PROVE  IsInjective([e \in DOMAIN entries |-> Joined(entries[e])])
<1>1. /\ entries = FlattenSeq(Deeper(DumpInternal, i))
      /\ Range(entries) = Printed(DumpInternal, i)
  <2>1. \A k \in Dumped(i) : DumpInternal[k] \in Lines
    BY ListedAre, DumpReaches
  <2>2. DumpInternal[i] = Whole(DumpInternal, i)
    BY DumpIs
  <2>3. /\ Tail(Whole(DumpInternal, i)) = FlattenSeq(Deeper(DumpInternal, i))
        /\ Range(Tail(Whole(DumpInternal, i))) = Printed(DumpInternal, i)
    BY <2>1, WholeIs
  <2> QED
    BY <2>2, <2>3
<1>2. ASSUME NEW x \in Range(entries)
      PROVE  \E k \in DOMAIN infoList : IsStrictPrefix(N(i), N(k)) /\ x = Rest(i, k)
  <2>1. PICK k \in Dumped(i) : \E y \in Range(DumpInternal[k]) : x = <<Shown(i, k)>> \o y
    BY <1>1, PrintedAre
  <2>2. PICK y \in Range(DumpInternal[k]) : x = <<Shown(i, k)>> \o y
    BY <2>1
  <2>3. k \in DOMAIN infoList /\ IsStrictPrefix(N(i), N(k)) /\ Len(N(k)) = Len(N(i)) + 1
    BY ChildRest
  <2>4. y \in Reached(k)
    BY <2>2, <2>3, DumpReaches
  <2>5. PICK l \in DOMAIN infoList : IsPrefix(N(k), N(l)) /\ y = Rest(k, l)
    BY <2>4 DEF Reached
  <2>6. IsPrefix(N(i), N(l)) /\ x = Rest(i, l)
    BY <2>2, <2>5, RestSteps
  <2>7. N(i) # N(l)
    <3>1. Len(N(k)) <= Len(N(l)) /\ Len(N(i)) \in Nat
      BY <2>3, <2>5, <2>6, RestIs
    <3> QED
      BY <2>3, <3>1
  <2> QED
    BY <2>6, <2>7 DEF IsStrictPrefix
<1>3. IsInjective(entries)
  BY DumpInjective
<1>4. ASSUME NEW a \in DOMAIN entries, NEW b \in DOMAIN entries, Joined(entries[a]) = Joined(entries[b])
      PROVE  a = b
  <2>1. entries[a] \in Range(entries) /\ entries[b] \in Range(entries)
    BY DEF Range
  <2>2. PICK k \in DOMAIN infoList : IsStrictPrefix(N(i), N(k)) /\ entries[a] = Rest(i, k)
    BY <1>2, <2>1
  <2>3. PICK l \in DOMAIN infoList : IsStrictPrefix(N(i), N(l)) /\ entries[b] = Rest(i, l)
    BY <1>2, <2>1
  <2>4. k = l
    BY <1>4, <2>2, <2>3, JoinedTells
  <2> QED
    BY <1>3, <2>2, <2>3, <2>4 DEF IsInjective
<1> QED
  BY <1>4 DEF IsInjective

\* A listing shows the children, or the name of the list goes on in that of an object.
LEMMA ListsAreExact ==
  ASSUME Generated, NEW i \in DOMAIN infoList, NEW entries,
         LET listed == InOrder(Listed(i))
         IN  entries = [c \in DOMAIN listed |-> <<Shown(i, listed[c])>>]
  PROVE  \/ Range(entries) = Device!Children(N(i))
         \/ \E d \in Range(defined) :
              /\ IsStrictPrefix(infoList[i].path, d.path) /\ infoList[i].path # Root
              /\ d.path[Len(infoList[i].path) + 1] # Slash
<1> DEFINE p == infoList[i].path
<1>1. ASSUME NEW k \in Listed(i), k \notin Dumped(i)
      PROVE  \E d \in Range(defined) : /\ IsStrictPrefix(p, d.path) /\ p # Root
                                       /\ d.path[Len(p) + 1] # Slash
  <2>1. k \in DOMAIN infoList /\ k \in Following(i)
    BY ListedAre DEF Listed
  <2>2. PICK q \in Strings : q = infoList[k].path
    BY <2>1, EntriesAre DEF Slashed
  <2>3. p \in Strings /\ IsStrictPrefix(p, q)
    BY <2>1, <2>2, EntriesAre, FollowingIs DEF Slashed
  <2>4. Len(p) # 1 /\ q[Len(p) + 1] # Slash
    BY <1>1, <2>2 DEF Dumped
  <2>5. p # Root
    BY <2>4, RootIs
  <2>6. Len(p) \in Nat /\ Len(q) \in Nat /\ Len(p) < Len(q) /\ \A j \in 1 .. Len(p) : p[j] = q[j]
    <3>1. IsPrefix(p, q) /\ p # q
      BY <2>3 DEF IsStrictPrefix
    <3>2. Len(p) \in Nat /\ Len(q) \in Nat
      BY <2>3, LenProperties DEF Strings
    <3>3. Len(p) <= Len(q) /\ \A j \in 1 .. Len(p) : p[j] = q[j]
      BY <2>3, <3>1, PrefixIs
    <3>4. Len(p) # Len(q)
      BY <2>3, <3>1, <3>3, SeqEqual DEF Strings
    <3> QED
      BY <3>2, <3>3, <3>4
  <2>7. PICK d \in Range(defined) : d.path = q \/ q \in Parents(d.path)
    <3>1. defined \in Files /\ tables = Tables(defined)
      BY DEF Generated
    <3>2. q # Root
      BY <2>3, <2>6, EntriesAre, RootIs DEF Slashed
    <3>3. CASE infoList[k].path \in ListPaths(defined)
      BY <2>2, <3>3 DEF ListPaths, Range
    <3>4. CASE /\ infoList[k].type \in Types
               /\ infoList[k].index \in DOMAIN tables[infoList[k].type]
               /\ tables[infoList[k].type][infoList[k].index].path = infoList[k].path
      <4>1. \E j \in DOMAIN defined : tables[infoList[k].type][infoList[k].index] = defined[j]
        BY <3>1, <3>4, TableIs
      <4> QED
        BY <2>2, <3>4, <4>1 DEF Range
    <3> QED
      BY <2>1, <2>2, <3>2, <3>3, <3>4, EntriesAre
  <2>8. d \in Definitions
    BY FileIs DEF Generated, Range
  <2>9. d.path \in Strings /\ Len(d.path) \in Nat /\ Len(q) <= Len(d.path)
        /\ \A j \in 1 .. Len(q) : q[j] = d.path[j]
    <3>1. CASE d.path = q
      BY <2>2, <2>6, <3>1
    <3>2. CASE q \in Parents(d.path)
      BY <2>8, <3>2, DefinitionIs, ParentsAre
    <3> QED
      BY <2>7, <3>1, <3>2
  <2>10. Len(p) + 1 \in 1 .. Len(q)
    BY <2>6
  <2>11. IsStrictPrefix(p, d.path)
    <3>1. IsPrefix(p, d.path)
      <4>1. Len(p) <= Len(d.path)
        BY <2>6, <2>9
      <4>2. \A j \in 1 .. Len(p) : p[j] = d.path[j]
        BY <2>6, <2>9
      <4> QED
        BY <2>3, <2>9, <4>1, <4>2, PrefixIs
    <3>2. p # d.path
      BY <2>6, <2>9
    <3> QED
      BY <3>1, <3>2 DEF IsStrictPrefix
  <2> QED
    BY <2>4, <2>5, <2>9, <2>10, <2>11
<1>2. ASSUME Listed(i) \subseteq Dumped(i)
      PROVE  Range(entries) = Device!Children(N(i))
  <2> DEFINE listed == InOrder(Listed(i))
  <2>1. Listed(i) = Dumped(i)
    BY <1>2, ListedAre
  <2>2. \A x : x \in Range(entries) <=> \E k \in Listed(i) : x = <<Shown(i, k)>>
    <3>1. \A c \in DOMAIN listed : listed[c] \in Listed(i)
      BY ListedAre, InOrderIs, LenProperties, ElementOfSeq
    <3>2. \A k \in Listed(i) : \E c \in DOMAIN listed : listed[c] = k
      <4>1. DOMAIN listed = 1 .. Cardinality(Listed(i))
        BY ListedAre, InOrderIs, LenProperties
      <4> QED
        BY <4>1, ListedAre, InOrderIs
    <3>3. entries = [c \in DOMAIN listed |-> <<Shown(i, listed[c])>>]
      OBVIOUS
    <3> HIDE DEF listed
    <3> QED
      BY <3>1, <3>2, <3>3 DEF Range
  <2>3. \A x : x \in Device!Children(N(i)) <=> \E k \in Dumped(i) : x = <<Shown(i, k)>>
    <3>1. ASSUME NEW x \in Device!Children(N(i))
          PROVE  \E k \in Dumped(i) : x = <<Shown(i, k)>>
      <4>1. x \in Device!Below(N(i)) /\ Len(x) = 1
        BY DEF Device!Children
      <4>2. PICK k \in DOMAIN infoList : IsStrictPrefix(N(i), N(k)) /\ x = Rest(i, k)
        BY <4>1, BelowAre
      <4>3. Len(N(k)) = Len(N(i)) + 1
        <5>1. IsPrefix(N(i), N(k))
          BY <4>2 DEF IsStrictPrefix
        <5>2. PICK a \in Nat : a = Len(N(i))
          BY <5>1, RestIs
        <5>3. PICK b \in Nat : b = Len(N(k))
          BY <5>1, RestIs
        <5>4. 1 = b - a
          BY <4>1, <4>2, <5>1, <5>2, <5>3, RestIs
        <5> QED
          BY <5>2, <5>3, <5>4
      <4>4. k \in Dumped(i)
        BY <4>2, <4>3, ChildIs
      <4> QED
        BY <4>2, <4>4, ChildRest
    <3>2. ASSUME NEW k \in Dumped(i)
          PROVE  <<Shown(i, k)>> \in Device!Children(N(i))
      <4>1. /\ k \in DOMAIN infoList /\ IsStrictPrefix(N(i), N(k))
            /\ Rest(i, k) = <<Shown(i, k)>>
        BY ChildRest
      <4>2. <<Shown(i, k)>> \in Device!Below(N(i))
        BY <4>1, BelowAre
      <4>3. Len(<<Shown(i, k)>>) = 1
        OBVIOUS
      <4> QED
        BY <4>2, <4>3 DEF Device!Children
    <3> QED
      BY <3>1, <3>2
  <2>4. \A x : x \in Range(entries) <=> x \in Device!Children(N(i))
    BY <2>1, <2>2, <2>3
  <2> QED
    BY <2>4
<1> QED
  BY <1>1, <1>2

\* Every answer to a DUMP or a LIST is exact, and nothing else is asked for.
LEMMA KeepsWalksExact == Generated /\ WalksAreExact /\ [Next]_vars => WalksAreExact'
<1> SUFFICES ASSUME Generated, WalksAreExact, [Next]_vars
             PROVE  WalksAreExact'
  OBVIOUS
<1>1. CASE UNCHANGED <<answer, meant, defined>>
  BY <1>1 DEF WalksAreExact, Device!Children, Device!Below, Device!Objects
<1>2. CASE Next
  <2>1. PICK p \in {infoList[i].path : i \in DOMAIN infoList} \cup Missing : Request(p)
    BY <1>2 DEF Next
  <2>2. p \in Paths
    BY <2>1, EntriesAre DEF Paths
  <2>3. UNCHANGED <<meant, defined>>
    BY <1>2 DEF Next
  <2>4. CASE answer'.request \notin {"DUMP", "LIST"}
    BY <2>4 DEF WalksAreExact
  <2>5. CASE answer' = answer
    BY <1>1, <2>3, <2>5
  <2>6. CASE List(p)
    <3>1. CASE IsA(p, "LIST")
      <4>1. PICK i \in DOMAIN infoList : i = FindInfo(p)
        BY <3>1 DEF IsA
      <4>2. infoList[i].path = p /\ NamesOf[p] = N(i)
        BY <2>2, <4>1, FindInfoIs, LookupIs
      <4> DEFINE listed == InOrder(Listed(i))
      <4>3. PICK entries : entries = [c \in DOMAIN listed |-> <<Shown(i, listed[c])>>]
        OBVIOUS
      <4>4. answer' = Answer("LIST", p, "success", "none", entries)
        BY <2>6, <3>1, <4>1, <4>3 DEF List, Succeeds
      <4>5. answer'.request = "LIST" /\ answer'.path = p /\ answer'.entries = entries
        BY <4>4 DEF Answer
      <4>6. \/ Range(entries) = Device!Children(N(i))
            \/ \E d \in Range(defined) : /\ IsStrictPrefix(p, d.path) /\ p # Root
                                         /\ d.path[Len(p) + 1] # Slash
        BY <4>2, <4>3, ListsAreExact
      <4>7. Device!Children(NamesOf[answer.path])' = Device!Children(NamesOf[p])
        BY <2>3, <4>5 DEF Device!Children, Device!Below, Device!Objects
      <4> QED
        BY <2>3, <4>2, <4>5, <4>6, <4>7 DEF WalksAreExact
    <3>2. CASE ~IsA(p, "LIST")
      BY <2>6, <3>2 DEF List, Fails, Answer, WalksAreExact
    <3> QED
      BY <3>1, <3>2
  <2>7. CASE Dump(p)
    <3>1. CASE IsA(p, "LIST")
      <4>1. PICK i \in DOMAIN infoList : i = FindInfo(p)
        BY <3>1 DEF IsA
      <4>2. PICK entries : entries = Tail(DumpInternal[i])
        OBVIOUS
      <4>3. answer' = Answer("DUMP", p, "success", "none", entries)
        BY <2>7, <3>1, <4>1, <4>2 DEF Dump, Succeeds
      <4>4. answer'.request = "DUMP" /\ answer'.entries = entries
        BY <4>3 DEF Answer
      <4>5. IsInjective([e \in DOMAIN entries |-> Joined(entries[e])])
        BY <4>2, DumpsAreExact
      <4> QED
        BY <4>4, <4>5 DEF WalksAreExact
    <3>2. CASE ~IsA(p, "LIST")
      <4>1. answer'.request = "DUMP" /\ answer'.entries = << >>
        BY <2>7, <3>2 DEF Dump, Fails, Answer
      <4>2. DOMAIN << >> = {}
        OBVIOUS
      <4> QED
        BY <4>1, <4>2 DEF WalksAreExact, IsInjective
    <3> QED
      BY <3>1, <3>2
  <2>8. CASE PropertyGet(p)
    BY <2>4, <2>8 DEF PropertyGet, Succeeds, Fails, Answer
  <2>9. CASE \E v \in Value \cup {WrongType} : PropertySet(p, v)
    BY <2>4, <2>5, <2>9 DEF PropertySet, Succeeds, Fails, Answer
  <2>10. CASE \E n \in 0 .. MaxValues : CallFunction(p, n)
    BY <2>4, <2>10 DEF CallFunction, Succeeds, Fails, Answer
  <2>11. CASE Info(p)
    BY <2>4, <2>11 DEF Info, Succeeds, Fails, Answer
  <2>12. CASE MonitorEnable(p, "ENABLE", TRUE)
    BY <2>4, <2>12 DEF MonitorEnable, Succeeds, Fails, Answer
  <2>13. CASE MonitorEnable(p, "DISABLE", FALSE)
    BY <2>4, <2>13 DEF MonitorEnable, Succeeds, Fails, Answer
  <2> QED
    BY <2>1, <2>6, <2>7, <2>8, <2>9, <2>10, <2>11, <2>12, <2>13 DEF Request
<1> QED
  BY <1>1, <1>2 DEF vars

\* Whatever an automation file defines, a dump prints no object twice, and a
\* listing shows just the children of the object, unless the name of the list
\* goes on in the path of an object (automation_functions.c:442-501, 568-590).
THEOREM WalksAlwaysExact == Spec => []WalksAreExact
<1>1. Init => Generated /\ WalksAreExact
  <2>1. Init => WalksAreExact
    BY DEF Init, WalksAreExact, Answer
  <2> QED
    BY <2>1, StartsGenerated
<1>2. Generated /\ WalksAreExact /\ [Next]_vars => (Generated /\ WalksAreExact)'
  BY KeepsGenerated, KeepsWalksExact
<1> QED
  BY <1>1, <1>2, PTL DEF Spec

=============================================================================
