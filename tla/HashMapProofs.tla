---------------------------- MODULE HashMapProofs -----------------------------
(***************************************************************************)
(* Theorems about the map of cbase, for any keys, hashes, lengths and      *)
(* bound on the size.                                                      *)
(***************************************************************************)
EXTENDS HashMap, FiniteSetTheorems, WellFoundedInduction, TLAPS

-----------------------------------------------------------------------------
(* Numbers.                                                                *)

\* A set of numbers has a least one.
LEMMA LeastNumber ==
  ASSUME NEW S \in SUBSET Nat, S # {}
  PROVE  \E m \in S : \A k \in S : m <= k
<1> DEFINE Less == {x \in Nat \X Nat : x[1] < x[2]}
<1>1. IsWellFoundedOn(OpToRel(<, Nat), Nat)  BY NatLessThanWellFounded
<1>2. OpToRel(<, Nat) = Less  BY DEF OpToRel
<1>3. IsWellFoundedOn(Less, Nat)  BY <1>1, <1>2
<1> HIDE DEF Less
<1>4. PICK m \in S : \A k \in S : ~(<<k, m>> \in Less)  BY <1>3, WFMin
<1>5. \A k \in S : ~(k < m)  BY <1>4 DEF Less
<1> QED  BY <1>5

LEMMA FirstIs ==
  ASSUME NEW S \in SUBSET Nat, S # {}
  PROVE  First(S) \in S /\ \A k \in S : First(S) <= k
<1>1. PICK m \in S : \A k \in S : m <= k  BY LeastNumber
<1> QED  BY <1>1 DEF First

LEMMA EvenOrOdd ==
  ASSUME NEW n \in Nat
  PROVE  \/ n % 2 = 0 /\ \E k \in Nat : n = 2 * k
         \/ n % 2 = 1 /\ \E k \in Nat : n = 2 * k + 1
<1>1. n = (2 * (n \div 2)) + (n % 2) /\ n \div 2 \in Nat /\ n % 2 \in 0..1  OBVIOUS
<1> QED  BY <1>1

LEMMA OddProduct ==
  ASSUME NEW d \in Nat, NEW e \in Nat, d % 2 = 1, e % 2 = 1
  PROVE  (d * e) % 2 = 1
<1>1. PICK k \in Nat : d = 2 * k + 1  BY EvenOrOdd
<1>2. PICK l \in Nat : e = 2 * l + 1  BY EvenOrOdd
<1>3. d * e = 2 * (2 * k * l + k + l) + 1  BY <1>1, <1>2
<1>4. 2 * k * l + k + l \in Nat  OBVIOUS
<1> QED  BY <1>3, <1>4

LEMMA EvenFactor ==
  ASSUME NEW d \in Nat, NEW e \in Nat, d % 2 = 1, (d * e) % 2 = 0
  PROVE  \E r \in Nat : e = 2 * r
<1>1. e % 2 # 1  BY OddProduct
<1> QED  BY <1>1, EvenOrOdd

LEMMA HalfOfPower ==
  ASSUME NEW n \in Nat \ {0, 1}, PowerOfTwo(n)
  PROVE  \E m \in Nat \ {0} : n = 2 * m /\ m < n /\ PowerOfTwo(m)
<1>1. n % 2 # 1
  <2>1. n = n * 1 /\ n \in 1..n /\ 1 \in 1..n  OBVIOUS
  <2> QED  BY <2>1 DEF PowerOfTwo
<1>2. PICK m \in Nat : n = 2 * m  BY <1>1, EvenOrOdd
<1>3. ASSUME NEW d \in 1..m, NEW e \in 1..m, m = d * e, d % 2 = 1
      PROVE  d = 1
  <2>1. n = d * (2 * e)  BY <1>2, <1>3
  <2>2. d \in 1..n /\ 2 * e \in 1..n  BY <1>2
  <2> QED  BY <1>3, <2>1, <2>2 DEF PowerOfTwo
<1>4. PowerOfTwo(m)  BY <1>3 DEF PowerOfTwo
<1> QED  BY <1>2, <1>4

LEMMA DoubleOfPower ==
  ASSUME NEW n \in Nat \ {0}, PowerOfTwo(n)
  PROVE  2 * n \in Nat \ {0, 1} /\ PowerOfTwo(2 * n)
<1> SUFFICES ASSUME NEW d \in 1..(2 * n), NEW e \in 1..(2 * n), 2 * n = d * e, d % 2 = 1
             PROVE  d = 1
  BY DEF PowerOfTwo
<1>1. PICK r \in Nat : e = 2 * r /\ d * r = n
  <2>1. d \in Nat /\ e \in Nat /\ (d * e) % 2 = 0  OBVIOUS
  <2>2. PICK r \in Nat : e = 2 * r  BY <2>1, EvenFactor
  <2>3. 2 * (d * r) = 2 * n  BY <2>2
  <2>4. d * r \in Nat  BY <2>2
  <2> QED  BY <2>2, <2>3, <2>4
<1>2. r >= 1 /\ r <= n /\ d <= n
  <2>1. r # 0  BY <1>1
  <2>2. d * r >= d /\ d * r >= r  BY <2>1
  <2> QED  BY <1>1, <2>1, <2>2
<1> QED  BY <1>1, <1>2 DEF PowerOfTwo

\* What is odd has no part in a power of two.
LEMMA OddFactor ==
  ASSUME NEW n \in Nat \ {0}, PowerOfTwo(n), NEW d \in Nat, d % 2 = 1
  PROVE  \A e, q \in Nat : d * e = n * q => \E r \in Nat : e = n * r
<1> DEFINE Divides(m) == \A f, p \in Nat : d * f = m * p => \E r \in Nat : f = m * r
           Bad == {m \in Nat \ {0} : PowerOfTwo(m) /\ ~Divides(m)}
<1> SUFFICES ASSUME Bad # {} PROVE FALSE  OBVIOUS
<1>1. PICK m \in Bad : \A k \in Bad : m <= k
  <2>1. Bad \in SUBSET Nat  OBVIOUS
  <2> HIDE DEF Bad
  <2> QED  BY <2>1, LeastNumber
<1>2. CASE m = 1
  <2>1. Divides(1)  OBVIOUS
  <2> QED  BY <1>1, <1>2, <2>1
<1>3. CASE m # 1
  <2>1. PICK h \in Nat \ {0} : m = 2 * h /\ h < m /\ PowerOfTwo(h)  BY <1>1, <1>3, HalfOfPower
  <2>2. Divides(h)
    <3>1. h \in Nat \ {0} /\ h \notin Bad
      <4>1. m \in Nat /\ h \in Nat /\ ~(m <= h)  BY <1>1, <2>1
      <4> HIDE DEF Bad
      <4> QED  BY <1>1, <2>1, <4>1
    <3> HIDE DEF Divides
    <3> QED  BY <2>1, <3>1
  <2>3. ASSUME NEW f \in Nat, NEW p \in Nat, d * f = m * p
        PROVE  \E r \in Nat : f = m * r
    <3>1. d * f = 2 * (h * p) /\ h * p \in Nat  BY <2>1, <2>3
    <3>2. PICK g \in Nat : f = 2 * g /\ d * g = h * p
      <4>1. (d * f) % 2 = 0  BY <3>1
      <4>2. PICK g \in Nat : f = 2 * g  BY <4>1, EvenFactor
      <4>3. 2 * (d * g) = 2 * (h * p) /\ d * g \in Nat  BY <3>1, <4>2
      <4> QED  BY <3>1, <4>2, <4>3
    <3>3. PICK r \in Nat : g = h * r  BY <2>2, <3>2
    <3>4. f = m * r  BY <2>1, <3>2, <3>3
    <3> QED  BY <3>4
  <2> QED  BY <1>1, <2>3
<1> QED  BY <1>2, <1>3

\* There is a power of two between n and 2 * n.
LEMMA PowerAbove ==
  ASSUME NEW n \in Nat
  PROVE  \E c \in 1..(2 * n + 1) : c >= n /\ PowerOfTwo(c)
<1> DEFINE Bad == {m \in Nat : ~\E c \in 1..(2 * m + 1) : c >= m /\ PowerOfTwo(c)}
<1> SUFFICES ASSUME Bad # {} PROVE FALSE  OBVIOUS
<1>1. PICK m \in Bad : \A k \in Bad : m <= k
  <2>1. Bad \in SUBSET Nat  OBVIOUS
  <2> HIDE DEF Bad
  <2> QED  BY <2>1, LeastNumber
<1>2. PowerOfTwo(1)  BY DEF PowerOfTwo
<1>3. m > 1  BY <1>1, <1>2
<1>4. PICK c \in 1..(2 * (m - 1) + 1) : c >= m - 1 /\ PowerOfTwo(c)
  <2>1. m - 1 \in Nat /\ ~(m - 1 \in Bad)  BY <1>1, <1>3
  <2> QED  BY <2>1
<1>5. PowerOfTwo(2 * c)  BY <1>4, DoubleOfPower
<1>6. CASE c >= m  BY <1>1, <1>3, <1>4, <1>6
<1>7. CASE c = m - 1
  <2>1. 2 * c \in 1..(2 * m + 1) /\ 2 * c >= m  BY <1>3, <1>7
  <2> QED  BY <1>1, <1>5, <2>1
<1> QED  BY <1>4, <1>6, <1>7

LEMMA CapacityIs ==
  ASSUME NEW n \in Nat
  PROVE  Capacity(n) \in Nat \ {0, 1} /\ PowerOfTwo(Capacity(n))
<1> DEFINE S == {c \in 1..(2 * n + 1) : c >= n /\ PowerOfTwo(c)}
<1>1. S \in SUBSET Nat /\ S # {}  BY PowerAbove
<1>2. First(S) \in S
  <2> HIDE DEF S
  <2> QED  BY <1>1, FirstIs
<1> QED  BY <1>2, DoubleOfPower DEF Capacity

-----------------------------------------------------------------------------
(* The walk over a table.                                                  *)

LEMMA TwiceTheStep ==
  ASSUME NEW i \in Nat
  PROVE  (i + i * i) \div 2 \in Nat /\ 2 * ((i + i * i) \div 2) = i + i * i
<1>1. CASE i % 2 = 0
  <2>1. PICK k \in Nat : i = 2 * k  BY <1>1, EvenOrOdd
  <2>2. i + i * i = 2 * (k + 2 * (k * k)) /\ k + 2 * (k * k) \in Nat  BY <2>1
  <2> QED  BY <2>2
<1>2. CASE i % 2 = 1
  <2>1. PICK k \in Nat : i = 2 * k + 1  BY <1>2, EvenOrOdd
  <2>2. i + i * i = 2 * (1 + 3 * k + 2 * (k * k)) /\ 1 + 3 * k + 2 * (k * k) \in Nat  BY <2>1
  <2> QED  BY <2>2
<1> QED  BY <1>1, <1>2, EvenOrOdd

LEMMA SameRemainder ==
  ASSUME NEW a \in Nat, NEW b \in Nat, NEW n \in Nat \ {0}, a % n = b % n, a <= b
  PROVE  \E q \in Nat : b - a = n * q
<1>1. /\ a = (n * (a \div n)) + (a % n) /\ a \div n \in Nat /\ a % n \in 0..(n - 1)
      /\ b = (n * (b \div n)) + (b % n) /\ b \div n \in Nat
  OBVIOUS
<1>2. b - a = n * ((b \div n) - (a \div n))  BY <1>1
<1>3. (b \div n) - (a \div n) >= 0
  <2>1. ASSUME (b \div n) - (a \div n) < 0 PROVE FALSE
    <3>1. n * ((b \div n) - (a \div n)) < 0  BY <1>1, <2>1
    <3> QED  BY <1>2, <3>1
  <2> QED  BY <1>1, <2>1
<1>4. (b \div n) - (a \div n) \in Nat  BY <1>1, <1>3
<1> QED  BY <1>2, <1>4, Zenon

\* No two steps of a walk look at the same slot.
LEMMA StepsDiffer ==
  ASSUME NEW n \in Nat \ {0}, PowerOfTwo(n), NEW h \in Nat,
         NEW i \in 0..(n - 1), NEW j \in 0..(n - 1), i < j
  PROVE  Visit(h, i, n) # Visit(h, j, n)
<1> SUFFICES ASSUME Visit(h, i, n) = Visit(h, j, n) PROVE FALSE  OBVIOUS
<1> DEFINE x == (i + i * i) \div 2
           y == (j + j * j) \div 2
<1>1. x \in Nat /\ y \in Nat /\ 2 * x = i + i * i /\ 2 * y = j + j * j  BY TwiceTheStep
<1> HIDE DEF x, y
<1>2. (h + x) % n = (h + y) % n  BY DEF Visit, x, y
<1>3. x <= y
  <2>1. i * i <= j * j  OBVIOUS
  <2> QED  BY <1>1, <2>1
<1>4. PICK q \in Nat : y - x = n * q
  <2>1. h + x \in Nat /\ h + y \in Nat /\ h + x <= h + y  BY <1>1, <1>3
  <2>2. PICK q \in Nat : (h + y) - (h + x) = n * q  BY <1>2, <2>1, SameRemainder
  <2> QED  BY <1>1, <2>2
<1> DEFINE d == j - i
           s == j + i + 1
           m == 2 * n
<1>5. d \in Nat \ {0} /\ s \in Nat \ {0} /\ m \in Nat \ {0} /\ d < m /\ s < m  OBVIOUS
<1>6. PowerOfTwo(m)  BY DoubleOfPower
<1>7. d * s = m * q
  <2>1. d * s = (j + j * j) - (i + i * i)  OBVIOUS
  <2>2. d * s = 2 * (y - x)  BY <1>1, <2>1
  <2> QED  BY <1>4, <2>2
<1>8. d % 2 = 1 \/ s % 2 = 1
  <2>1. s = d + 2 * i + 1  OBVIOUS
  <2> QED  BY <1>5, <2>1
<1> HIDE DEF d, s, m
<1>9. ASSUME NEW e \in Nat \ {0}, e < m, NEW r \in Nat, e = m * r PROVE FALSE
  <2>1. r # 0  BY <1>5, <1>9
  <2>2. m * r >= m  BY <1>5, <2>1
  <2> QED  BY <1>5, <1>9, <2>2
<1>10. CASE d % 2 = 1
  <2>1. d \in Nat /\ s \in Nat  BY <1>5
  <2>2. PICK r \in Nat : s = m * r  
    <3>1. \A e, p \in Nat : d * e = m * p => \E r \in Nat : e = m * r
      BY <1>5, <1>6, <1>10, OddFactor
    <3> QED  BY <1>4, <1>7, <2>1, <3>1, Zenon
  <2> QED  BY <1>5, <1>9, <2>2
<1>11. CASE s % 2 = 1
  <2>1. s * d = m * q  BY <1>5, <1>7
  <2>2. d \in Nat /\ s \in Nat  BY <1>5
  <2>3. PICK r \in Nat : d = m * r  
    <3>1. \A e, p \in Nat : s * e = m * p => \E r \in Nat : e = m * r
      BY <1>5, <1>6, <1>11, OddFactor
    <3> QED  BY <1>4, <2>1, <2>2, <3>1, Zenon
  <2> QED  BY <1>5, <1>9, <2>3
<1> QED  BY <1>8, <1>10, <1>11

LEMMA VisitType ==
  ASSUME NEW n \in Nat \ {0}, NEW h \in Nat, NEW i \in Nat
  PROVE  Visit(h, i, n) \in 0..(n - 1)
<1>1. (i + i * i) \div 2 \in Nat  BY TwiceTheStep
<1> QED  BY <1>1 DEF Visit

\* The triangular steps of hash_probe_ (hash.c:432) look at every slot of the table
\* before they look at one again, whatever the hash.
THEOREM EverySlot ==
  ASSUME NEW n \in Nat \ {0}, PowerOfTwo(n), NEW h \in Nat, NEW x \in 0..(n - 1)
  PROVE  \E i \in 0..(n - 1) : Visit(h, i, n) = x
<1> DEFINE S == 0..(n - 1)
           f == [i \in S |-> Visit(h, i, n)]
<1>1. f \in [S -> S]
  <2>1. \A i \in S : i \in Nat  OBVIOUS
  <2>2. \A i \in S : Visit(h, i, n) \in S  BY <2>1, VisitType
  <2> QED  BY <2>2
<1>2. \A i, j \in S : f[i] = f[j] => i = j
  <2>1. \A i, j \in S : i < j => Visit(h, i, n) # Visit(h, j, n)  BY StepsDiffer
  <2>2. \A i, j \in S : i < j \/ j < i \/ i = j  OBVIOUS
  <2> QED  BY <2>1, <2>2
<1>3. IsFiniteSet(S)  BY FS_Interval
<1> HIDE DEF f
<1>4. f \in Injection(S, S)  BY <1>1, <1>2 DEF Injection, IsInjective
<1>5. f \in Surjection(S, S)  BY <1>3, <1>4, FS_Injection
<1>6. PICK i \in S : f[i] = x  BY <1>5 DEF Surjection
<1> QED  BY <1>6 DEF f

-----------------------------------------------------------------------------
(* Tables.                                                                 *)

Places(n) == 0..(n - 1)

\* Slot x is looked at for a key of hash h, and no free slot ends the walk before it.
Reaches(h, t, n, x) ==
  \E i \in Places(n) : /\ Visit(h, i, n) = x
                       /\ \A j \in Places(i) : t[Visit(h, j, n)].state # "free"

Holds(t, n, k, v) == \E x \in Places(n) : t[x] = Used(k, v)
HasKey(t, n, k) == \E x \in Places(n) : t[x].state = "used" /\ t[x].key = k

\* Every key in a table is where its walk finds it, and nowhere else.
GoodTable(hs, t, n) ==
  /\ n \in Nat \ {0} /\ PowerOfTwo(n) /\ hs \in [Keys -> Nat] /\ t \in [Places(n) -> Slots]
  /\ \A x \in Places(n) : t[x].state = "used" => Reaches(hs[t[x].key], t, n, x)
  /\ \A x, y \in Places(n) :
        t[x].state = "used" /\ t[y].state = "used" /\ t[x].key = t[y].key => x = y

LEMMA SlotIs ==
  ASSUME NEW s \in Slots
  PROVE  /\ s.state \in {"free", "deleted", "used"}
         /\ s.state = "free" => s = FREE
         /\ s.state = "deleted" => s = DELETED
         /\ s.state = "used" => s.key \in Keys /\ s.value \in Values /\ s = Used(s.key, s.value)
BY DEF Slots, FREE, DELETED, Used

LEMMA UsedIs ==
  ASSUME NEW k, NEW v
  PROVE  /\ Used(k, v).state = "used" /\ Used(k, v).key = k /\ Used(k, v).value = v
         /\ k \in Keys /\ v \in Values => Used(k, v) \in Slots
         /\ FREE.state = "free" /\ DELETED.state = "deleted" /\ FREE \in Slots /\ DELETED \in Slots
BY DEF Slots, FREE, DELETED, Used

\* The walk does not pass a free slot.
LEMMA WalkIs ==
  ASSUME NEW t, NEW n, NEW k \in Keys, GoodTable(hash, t, n)
  PROVE  /\ Walk(t, n, k) \subseteq Places(n)
         /\ \A i \in Places(n) : i \in Walk(t, n, k) <=>
               \A j \in Places(i) : t[Visit(hash[k], j, n)].state # "free"
<1>1. n \in Nat  BY DEF GoodTable
<1> QED  BY <1>1 DEF Walk, Places

LEMMA Probing ==
  ASSUME NEW t, NEW n, NEW k \in Keys, GoodTable(hash, t, n)
  PROVE  /\ Found(t, n, k) <=> HasKey(t, n, k)
         /\ Found(t, n, k) =>
              /\ Slot(t, n, k) \in Places(n)
              /\ t[Slot(t, n, k)].state = "used" /\ t[Slot(t, n, k)].key = k
<1>1. n \in Nat \ {0} /\ PowerOfTwo(n) /\ hash[k] \in Nat  BY DEF GoodTable
<1>2. Walk(t, n, k) \subseteq Places(n)  BY WalkIs
<1>3. ASSUME NEW x \in Places(n), t[x].state = "used", t[x].key = k
      PROVE  Found(t, n, k)
  <2>1. PICK i \in Places(n) : /\ Visit(hash[k], i, n) = x
                               /\ \A j \in Places(i) : t[Visit(hash[k], j, n)].state # "free"
    BY <1>3 DEF GoodTable, Reaches
  <2>2. i \in Walk(t, n, k)  BY <2>1, WalkIs
  <2>3. i \in Hits(t, n, k)  BY <1>3, <2>1, <2>2 DEF Hits
  <2> QED  BY <2>3 DEF Found
<1>4. ASSUME Found(t, n, k)
      PROVE  /\ Slot(t, n, k) \in Places(n)
             /\ t[Slot(t, n, k)].state = "used" /\ t[Slot(t, n, k)].key = k
  <2> DEFINE S == Hits(t, n, k)
  <2>1. S \in SUBSET Nat /\ S # {}  BY <1>1, <1>2, <1>4 DEF Found, Hits, Places
  <2>2. First(S) \in S
    <3> HIDE DEF S
    <3> QED  BY <2>1, FirstIs
  <2>3. First(S) \in Nat  BY <2>1, <2>2
  <2>4. Visit(hash[k], First(S), n) \in Places(n)  BY <1>1, <2>3, VisitType DEF Places
  <2> QED  BY <2>2, <2>4 DEF Slot, Hits
<1> QED  BY <1>3, <1>4 DEF HasKey

\* A walk over a table with a free slot finds room, and nothing free before it.
LEMMA Room ==
  ASSUME NEW t, NEW n, NEW k \in Keys, GoodTable(hash, t, n), NEW x \in Places(n), t[x].state = "free"
  PROVE  /\ Gaps(t, n, k) # {}
         /\ Target(t, n, k) \in Places(n) /\ t[Target(t, n, k)].state # "used"
         /\ Reaches(hash[k], t, n, Target(t, n, k))
<1>1. n \in Nat \ {0} /\ PowerOfTwo(n) /\ hash[k] \in Nat  BY DEF GoodTable
<1>2. Walk(t, n, k) \subseteq Places(n)  BY WalkIs
<1> DEFINE stops == {i \in Places(n) : t[Visit(hash[k], i, n)].state = "free"}
<1>3. PICK m \in stops : \A j \in stops : m <= j
  <2>1. stops \in SUBSET Nat  BY <1>1 DEF Places
  <2>2. stops # {}
    <3>1. x \in 0..(n - 1)  BY DEF Places
    <3>2. PICK i \in 0..(n - 1) : Visit(hash[k], i, n) = x  BY <1>1, <3>1, EverySlot
    <3> QED  BY <3>2 DEF Places
  <2> HIDE DEF stops
  <2> QED  BY <2>1, <2>2, LeastNumber
<1>4. m \in Walk(t, n, k)  BY <1>1, <1>3 DEF Walk, Places
<1> DEFINE S == Gaps(t, n, k)
<1>5. S # {} /\ S \subseteq Walk(t, n, k)  BY <1>3, <1>4 DEF Gaps
<1>6. \A i \in S : t[Visit(hash[k], i, n)].state # "used"  BY DEF Gaps
<1>7. S \in SUBSET Nat  BY <1>1, <1>2, <1>5 DEF Places
<1>8. First(S) \in S
  <2> HIDE DEF S
  <2> QED  BY <1>5, <1>7, FirstIs
<1>9. First(S) \in Places(n) /\ First(S) \in Nat /\ First(S) \in Walk(t, n, k)  BY <1>2, <1>5, <1>7, <1>8
<1>10. \A j \in Places(First(S)) : t[Visit(hash[k], j, n)].state # "free"  BY <1>9, WalkIs
<1>11. Target(t, n, k) = Visit(hash[k], First(S), n)  BY DEF Target
<1>12. Target(t, n, k) \in Places(n)  BY <1>1, <1>9, <1>11, VisitType DEF Places
<1> HIDE DEF S
<1> QED  BY <1>5, <1>6, <1>8, <1>9, <1>10, <1>11, <1>12 DEF Reaches, S

\* The table new is t with k and v put into slot x.
PutInto(hs, t, n, x, k, v, new) ==
  /\ GoodTable(hs, new, n)
  /\ \A a, b : Holds(new, n, a, b) <=> Holds(t, n, a, b) \/ (a = k /\ b = v)
  /\ In(new, "used") = In(t, "used") \union {x} /\ x \notin In(t, "used")
  /\ In(new, "free") = In(t, "free") \ {x}
  /\ In(new, "deleted") \subseteq In(t, "deleted")

\* The table new is t with s in slot x instead of a key.
Replaced(hs, t, n, x, s, new) ==
  /\ GoodTable(hs, new, n)
  /\ \A a, b : Holds(new, n, a, b) <=> (a # t[x].key /\ Holds(t, n, a, b)) \/ s = Used(a, b)
  /\ In(new, "free") = In(t, "free")
  /\ s.state = "used" => In(new, "used") = In(t, "used")
  /\ s.state = "deleted" => In(new, "used") = In(t, "used") \ {x}
  /\ x \in In(t, "used")

\* Putting a new key where its walk leads.
LEMMA PutGood ==
  ASSUME NEW hs, NEW t, NEW n, GoodTable(hs, t, n), NEW k \in Keys, NEW v \in Values,
         ~HasKey(t, n, k), NEW x \in Places(n), t[x].state # "used", Reaches(hs[k], t, n, x),
         NEW new, new = [t EXCEPT ![x] = Used(k, v)]
  PROVE  PutInto(hs, t, n, x, k, v, new)
<1>1. /\ n \in Nat \ {0} /\ PowerOfTwo(n) /\ hs \in [Keys -> Nat] /\ t \in [Places(n) -> Slots]
      /\ \A y \in Places(n) : t[y].state = "used" => Reaches(hs[t[y].key], t, n, y)
      /\ \A y, z \in Places(n) :
            t[y].state = "used" /\ t[z].state = "used" /\ t[y].key = t[z].key => y = z
  BY DEF GoodTable
<1>2. new \in [Places(n) -> Slots]  BY <1>1, UsedIs
<1>3. /\ new[x].state = "used" /\ new[x].key = k /\ new[x] = Used(k, v)
      /\ \A y \in Places(n) : y # x => new[y] = t[y]
  BY <1>1, UsedIs
<1>4. \A y \in Places(n) : t[y].state # "free" => new[y].state # "free"  BY <1>3
<1>5. ASSUME NEW h \in Nat, NEW y, Reaches(h, t, n, y)
      PROVE  Reaches(h, new, n, y)
  <2>1. PICK i \in Places(n) : /\ Visit(h, i, n) = y
                               /\ \A j \in Places(i) : t[Visit(h, j, n)].state # "free"
    BY <1>5 DEF Reaches
  <2>2. ASSUME NEW j \in Places(i) PROVE new[Visit(h, j, n)].state # "free"
    <3>1. j \in Nat  BY <1>1, <2>1 DEF Places
    <3>2. Visit(h, j, n) \in Places(n)  BY <1>1, <3>1, VisitType DEF Places
    <3> QED  BY <1>4, <2>1, <3>2
  <2> QED  BY <2>1, <2>2 DEF Reaches
<1>6. ASSUME NEW y \in Places(n), new[y].state = "used"
      PROVE  Reaches(hs[new[y].key], new, n, y)
  <2>1. CASE y = x
    <3>1. hs[k] \in Nat  BY <1>1
    <3> QED  BY <1>3, <1>5, <2>1, <3>1
  <2>2. CASE y # x
    <3>1. t[y] = new[y] /\ t[y].state = "used"  BY <1>3, <1>6, <2>2
    <3>2. t[y].key \in Keys  BY <1>1, <3>1, SlotIs
    <3>3. hs[t[y].key] \in Nat  BY <1>1, <3>2
    <3> QED  BY <1>1, <1>5, <3>1, <3>3
  <2> QED  BY <2>1, <2>2
<1>7. ASSUME NEW y \in Places(n), NEW z \in Places(n),
             new[y].state = "used", new[z].state = "used", new[y].key = new[z].key
      PROVE  y = z
  <2>1. \A w \in Places(n) : t[w].state = "used" => t[w].key # k  BY DEF HasKey
  <2> QED  BY <1>1, <1>3, <1>7, <2>1
<1>8. GoodTable(hs, new, n)  BY <1>1, <1>2, <1>6, <1>7 DEF GoodTable
<1>9. \A a, b : Holds(new, n, a, b) <=> Holds(t, n, a, b) \/ (a = k /\ b = v)
  <2>1. ASSUME NEW a, NEW b, Holds(new, n, a, b) PROVE Holds(t, n, a, b) \/ (a = k /\ b = v)
    <3>1. PICK y \in Places(n) : new[y] = Used(a, b)  BY <2>1 DEF Holds
    <3>2. CASE y = x
      <4>1. Used(a, b) = Used(k, v)  BY <1>3, <3>1, <3>2
      <4> QED  BY <4>1, UsedIs
    <3> QED  BY <1>3, <3>1, <3>2 DEF Holds
  <2>2. ASSUME NEW a, NEW b, Holds(t, n, a, b) PROVE Holds(new, n, a, b)
    <3>1. PICK y \in Places(n) : t[y] = Used(a, b)  BY <2>2 DEF Holds
    <3>2. y # x  BY <3>1, UsedIs
    <3> QED  BY <1>3, <3>1, <3>2 DEF Holds
  <2>3. Holds(new, n, k, v)  BY <1>3 DEF Holds
  <2> QED  BY <2>1, <2>2, <2>3
<1>10. DOMAIN new = Places(n) /\ DOMAIN t = Places(n)  BY <1>1, <1>2
<1> QED  BY <1>3, <1>8, <1>9, <1>10 DEF In, PutInto

\* A removed key leaves a tombstone, a value may change: no walk is cut.
LEMMA ReplaceGood ==
  ASSUME NEW hs, NEW t, NEW n, GoodTable(hs, t, n), NEW x \in Places(n), t[x].state = "used",
         NEW s \in Slots, s.state # "free", s.state = "used" => s.key = t[x].key,
         NEW new, new = [t EXCEPT ![x] = s]
  PROVE  Replaced(hs, t, n, x, s, new)
<1>1. /\ n \in Nat \ {0} /\ PowerOfTwo(n) /\ hs \in [Keys -> Nat] /\ t \in [Places(n) -> Slots]
      /\ \A y \in Places(n) : t[y].state = "used" => Reaches(hs[t[y].key], t, n, y)
      /\ \A y, z \in Places(n) :
            t[y].state = "used" /\ t[z].state = "used" /\ t[y].key = t[z].key => y = z
  BY DEF GoodTable
<1>2. new \in [Places(n) -> Slots]  BY <1>1
<1>3. new[x] = s /\ \A y \in Places(n) : y # x => new[y] = t[y]  BY <1>1
<1>4. \A y \in Places(n) : t[y].state # "free" <=> new[y].state # "free"  BY <1>3
<1>5. ASSUME NEW h, NEW y, Reaches(h, t, n, y), h \in Nat
      PROVE  Reaches(h, new, n, y)
  <2>1. PICK i \in Places(n) : /\ Visit(h, i, n) = y
                               /\ \A j \in Places(i) : t[Visit(h, j, n)].state # "free"
    BY <1>5 DEF Reaches
  <2>2. ASSUME NEW j \in Places(i) PROVE new[Visit(h, j, n)].state # "free"
    <3>1. j \in Nat  BY <1>1, <2>1 DEF Places
    <3>2. Visit(h, j, n) \in Places(n)  BY <1>1, <1>5, <3>1, VisitType DEF Places
    <3> QED  BY <1>4, <2>1, <3>2
  <2> QED  BY <2>1, <2>2 DEF Reaches
<1>6. \A y \in Places(n) : new[y].state = "used" => t[y].state = "used" /\ t[y].key = new[y].key
  BY <1>3
<1>7. ASSUME NEW y \in Places(n), new[y].state = "used"
      PROVE  Reaches(hs[new[y].key], new, n, y)
  <2>1. t[y].state = "used" /\ t[y].key = new[y].key  BY <1>6, <1>7
  <2>2. t[y].key \in Keys  BY <1>1, <2>1, SlotIs
  <2>3. hs[t[y].key] \in Nat  BY <1>1, <2>2
  <2> QED  BY <1>1, <1>5, <2>1, <2>3
<1>8. GoodTable(hs, new, n)  BY <1>1, <1>2, <1>6, <1>7 DEF GoodTable
<1>9. \A a, b : Holds(new, n, a, b) <=> (a # t[x].key /\ Holds(t, n, a, b)) \/ s = Used(a, b)
  <2>1. ASSUME NEW a, NEW b, Holds(new, n, a, b)
        PROVE  (a # t[x].key /\ Holds(t, n, a, b)) \/ s = Used(a, b)
    <3>1. PICK y \in Places(n) : new[y] = Used(a, b)  BY <2>1 DEF Holds
    <3>2. CASE y = x  BY <1>3, <3>1, <3>2
    <3>3. CASE y # x
      <4>1. t[y] = Used(a, b)  BY <1>3, <3>1, <3>3
      <4>2. t[y].state = "used" /\ t[y].key = a  BY <4>1, UsedIs
      <4> QED  BY <1>1, <3>3, <4>1, <4>2 DEF Holds
    <3> QED  BY <3>2, <3>3
  <2>2. ASSUME NEW a, NEW b, Holds(t, n, a, b), a # t[x].key PROVE Holds(new, n, a, b)
    <3>1. PICK y \in Places(n) : t[y] = Used(a, b)  BY <2>2 DEF Holds
    <3>2. y # x  BY <2>2, <3>1, UsedIs
    <3> QED  BY <1>3, <3>1, <3>2 DEF Holds
  <2>3. ASSUME NEW a, NEW b, s = Used(a, b) PROVE Holds(new, n, a, b)
    BY <1>3, <2>3 DEF Holds
  <2> QED  BY <2>1, <2>2, <2>3
<1>10. DOMAIN new = Places(n) /\ DOMAIN t = Places(n)  BY <1>1, <1>2
<1> QED  BY <1>3, <1>4, <1>8, <1>9, <1>10 DEF In, Replaced

LEMMA EmptyGood ==
  ASSUME NEW hs \in [Keys -> Nat], NEW n \in Nat \ {0}, PowerOfTwo(n)
  PROVE  /\ GoodTable(hs, Empty(n), n)
         /\ \A a, b : ~Holds(Empty(n), n, a, b)
         /\ In(Empty(n), "used") = {} /\ In(Empty(n), "deleted") = {}
         /\ In(Empty(n), "free") = Places(n)
<1>1. Empty(n) \in [Places(n) -> Slots]  BY UsedIs DEF Empty, Places
<1>2. \A x \in Places(n) : Empty(n)[x] = FREE /\ Empty(n)[x].state = "free"
  BY UsedIs DEF Empty, Places
<1>3. GoodTable(hs, Empty(n), n)  BY <1>1, <1>2 DEF GoodTable
<1>4. \A a, b : ~Holds(Empty(n), n, a, b)
  <2>1. \A a, b : Used(a, b).state = "used"  BY UsedIs
  <2> QED  BY <1>2, <2>1 DEF Holds
<1>5. DOMAIN Empty(n) = Places(n)  BY <1>1
<1> QED  BY <1>2, <1>3, <1>4, <1>5 DEF In

-----------------------------------------------------------------------------
(* Counting.                                                               *)

LEMMA PlacesFinite ==
  ASSUME NEW n \in Nat
  PROVE  IsFiniteSet(Places(n)) /\ Cardinality(Places(n)) = n
BY FS_Interval DEF Places

LEMMA SlotsCounted ==
  ASSUME NEW hs, NEW t, NEW n, GoodTable(hs, t, n), NEW st
  PROVE  /\ In(t, st) \subseteq Places(n) /\ IsFiniteSet(In(t, st))
         /\ Cardinality(In(t, st)) \in 0..n
<1>1. n \in Nat /\ DOMAIN t = Places(n)  BY DEF GoodTable
<1>2. In(t, st) \subseteq Places(n)  BY <1>1 DEF In
<1>3. IsFiniteSet(In(t, st)) /\ Cardinality(In(t, st)) <= n
  BY <1>1, <1>2, PlacesFinite, FS_Subset
<1>4. Cardinality(In(t, st)) \in Nat  BY <1>3, FS_CardinalityType
<1> QED  BY <1>1, <1>2, <1>3, <1>4

\* Without tombstones what is not used is free.
LEMMA FreeCounted ==
  ASSUME NEW hs, NEW t, NEW n, GoodTable(hs, t, n), In(t, "deleted") = {}
  PROVE  Cardinality(In(t, "free")) = n - Cardinality(In(t, "used"))
<1>1. n \in Nat /\ DOMAIN t = Places(n) /\ \A x \in Places(n) : t[x] \in Slots  BY DEF GoodTable
<1>2. In(t, "free") = Places(n) \ In(t, "used")
  <2>1. \A x \in Places(n) : t[x].state \in {"free", "deleted", "used"}  BY <1>1, SlotIs
  <2>2. \A x \in Places(n) : t[x].state # "deleted"  BY <1>1 DEF In
  <2> QED  BY <1>1, <2>1, <2>2 DEF In
<1>3. In(t, "used") \subseteq Places(n)  BY SlotsCounted
<1>4. Places(n) \cap In(t, "used") = In(t, "used")  BY <1>3
<1>5. Cardinality(Places(n) \ In(t, "used"))
        = Cardinality(Places(n)) - Cardinality(Places(n) \cap In(t, "used"))
  BY <1>1, PlacesFinite, FS_Difference
<1> QED  BY <1>1, <1>2, <1>4, <1>5, PlacesFinite

-----------------------------------------------------------------------------
(* Growing.                                                                *)

\* A slot carried over goes to the first free slot of its walk.
LEMMA CarryGood ==
  ASSUME NEW t, NEW n, GoodTable(hash, t, n), NEW k \in Keys, NEW v \in Values,
         ~HasKey(t, n, k), NEW x \in Places(n), t[x].state = "free"
  PROVE  /\ GoodTable(hash, Carry(t, n, Used(k, v)), n)
         /\ \A a, b : Holds(Carry(t, n, Used(k, v)), n, a, b) <=>
                         Holds(t, n, a, b) \/ (a = k /\ b = v)
         /\ \E y \in Places(n) : /\ y \notin In(t, "used")
                                 /\ In(Carry(t, n, Used(k, v)), "used") = In(t, "used") \union {y}
         /\ In(Carry(t, n, Used(k, v)), "deleted") \subseteq In(t, "deleted")
<1>1. n \in Nat \ {0} /\ PowerOfTwo(n) /\ hash[k] \in Nat  BY DEF GoodTable
<1>2. PICK y \in Places(n) : /\ Carry(t, n, Used(k, v)) = [t EXCEPT ![y] = Used(k, v)]
                             /\ t[y].state # "used" /\ Reaches(hash[k], t, n, y)
  <2> DEFINE S == {i \in 0..(n - 1) : t[Visit(hash[k], i, n)].state = "free"}
             m == First(S)
  <2>1. S \in SUBSET Nat /\ S # {}
    <3>1. x \in 0..(n - 1)  BY DEF Places
    <3>2. PICK i \in 0..(n - 1) : Visit(hash[k], i, n) = x  BY <1>1, <3>1, EverySlot
    <3>3. i \in S  BY <3>2
    <3> QED  BY <1>1, <3>3
  <2>2. m \in S /\ \A i \in S : m <= i
    <3> HIDE DEF S
    <3> QED  BY <2>1, FirstIs
  <2>3. m \in Nat /\ m \in Places(n) /\ t[Visit(hash[k], m, n)].state = "free"
    BY <1>1, <2>2 DEF Places
  <2> HIDE DEF m
  <2>4. Visit(hash[k], m, n) \in Places(n)  BY <1>1, <2>3, VisitType DEF Places
  <2>5. \A j \in Places(m) : t[Visit(hash[k], j, n)].state # "free"
    <3>1. \A j \in Places(m) : j \in 0..(n - 1) /\ ~(m <= j)  BY <1>1, <2>3 DEF Places
    <3> QED  BY <2>2, <3>1
  <2>6. Reaches(hash[k], t, n, Visit(hash[k], m, n))  BY <2>3, <2>5 DEF Reaches
  <2>7. Used(k, v).key = k  BY UsedIs
  <2>8. Carry(t, n, Used(k, v)) = [t EXCEPT ![Visit(hash[k], m, n)] = Used(k, v)]
    BY <2>7 DEF Carry, m
  <2> QED  BY <2>3, <2>4, <2>6, <2>8
<1>3. PutInto(hash, t, n, y, k, v, Carry(t, n, Used(k, v)))  BY <1>2, PutGood
<1> QED  BY <1>3 DEF PutInto

Grown(g, j) ==
  IF j = 0 THEN Empty(2 * capacity)
  ELSE IF slots[j - 1].state = "used"
  THEN Carry(g[j - 1], 2 * capacity, slots[j - 1])
  ELSE g[j - 1]

\* The recursion of Carried has a solution.
LEMMA GrownExists ==
  ASSUME NEW n \in Nat
  PROVE  \E g : g = [j \in 0..n |-> Grown(g, j)]
<1> DEFINE Bad == {m \in Nat : ~\E g : g = [j \in 0..m |-> Grown(g, j)]}
<1> SUFFICES ASSUME Bad # {} PROVE FALSE  OBVIOUS
<1>1. PICK m \in Bad : \A k \in Bad : m <= k
  <2>1. Bad \in SUBSET Nat  OBVIOUS
  <2> HIDE DEF Bad
  <2> QED  BY <2>1, LeastNumber
<1>2. CASE m = 0
  <2> DEFINE g == [j \in 0..0 |-> Empty(2 * capacity)]
  <2>1. \A j \in 0..0 : Grown(g, j) = Empty(2 * capacity)  BY DEF Grown
  <2>2. g = [j \in 0..0 |-> Grown(g, j)]  BY <2>1
  <2> HIDE DEF g
  <2> QED  BY <1>1, <1>2, <2>2
<1>3. CASE m # 0
  <2>1. m \in Nat /\ m - 1 \in Nat  BY <1>3
  <2>2. m - 1 \notin Bad
    <3>1. ~(m <= m - 1)  BY <2>1
    <3> QED  BY <1>1, <3>1, Zenon
  <2>3. PICK g : g = [j \in 0..(m - 1) |-> Grown(g, j)]  BY <2>1, <2>2
  <2> DEFINE f == [j \in 0..m |-> Grown(g, j)]
  <2>4. \A j \in 0..(m - 1) : f[j] = g[j]
    <3>1. \A j \in 0..(m - 1) : j \in 0..m  BY <2>1
    <3>2. \A j \in 0..(m - 1) : g[j] = Grown(g, j)  BY <2>3
    <3> QED  BY <3>1, <3>2
  <2> HIDE DEF f
  <2>5. ASSUME NEW j \in 0..m PROVE Grown(f, j) = Grown(g, j)
    <3>1. CASE j = 0  BY <3>1 DEF Grown
    <3>2. CASE j # 0
      <4>1. j - 1 \in 0..(m - 1)  BY <2>1, <3>2
      <4> QED  BY <2>4, <4>1 DEF Grown
    <3> QED  BY <3>1, <3>2
  <2>6. f = [j \in 0..m |-> Grown(f, j)]  BY <2>5 DEF f
  <2> QED  BY <1>1, <2>6
<1> QED  BY <1>2, <1>3

LEMMA CarriedIs ==
  ASSUME capacity \in Nat
  PROVE  \A j \in 0..capacity : Carried[j] = Grown(Carried, j)
<1>1. \E g : g = [j \in 0..capacity |-> Grown(g, j)]  BY GrownExists
<1>2. Carried = CHOOSE g : g = [j \in 0..capacity |-> Grown(g, j)]  BY DEF Carried, Grown
<1>3. Carried = [j \in 0..capacity |-> Grown(Carried, j)]  BY <1>1, <1>2, Zenon
<1> QED  BY <1>3

LEMMA HasKeyIs ==
  ASSUME NEW hs, NEW t, NEW n, GoodTable(hs, t, n), NEW k
  PROVE  HasKey(t, n, k) <=> \E v \in Values : Holds(t, n, k, v)
<1>1. ASSUME NEW x \in Places(n), t[x].state = "used", t[x].key = k
      PROVE  \E v \in Values : Holds(t, n, k, v)
  <2>1. t[x] \in Slots  BY DEF GoodTable
  <2>2. t[x].value \in Values /\ t[x] = Used(k, t[x].value)  BY <1>1, <2>1, SlotIs
  <2> QED  BY <2>2 DEF Holds
<1>2. ASSUME NEW v, NEW x \in Places(n), t[x] = Used(k, v)
      PROVE  HasKey(t, n, k)
  <2>1. t[x].state = "used" /\ t[x].key = k  BY <1>2, UsedIs
  <2> QED  BY <2>1 DEF HasKey
<1> QED  BY <1>1, <1>2 DEF Holds, HasKey

\* A table with fewer keys than slots and no tombstone has a free slot.
LEMMA FreeSlot ==
  ASSUME NEW hs, NEW t, NEW n, GoodTable(hs, t, n), Cardinality(In(t, "free")) > 0
  PROVE  \E x \in Places(n) : t[x].state = "free"
<1>1. In(t, "free") # {}  BY FS_EmptySet
<1>2. In(t, "free") \subseteq Places(n)  BY SlotsCounted
<1> QED  BY <1>1, <1>2 DEF In

UsedBelow(j) == {x \in Places(j) : slots[x].state = "used"}

\* The larger table holds what the first j slots hold.
GrownTo(j) ==
  /\ GoodTable(hash, Carried[j], 2 * capacity)
  /\ In(Carried[j], "deleted") = {}
  /\ \A a, b : Holds(Carried[j], 2 * capacity, a, b) <=> \E x \in Places(j) : slots[x] = Used(a, b)
  /\ Cardinality(In(Carried[j], "used")) = Cardinality(UsedBelow(j))

LEMMA BelowCounted ==
  ASSUME NEW j \in Nat
  PROVE  IsFiniteSet(UsedBelow(j)) /\ Cardinality(UsedBelow(j)) \in 0..j
<1>1. UsedBelow(j) \subseteq Places(j)  BY DEF UsedBelow
<1>2. IsFiniteSet(UsedBelow(j)) /\ Cardinality(UsedBelow(j)) <= j
  BY <1>1, PlacesFinite, FS_Subset
<1>3. Cardinality(UsedBelow(j)) \in Nat  BY <1>2, FS_CardinalityType
<1> QED  BY <1>2, <1>3

LEMMA GrownToNone ==
  ASSUME GoodTable(hash, slots, capacity)
  PROVE  GrownTo(0)
<1>1. capacity \in Nat \ {0} /\ PowerOfTwo(capacity) /\ hash \in [Keys -> Nat]  BY DEF GoodTable
<1>2. Carried[0] = Empty(2 * capacity)
  <2>1. 0 \in 0..capacity  BY <1>1
  <2> QED  BY <1>1, <2>1, CarriedIs DEF Grown
<1>3. 2 * capacity \in Nat \ {0} /\ PowerOfTwo(2 * capacity)  BY <1>1, DoubleOfPower
<1> DEFINE n == 2 * capacity
<1>4. /\ GoodTable(hash, Empty(n), n)
      /\ \A a, b : ~Holds(Empty(n), n, a, b)
      /\ In(Empty(n), "used") = {} /\ In(Empty(n), "deleted") = {}
  <2> HIDE DEF n
  <2> QED  BY <1>1, <1>3, EmptyGood DEF n
<1>5. Places(0) = {} /\ UsedBelow(0) = {}  BY DEF Places, UsedBelow
<1> QED  BY <1>2, <1>4, <1>5 DEF GrownTo

\* The next slot is carried over, when it is used.
LEMMA GrownToNext ==
  ASSUME GoodTable(hash, slots, capacity), NEW i \in Places(capacity), GrownTo(i)
  PROVE  GrownTo(i + 1)
<1> DEFINE n == 2 * capacity
           t == Carried[i]
<1>1. /\ capacity \in Nat \ {0} /\ slots \in [Places(capacity) -> Slots]
      /\ \A x, y \in Places(capacity) :
            slots[x].state = "used" /\ slots[y].state = "used" /\ slots[x].key = slots[y].key => x = y
  BY DEF GoodTable
<1>2. i \in Nat /\ i < capacity /\ i \in Places(capacity)  BY <1>1 DEF Places
<1>3. Carried[i + 1] = Grown(Carried, i + 1)
  <2>1. i + 1 \in 0..capacity  BY <1>1, <1>2
  <2> QED  BY <1>1, <2>1, CarriedIs
<1>4. Carried[i + 1] = IF slots[i].state = "used" THEN Carry(t, n, slots[i]) ELSE t
  <2>1. i + 1 # 0 /\ (i + 1) - 1 = i  BY <1>2
  <2> QED  BY <1>3, <2>1 DEF Grown
<1>5. \A x : x \in Places(i + 1) <=> x \in Places(i) \/ x = i  BY <1>2 DEF Places
<1>6. i \notin Places(i) /\ \A x \in Places(i) : x \in Places(capacity)  BY <1>2, <1>1 DEF Places
<1>7. /\ GoodTable(hash, t, n) /\ In(t, "deleted") = {}
      /\ \A a, b : Holds(t, n, a, b) <=> \E x \in Places(i) : slots[x] = Used(a, b)
      /\ Cardinality(In(t, "used")) = Cardinality(UsedBelow(i))
  BY DEF GrownTo
<1> HIDE DEF n, t
<1>8. CASE slots[i].state = "used"
  <2>1. PICK k \in Keys, v \in Values : slots[i] = Used(k, v)
    <3>1. slots[i] \in Slots  BY <1>1, <1>2
    <3> QED  BY <1>8, <3>1, SlotIs
  <2>2. ~HasKey(t, n, k)
    <3>1. SUFFICES ASSUME HasKey(t, n, k) PROVE FALSE  OBVIOUS
    <3>2. PICK w \in Values : Holds(t, n, k, w)  BY <1>7, <3>1, HasKeyIs
    <3>3. PICK x \in Places(i) : slots[x] = Used(k, w)  BY <1>7, <3>2
    <3>4. slots[x].state = "used" /\ slots[x].key = k /\ slots[i].key = k
      BY <2>1, <3>3, UsedIs
    <3>5. x = i  BY <1>1, <1>2, <1>6, <1>8, <3>4
    <3> QED  BY <1>6, <3>5
  <2>3. PICK x \in Places(n) : t[x].state = "free"
    <3>1. Cardinality(UsedBelow(i)) \in 0..i  BY <1>2, BelowCounted
    <3>2. Cardinality(In(t, "free")) = n - Cardinality(In(t, "used"))
      BY <1>7, FreeCounted
    <3>3. Cardinality(In(t, "free")) > 0  BY <1>1, <1>2, <1>7, <3>1, <3>2 DEF n
    <3> QED  BY <1>7, <3>3, FreeSlot
  <2> DEFINE new == Carry(t, n, Used(k, v))
  <2>4. /\ GoodTable(hash, new, n)
        /\ \A a, b : Holds(new, n, a, b) <=> Holds(t, n, a, b) \/ (a = k /\ b = v)
        /\ \E y \in Places(n) : y \notin In(t, "used") /\ In(new, "used") = In(t, "used") \union {y}
        /\ In(new, "deleted") \subseteq In(t, "deleted")
    BY <1>7, <2>2, <2>3, CarryGood
  <2>5. Carried[i + 1] = new  BY <1>4, <1>8, <2>1
  <2> HIDE DEF new
  <2>6. \A a, b : Holds(new, n, a, b) <=> \E y \in Places(i + 1) : slots[y] = Used(a, b)
    <3>1. ASSUME NEW a, NEW b PROVE slots[i] = Used(a, b) <=> a = k /\ b = v
      BY <2>1, UsedIs
    <3> QED  BY <1>5, <1>7, <2>4, <3>1
  <2>7. Cardinality(In(new, "used")) = Cardinality(UsedBelow(i + 1))
    <3>1. IsFiniteSet(In(t, "used"))  BY <1>7, SlotsCounted
    <3>2. Cardinality(In(new, "used")) = Cardinality(In(t, "used")) + 1
      BY <2>4, <3>1, FS_AddElement
    <3>3. UsedBelow(i + 1) = UsedBelow(i) \union {i} /\ i \notin UsedBelow(i)
      BY <1>5, <1>6, <1>8 DEF UsedBelow
    <3>4. Cardinality(UsedBelow(i + 1)) = Cardinality(UsedBelow(i)) + 1
      BY <1>2, <3>3, BelowCounted, FS_AddElement
    <3> QED  BY <1>7, <3>2, <3>4
  <2>8. In(new, "deleted") = {}  BY <1>7, <2>4
  <2> QED  BY <2>4, <2>5, <2>6, <2>7, <2>8 DEF GrownTo, n
<1>9. CASE slots[i].state # "used"
  <2>1. Carried[i + 1] = t  BY <1>4, <1>9
  <2>2. \A a, b : slots[i] # Used(a, b)  BY <1>9, UsedIs
  <2>3. \A a, b : Holds(t, n, a, b) <=> \E y \in Places(i + 1) : slots[y] = Used(a, b)
    BY <1>5, <1>7, <2>2
  <2>4. UsedBelow(i + 1) = UsedBelow(i)  BY <1>5, <1>9 DEF UsedBelow
  <2> QED  BY <1>7, <2>1, <2>3, <2>4 DEF GrownTo, n
<1> QED  BY <1>8, <1>9

LEMMA ResizedGood ==
  ASSUME GoodTable(hash, slots, capacity)
  PROVE  GrownTo(capacity)
<1>1. capacity \in Nat  BY DEF GoodTable
<1> DEFINE Bad == {j \in 0..capacity : ~GrownTo(j)}
<1>2. Bad = {}
  <2> SUFFICES ASSUME Bad # {} PROVE FALSE  OBVIOUS
  <2>1. PICK m \in Bad : \A k \in Bad : m <= k
    <3>1. Bad \in SUBSET Nat  BY <1>1
    <3> HIDE DEF Bad
    <3> QED  BY <3>1, LeastNumber
  <2>2. m # 0  BY <2>1, GrownToNone
  <2>3. m - 1 \in Nat /\ m - 1 \in 0..capacity /\ m - 1 \in Places(capacity) /\ (m - 1) + 1 = m
    BY <1>1, <2>1, <2>2 DEF Places
  <2>4. m - 1 \notin Bad
    <3>1. ~(m <= m - 1)  BY <2>3
    <3> HIDE DEF Bad
    <3> QED  BY <2>1, <3>1
  <2>5. GrownTo(m - 1)  BY <2>3, <2>4
  <2>6. GrownTo((m - 1) + 1)
    <3> DEFINE i == m - 1
    <3>1. i \in Places(capacity) /\ GrownTo(i)  BY <2>3, <2>5
    <3> HIDE DEF i
    <3>2. GrownTo(i + 1)  BY <3>1, GrownToNext
    <3> QED  BY <3>2 DEF i
  <2> QED  BY <2>1, <2>3, <2>6
<1> QED  BY <1>1, <1>2

-----------------------------------------------------------------------------
(* The state.                                                              *)

\* A table and its two counters.
Right(hs, t, n, len, occ) ==
  /\ GoodTable(hs, t, n) /\ n > 1
  /\ len = Cardinality(In(t, "used"))
  /\ occ = n - Cardinality(In(t, "free"))

AllRight == Right(hash, slots, capacity, length, occupied)

\* What a table holds after a call, compared with before.
Same(t, n, new, m) == \A a, b : Holds(new, m, a, b) <=> Holds(t, n, a, b)
WithKey(t, n, new, m, k, v) ==
  \A a, b : Holds(new, m, a, b) <=> (a # k /\ Holds(t, n, a, b)) \/ (a = k /\ b = v)
WithoutKey(t, n, new, m, k) == \A a, b : Holds(new, m, a, b) <=> a # k /\ Holds(t, n, a, b)

HasFree(t, n) == \E x \in Places(n) : t[x].state = "free"

\* The table an insertion works on has a free slot and holds what the map holds.
LEMMA ReadyIs ==
  ASSUME AllRight
  PROVE  /\ Right(hash, Ready.slots, Ready.capacity, length, Ready.occupied)
         /\ Same(slots, capacity, Ready.slots, Ready.capacity)
         /\ HasFree(Ready.slots, Ready.capacity)
<1>1. /\ GoodTable(hash, slots, capacity) /\ capacity > 1
      /\ length = Cardinality(In(slots, "used"))
      /\ occupied = capacity - Cardinality(In(slots, "free"))
  BY DEF AllRight, Right
<1>2. /\ capacity \in Nat
      /\ Cardinality(In(slots, "used")) \in 0..capacity
      /\ Cardinality(In(slots, "free")) \in 0..capacity
  BY <1>1, SlotsCounted DEF GoodTable
<1>3. CASE TooFull
  <2> DEFINE n == 2 * capacity
             t == Carried[capacity]
  <2>1. Ready.slots = t /\ Ready.capacity = n /\ Ready.occupied = length
    BY <1>3 DEF Ready, Resized
  <2>2. GrownTo(capacity)  BY <1>1, ResizedGood
  <2>3. /\ GoodTable(hash, t, n) /\ In(t, "deleted") = {}
        /\ \A a, b : Holds(t, n, a, b) <=> \E x \in Places(capacity) : slots[x] = Used(a, b)
        /\ Cardinality(In(t, "used")) = Cardinality(UsedBelow(capacity))
    BY <2>2 DEF GrownTo
  <2>4. n \in Nat /\ n > 1  BY <1>1, <1>2
  <2>5. n - capacity > 0  BY <1>1, <1>2
  <2> HIDE DEF t
  <2>6. UsedBelow(capacity) = In(slots, "used")  BY <1>1 DEF UsedBelow, In, GoodTable
  <2>7. Cardinality(In(t, "free")) = n - length
    <3> HIDE DEF n
    <3>1. Cardinality(In(t, "free")) = n - Cardinality(In(t, "used"))  BY <2>3, FreeCounted
    <3> QED  BY <1>1, <2>3, <2>6, <3>1
  <2>8. Cardinality(In(t, "free")) > 0 /\ length = n - Cardinality(In(t, "free"))
    BY <1>1, <1>2, <2>7
  <2> HIDE DEF n
  <2>9. HasFree(t, n)  BY <2>3, <2>8, FreeSlot DEF HasFree
  <2>10. Same(slots, capacity, t, n)  BY <2>3 DEF Same, Holds
  <2>11. Right(hash, t, n, length, length)  BY <1>1, <2>3, <2>4, <2>6, <2>8 DEF Right
  <2> QED  BY <2>1, <2>9, <2>10, <2>11
<1>4. CASE ~TooFull
  <2>1. Ready.slots = slots /\ Ready.capacity = capacity /\ Ready.occupied = occupied
    BY <1>4 DEF Ready
  <2>2. Cardinality(In(slots, "free")) > 0  BY <1>1, <1>2, <1>4 DEF TooFull
  <2>3. HasFree(slots, capacity)  BY <1>1, <2>2, FreeSlot DEF HasFree
  <2>4. Same(slots, capacity, slots, capacity)  BY DEF Same
  <2> QED  BY <2>1, <2>3, <2>4 DEF AllRight
<1> QED  BY <1>3, <1>4

\* A key that is not there is put where its probing ended.
LEMMA PutRight ==
  ASSUME NEW t, NEW n, NEW len, NEW occ, Right(hash, t, n, len, occ), HasFree(t, n),
         NEW k \in Keys, NEW v \in Values, ~HasKey(t, n, k)
  PROVE  /\ Right(hash, [t EXCEPT ![Target(t, n, k)] = Used(k, v)], n, len + 1,
                  occ + (IF t[Target(t, n, k)].state = "free" THEN 1 ELSE 0))
         /\ WithKey(t, n, [t EXCEPT ![Target(t, n, k)] = Used(k, v)], n, k, v)
<1> DEFINE x == Target(t, n, k)
           new == [t EXCEPT ![x] = Used(k, v)]
<1>1. /\ GoodTable(hash, t, n) /\ n > 1
      /\ len = Cardinality(In(t, "used")) /\ occ = n - Cardinality(In(t, "free"))
  BY DEF Right
<1>2. x \in Places(n) /\ t[x].state # "used" /\ Reaches(hash[k], t, n, x)
  BY <1>1, Room DEF HasFree
<1> HIDE DEF x
<1>3. PutInto(hash, t, n, x, k, v, new)  BY <1>1, <1>2, PutGood
<1> HIDE DEF new
<1>4. /\ GoodTable(hash, new, n)
      /\ \A a, b : Holds(new, n, a, b) <=> Holds(t, n, a, b) \/ (a = k /\ b = v)
      /\ In(new, "used") = In(t, "used") \union {x} /\ x \notin In(t, "used")
      /\ In(new, "free") = In(t, "free") \ {x}
  BY <1>3 DEF PutInto
<1>5. /\ IsFiniteSet(In(t, "used")) /\ IsFiniteSet(In(t, "free"))
      /\ Cardinality(In(t, "used")) \in Nat /\ Cardinality(In(t, "free")) \in Nat
      /\ n \in Nat /\ DOMAIN t = Places(n)
  BY <1>1, SlotsCounted, FS_CardinalityType DEF GoodTable
<1>6. len + 1 = Cardinality(In(new, "used"))
  <2>1. Cardinality(In(t, "used") \union {x}) = Cardinality(In(t, "used")) + 1
    BY <1>4, <1>5, FS_AddElement
  <2> QED  BY <1>1, <1>4, <2>1
<1>7. occ + (IF t[x].state = "free" THEN 1 ELSE 0) = n - Cardinality(In(new, "free"))
  <2>1. CASE t[x].state = "free"
    <3>1. x \in In(t, "free")  BY <1>2, <1>5, <2>1 DEF In
    <3>2. Cardinality(In(t, "free") \ {x}) = Cardinality(In(t, "free")) - 1
      BY <1>5, <3>1, FS_RemoveElement
    <3> QED  BY <1>1, <1>4, <1>5, <2>1, <3>2
  <2>2. CASE t[x].state # "free"
    <3>1. In(new, "free") = In(t, "free")  BY <1>4, <2>2 DEF In
    <3> QED  BY <1>1, <1>5, <2>2, <3>1
  <2> QED  BY <2>1, <2>2
<1>8. Right(hash, new, n, len + 1, occ + (IF t[x].state = "free" THEN 1 ELSE 0))
  BY <1>1, <1>4, <1>6, <1>7 DEF Right
<1>9. WithKey(t, n, new, n, k, v)
  <2>1. \A b : ~Holds(t, n, k, b)
    <3>1. ASSUME NEW b, Holds(t, n, k, b) PROVE HasKey(t, n, k)
      BY <3>1, UsedIs DEF Holds, HasKey
    <3> QED  BY <3>1
  <2>2. ASSUME NEW a, NEW b
        PROVE  Holds(new, n, a, b) <=> (a # k /\ Holds(t, n, a, b)) \/ (a = k /\ b = v)
    BY <1>4, <2>1
  <2> QED  BY <2>2 DEF WithKey
<1> QED  BY <1>8, <1>9 DEF x, new

\* A key that is found gets a new value.
LEMMA OverwriteRight ==
  ASSUME NEW t, NEW n, NEW len, NEW occ, Right(hash, t, n, len, occ),
         NEW k \in Keys, NEW v \in Values, Found(t, n, k)
  PROVE  /\ Right(hash, [t EXCEPT ![Slot(t, n, k)].value = v], n, len, occ)
         /\ WithKey(t, n, [t EXCEPT ![Slot(t, n, k)].value = v], n, k, v)
<1> DEFINE x == Slot(t, n, k)
           new == [t EXCEPT ![x] = Used(k, v)]
<1>1. /\ GoodTable(hash, t, n) /\ n > 1
      /\ len = Cardinality(In(t, "used")) /\ occ = n - Cardinality(In(t, "free"))
  BY DEF Right
<1>2. x \in Places(n) /\ t[x].state = "used" /\ t[x].key = k  BY <1>1, Probing
<1> HIDE DEF x
<1>3. /\ Used(k, v) \in Slots /\ Used(k, v).state = "used" /\ Used(k, v).key = k
      /\ "used" # "free" /\ "used" # "deleted"
  BY UsedIs
<1>4. Replaced(hash, t, n, x, Used(k, v), new)  BY <1>1, <1>2, <1>3, ReplaceGood
<1>5. [t EXCEPT ![x].value = v] = new
  <2>1. t[x] \in Slots  BY <1>1, <1>2 DEF GoodTable
  <2>2. t[x] = Used(k, t[x].value)  BY <1>2, <2>1, SlotIs
  <2>3. [t[x] EXCEPT !.value = v] = Used(k, v)  BY <2>2 DEF Used
  <2> QED  BY <2>3
<1> HIDE DEF new
<1>6. /\ GoodTable(hash, new, n) /\ In(new, "free") = In(t, "free")
      /\ In(new, "used") = In(t, "used")
      /\ \A a, b : Holds(new, n, a, b) <=> (a # k /\ Holds(t, n, a, b)) \/ Used(k, v) = Used(a, b)
  BY <1>2, <1>3, <1>4 DEF Replaced
<1>7. Right(hash, new, n, len, occ)  BY <1>1, <1>6 DEF Right
<1>8. WithKey(t, n, new, n, k, v)
  <2>1. \A a, b : Used(k, v) = Used(a, b) <=> a = k /\ b = v  BY UsedIs
  <2> QED  BY <1>6, <2>1 DEF WithKey
<1> QED  BY <1>5, <1>7, <1>8 DEF x

\* A key that is found leaves a tombstone.
LEMMA RemoveRight ==
  ASSUME NEW t, NEW n, NEW len, NEW occ, Right(hash, t, n, len, occ),
         NEW k \in Keys, Found(t, n, k)
  PROVE  /\ Right(hash, [t EXCEPT ![Slot(t, n, k)] = DELETED], n, len - 1, occ)
         /\ WithoutKey(t, n, [t EXCEPT ![Slot(t, n, k)] = DELETED], n, k)
<1> DEFINE x == Slot(t, n, k)
           new == [t EXCEPT ![x] = DELETED]
<1>1. /\ GoodTable(hash, t, n) /\ n > 1
      /\ len = Cardinality(In(t, "used")) /\ occ = n - Cardinality(In(t, "free"))
  BY DEF Right
<1>2. x \in Places(n) /\ t[x].state = "used" /\ t[x].key = k  BY <1>1, Probing
<1> HIDE DEF x
<1>3. DELETED \in Slots /\ DELETED.state = "deleted"  BY UsedIs DEF DELETED, FREE
<1>4. Replaced(hash, t, n, x, DELETED, new)  BY <1>1, <1>2, <1>3, ReplaceGood
<1> HIDE DEF new
<1>5. /\ GoodTable(hash, new, n) /\ In(new, "free") = In(t, "free")
      /\ In(new, "used") = In(t, "used") \ {x} /\ x \in In(t, "used")
      /\ \A a, b : Holds(new, n, a, b) <=> (a # k /\ Holds(t, n, a, b)) \/ DELETED = Used(a, b)
  BY <1>2, <1>3, <1>4 DEF Replaced
<1>6. IsFiniteSet(In(t, "used"))  BY <1>1, SlotsCounted
<1>7. Cardinality(In(new, "used")) = Cardinality(In(t, "used")) - 1
  BY <1>5, <1>6, FS_RemoveElement
<1>8. Right(hash, new, n, len - 1, occ)  BY <1>1, <1>5, <1>7 DEF Right
<1>9. WithoutKey(t, n, new, n, k)
  <2>1. \A a, b : DELETED # Used(a, b)  BY <1>3, UsedIs
  <2> QED  BY <1>5, <2>1 DEF WithoutKey
<1> QED  BY <1>8, <1>9 DEF x, new

-----------------------------------------------------------------------------
(* The operations.                                                         *)

Answers == BOOLEAN \union Values \union {NoValue}

HInv ==
  /\ hash \in [Keys -> Hashes]
  /\ AllRight
  /\ answer \in Answers

LEMMA FoundIs ==
  ASSUME NEW t, NEW n, NEW len, NEW occ, Right(hash, t, n, len, occ), NEW k \in Keys
  PROVE  Found(t, n, k) <=> HasKey(t, n, k)
BY Probing DEF Right

LEMMA SameKeys ==
  ASSUME NEW hs, NEW t, NEW n, GoodTable(hs, t, n),
         NEW new, NEW m, GoodTable(hs, new, m), Same(t, n, new, m), NEW k
  PROVE  HasKey(new, m, k) <=> HasKey(t, n, k)
<1>1. HasKey(t, n, k) <=> \E v \in Values : Holds(t, n, k, v)  BY HasKeyIs
<1>2. HasKey(new, m, k) <=> \E v \in Values : Holds(new, m, k, v)  BY HasKeyIs
<1> QED  BY <1>1, <1>2 DEF Same

\* A new key is put into the table an insertion works on.
LEMMA PutStep ==
  ASSUME AllRight, NEW k \in Keys, NEW v \in Values,
         ~HasKey(slots, capacity, k), capacity' = Ready.capacity, hash' = hash, Put(Ready, k, v)
  PROVE  /\ AllRight'
         /\ WithKey(slots, capacity, slots', capacity', k, v)
         /\ answer' = TRUE
<1> DEFINE t == Ready.slots
           n == Ready.capacity
           occ == Ready.occupied
           i == Target(t, n, k)
           new == [t EXCEPT ![i] = Used(k, v)]
<1>1. /\ Right(hash, t, n, length, occ) /\ Same(slots, capacity, t, n) /\ HasFree(t, n)
  BY ReadyIs
<1>2. /\ slots' = new /\ length' = length + 1 /\ answer' = TRUE
      /\ occupied' = occ + (IF t[i].state = "free" THEN 1 ELSE 0)
  BY DEF Put
<1> HIDE DEF t, n, occ
<1>3. ~HasKey(t, n, k)
  <2>1. GoodTable(hash, slots, capacity) /\ GoodTable(hash, t, n)  BY <1>1 DEF AllRight, Right
  <2> QED  BY <1>1, <2>1, SameKeys
<1>4. /\ Right(hash, new, n, length + 1, occ + (IF t[i].state = "free" THEN 1 ELSE 0))
      /\ WithKey(t, n, new, n, k, v)
  BY <1>1, <1>3, PutRight
<1>5. capacity' = n  BY DEF n
<1> HIDE DEF new, i
<1>6. Right(hash', slots', capacity', length', occupied')  BY <1>2, <1>4, <1>5
<1>7. WithKey(slots, capacity, new, n, k, v)  BY <1>1, <1>4 DEF WithKey, Same
<1> QED  BY <1>2, <1>5, <1>6, <1>7 DEF AllRight

\* Where the key is there already, insert changes no value and overwrite one.
LEMMA InsertStep ==
  ASSUME AllRight, NEW k \in Keys, NEW v \in Values, insert(k, v)
  PROVE  /\ AllRight' /\ hash' = hash
         /\ HasKey(slots, capacity, k) =>
               Same(slots, capacity, slots', capacity') /\ answer' = FALSE
         /\ ~HasKey(slots, capacity, k) =>
               WithKey(slots, capacity, slots', capacity', k, v) /\ answer' = TRUE
<1>1. /\ capacity' = Ready.capacity /\ hash' = hash
      /\ IF Found(Ready.slots, Ready.capacity, k)
         THEN slots' = Ready.slots /\ occupied' = Ready.occupied /\ answer' = FALSE /\ length' = length
         ELSE Put(Ready, k, v)
  BY DEF insert
<1> DEFINE t == Ready.slots
           n == Ready.capacity
           occ == Ready.occupied
<1>2. Right(hash, t, n, length, occ) /\ Same(slots, capacity, t, n)  BY ReadyIs
<1>3. Found(t, n, k) <=> HasKey(slots, capacity, k)
  <2> HIDE DEF t, n, occ
  <2>1. GoodTable(hash, slots, capacity) /\ GoodTable(hash, t, n)  BY <1>2 DEF AllRight, Right
  <2> QED  BY <1>2, <2>1, SameKeys, FoundIs
<1>4. CASE HasKey(slots, capacity, k)
  <2>1. slots' = t /\ capacity' = n /\ occupied' = occ /\ answer' = FALSE /\ length' = length
    BY <1>1, <1>3, <1>4
  <2> HIDE DEF t, n, occ
  <2>2. Right(hash', slots', capacity', length', occupied')  BY <1>1, <1>2, <2>1
  <2> QED  BY <1>1, <1>2, <1>4, <2>1, <2>2 DEF AllRight
<1>5. CASE ~HasKey(slots, capacity, k)
  <2>1. Put(Ready, k, v)  BY <1>1, <1>3, <1>5
  <2>2. /\ AllRight' /\ WithKey(slots, capacity, slots', capacity', k, v) /\ answer' = TRUE
    BY <1>1, <1>5, <2>1, PutStep
  <2> QED  BY <1>1, <1>5, <2>2
<1> QED  BY <1>4, <1>5

LEMMA OverwriteStep ==
  ASSUME AllRight, NEW k \in Keys, NEW v \in Values, overwrite(k, v)
  PROVE  /\ AllRight' /\ hash' = hash
         /\ WithKey(slots, capacity, slots', capacity', k, v) /\ answer' = TRUE
<1> DEFINE t == Ready.slots
           n == Ready.capacity
           occ == Ready.occupied
           new == [t EXCEPT ![Slot(t, n, k)].value = v]
<1>1. /\ capacity' = n /\ hash' = hash
      /\ IF Found(t, n, k)
         THEN slots' = new /\ occupied' = occ /\ answer' = TRUE /\ length' = length
         ELSE Put(Ready, k, v)
  BY DEF overwrite
<1>2. Right(hash, t, n, length, occ) /\ Same(slots, capacity, t, n)  BY ReadyIs
<1>3. Found(t, n, k) <=> HasKey(slots, capacity, k)
  <2> HIDE DEF t, n, occ
  <2>1. GoodTable(hash, slots, capacity) /\ GoodTable(hash, t, n)  BY <1>2 DEF AllRight, Right
  <2> QED  BY <1>2, <2>1, SameKeys, FoundIs
<1>4. CASE HasKey(slots, capacity, k)
  <2>1. slots' = new /\ capacity' = n /\ occupied' = occ /\ answer' = TRUE /\ length' = length
    BY <1>1, <1>3, <1>4
  <2> HIDE DEF t, n, occ
  <2>2. Right(hash, new, n, length, occ) /\ WithKey(t, n, new, n, k, v)
    BY <1>2, <1>3, <1>4, OverwriteRight
  <2> HIDE DEF new
  <2>3. Right(hash', slots', capacity', length', occupied')  BY <1>1, <2>1, <2>2
  <2>4. WithKey(slots, capacity, new, n, k, v)  BY <1>2, <2>2 DEF WithKey, Same
  <2> QED  BY <1>1, <2>1, <2>3, <2>4 DEF AllRight
<1>5. CASE ~HasKey(slots, capacity, k)
  <2>1. Put(Ready, k, v)  BY <1>1, <1>3, <1>5
  <2> QED  BY <1>1, <1>5, <2>1, PutStep
<1> QED  BY <1>4, <1>5

LEMMA LookupStep ==
  ASSUME AllRight, NEW k \in Keys, lookup(k)
  PROVE  /\ AllRight' /\ hash' = hash /\ slots' = slots
         /\ HasKey(slots, capacity, k) =>
              answer' \in Values /\ Holds(slots, capacity, k, answer')
         /\ ~HasKey(slots, capacity, k) => answer' = NoValue
<1>1. /\ answer' = IF Found(slots, capacity, k) THEN slots[Slot(slots, capacity, k)].value
                   ELSE NoValue
      /\ UNCHANGED <<hash, capacity, slots, length, occupied>>
  BY DEF lookup
<1>2. AllRight'  BY <1>1 DEF AllRight
<1>3. GoodTable(hash, slots, capacity)  BY DEF AllRight, Right
<1>4. Found(slots, capacity, k) <=> HasKey(slots, capacity, k)  BY <1>3, Probing
<1>5. ASSUME HasKey(slots, capacity, k)
      PROVE  answer' \in Values /\ Holds(slots, capacity, k, answer')
  <2> DEFINE x == Slot(slots, capacity, k)
  <2>1. x \in Places(capacity) /\ slots[x].state = "used" /\ slots[x].key = k
    BY <1>3, <1>4, <1>5, Probing
  <2>2. slots[x] \in Slots  BY <1>3, <2>1 DEF GoodTable
  <2>3. slots[x].value \in Values /\ slots[x] = Used(k, slots[x].value)  BY <2>1, <2>2, SlotIs
  <2>4. answer' = slots[x].value  BY <1>1, <1>4, <1>5
  <2> QED  BY <2>1, <2>3, <2>4 DEF Holds
<1> QED  BY <1>1, <1>2, <1>4, <1>5

LEMMA RemoveStep ==
  ASSUME AllRight, NEW k \in Keys, remove(k)
  PROVE  /\ AllRight' /\ hash' = hash
         /\ WithoutKey(slots, capacity, slots', capacity', k)
         /\ answer' = HasKey(slots, capacity, k)
<1>1. /\ IF Found(slots, capacity, k)
         THEN /\ slots' = [slots EXCEPT ![Slot(slots, capacity, k)] = DELETED]
              /\ length' = length - 1 /\ answer' = TRUE
         ELSE answer' = FALSE /\ slots' = slots /\ length' = length
      /\ hash' = hash /\ capacity' = capacity /\ occupied' = occupied
  BY DEF remove
<1>2. Right(hash, slots, capacity, length, occupied)  BY DEF AllRight
<1>3. Found(slots, capacity, k) <=> HasKey(slots, capacity, k)  BY <1>2, FoundIs
<1>4. CASE Found(slots, capacity, k)
  <2> DEFINE new == [slots EXCEPT ![Slot(slots, capacity, k)] = DELETED]
  <2>1. Right(hash, new, capacity, length - 1, occupied) /\ WithoutKey(slots, capacity, new, capacity, k)
    BY <1>2, <1>4, RemoveRight
  <2>2. slots' = new /\ length' = length - 1 /\ answer' = TRUE  BY <1>1, <1>4
  <2> HIDE DEF new
  <2>3. Right(hash', slots', capacity', length', occupied')  BY <1>1, <2>1, <2>2
  <2>4. answer' = HasKey(slots, capacity, k)  BY <1>3, <1>4, <2>2 DEF HasKey
  <2> QED  BY <1>1, <2>1, <2>2, <2>3, <2>4 DEF AllRight
<1>5. CASE ~Found(slots, capacity, k)
  <2>1. answer' = FALSE /\ slots' = slots /\ length' = length  BY <1>1, <1>5
  <2>2. Right(hash', slots', capacity', length', occupied')  BY <1>1, <1>2, <2>1
  <2>3. ASSUME NEW a, NEW b
        PROVE  Holds(slots, capacity, a, b) <=> a # k /\ Holds(slots, capacity, a, b)
    <3>1. ~Holds(slots, capacity, k, b)  BY <1>3, <1>5, UsedIs DEF Holds, HasKey
    <3> QED  BY <3>1
  <2>4. WithoutKey(slots, capacity, slots', capacity', k)  BY <1>1, <2>1, <2>3 DEF WithoutKey
  <2>5. answer' = HasKey(slots, capacity, k)  BY <1>3, <1>5, <2>1 DEF HasKey
  <2> QED  BY <1>1, <2>2, <2>4, <2>5 DEF AllRight
<1> QED  BY <1>4, <1>5

\* An empty table is right, whatever it held.
LEMMA EmptyRight ==
  ASSUME NEW hs \in [Keys -> Nat], NEW n \in Nat \ {0, 1}, PowerOfTwo(n)
  PROVE  Right(hs, Empty(n), n, 0, 0)
<1>1. /\ GoodTable(hs, Empty(n), n) /\ In(Empty(n), "used") = {} /\ In(Empty(n), "free") = Places(n)
  BY EmptyGood
<1>2. Cardinality({}) = 0 /\ Cardinality(Places(n)) = n  BY FS_EmptySet, PlacesFinite
<1> QED  BY <1>1, <1>2 DEF Right

LEMMA ZeroStep ==
  ASSUME AllRight, zero
  PROVE  /\ AllRight' /\ hash' = hash /\ answer' = answer
         /\ \A a, b : ~Holds(slots', capacity', a, b)
<1>1. /\ slots' = Empty(capacity) /\ length' = 0 /\ occupied' = 0
      /\ hash' = hash /\ capacity' = capacity /\ answer' = answer
  BY DEF zero
<1>2. hash \in [Keys -> Nat] /\ capacity \in Nat \ {0, 1} /\ PowerOfTwo(capacity)
  BY DEF AllRight, Right, GoodTable
<1>3. Right(hash, Empty(capacity), capacity, 0, 0)  BY <1>2, EmptyRight
<1>4. Right(hash', slots', capacity', length', occupied')  BY <1>1, <1>3
<1>5. \A a, b : ~Holds(Empty(capacity), capacity, a, b)  BY <1>2, EmptyGood
<1> QED  BY <1>1, <1>4, <1>5 DEF AllRight

LEMMA InitRight ==
  ASSUME Init
  PROVE  HInv /\ \A a, b : ~Holds(slots, capacity, a, b)
<1>1. /\ hash \in [Keys -> Hashes] /\ slots = Empty(capacity)
      /\ length = 0 /\ occupied = 0 /\ answer = TRUE
  BY DEF Init
<1>2. hash \in [Keys -> Nat]  BY <1>1, HashesAreNumbers
<1>3. capacity \in Nat \ {0, 1} /\ PowerOfTwo(capacity)
  <2>1. PICK n \in Lengths : capacity = Capacity(n)  BY DEF Init
  <2>2. n \in Nat  BY HashesAreNumbers
  <2> QED  BY <2>1, <2>2, CapacityIs
<1>4. Right(hash, Empty(capacity), capacity, 0, 0)  BY <1>2, <1>3, EmptyRight
<1>5. AllRight  BY <1>1, <1>4 DEF AllRight
<1>6. \A a, b : ~Holds(Empty(capacity), capacity, a, b)  BY <1>2, <1>3, EmptyGood
<1>7. answer \in Answers  BY <1>1 DEF Answers
<1> QED  BY <1>1, <1>5, <1>6, <1>7 DEF HInv

LEMMA StepRight ==
  ASSUME HInv, [Next]_vars
  PROVE  HInv'
<1>1. hash \in [Keys -> Hashes] /\ AllRight /\ answer \in Answers  BY DEF HInv
<1>2. ASSUME NEW k \in Keys, NEW v \in Values, insert(k, v) PROVE HInv'
  <2>1. AllRight' /\ hash' = hash /\ answer' \in {TRUE, FALSE}  BY <1>1, <1>2, InsertStep
  <2> QED  BY <1>1, <2>1 DEF HInv, Answers
<1>3. ASSUME NEW k \in Keys, NEW v \in Values, overwrite(k, v) PROVE HInv'
  <2>1. AllRight' /\ hash' = hash /\ answer' = TRUE  BY <1>1, <1>3, OverwriteStep
  <2> QED  BY <1>1, <2>1 DEF HInv, Answers
<1>4. ASSUME NEW k \in Keys, lookup(k) PROVE HInv'
  <2>1. AllRight' /\ hash' = hash /\ (answer' \in Values \/ answer' = NoValue)
    BY <1>1, <1>4, LookupStep
  <2> QED  BY <1>1, <2>1 DEF HInv, Answers
<1>5. ASSUME NEW k \in Keys, remove(k) PROVE HInv'
  <2>1. AllRight' /\ hash' = hash /\ answer' = HasKey(slots, capacity, k)
    BY <1>1, <1>5, RemoveStep
  <2>2. HasKey(slots, capacity, k) \in BOOLEAN  BY DEF HasKey
  <2> QED  BY <1>1, <2>1, <2>2 DEF HInv, Answers
<1>6. ASSUME zero PROVE HInv'
  <2>1. AllRight' /\ hash' = hash /\ answer' = answer  BY <1>1, <1>6, ZeroStep
  <2> QED  BY <1>1, <2>1 DEF HInv, Answers
<1>7. ASSUME UNCHANGED vars PROVE HInv'
  BY <1>1, <1>7 DEF HInv, AllRight, vars
<1> QED  BY <1>2, <1>3, <1>4, <1>5, <1>6, <1>7 DEF Next

LEMMA InvConsistent ==
  ASSUME HInv
  PROVE  TableConsistent
<1>1. AllRight /\ hash \in [Keys -> Hashes] /\ answer \in Answers  BY DEF HInv
<1>2. TypeOK  BY <1>1 DEF AllRight, Right, GoodTable, TypeOK, Places, Answers
<1>3. MissesFindRoom
  <2> DEFINE t == Ready.slots
             n == Ready.capacity
  <2>1. Right(hash, t, n, length, Ready.occupied) /\ HasFree(t, n)  BY <1>1, ReadyIs
  <2> HIDE DEF t, n
  <2>2. \A k \in Keys : Gaps(t, n, k) # {}  BY <2>1, Room DEF Right, HasFree
  <2> QED  BY <2>2 DEF MissesFindRoom, t, n
<1> QED  BY <1>2, <1>3 DEF TableConsistent

(* The slots, the two counters and the walks of a map agree through any    *)
(* calls (hash.c:235, 318, 430, 471, 513): a key lies on its own walk with *)
(* no free slot before it, whatever was removed, and a probing that misses *)
(* always ends at a slot a new key may take, because a table is grown      *)
(* before its last free slot is.                                           *)
THEOREM TableConsistentAlways == Spec => []TableConsistent
<1>1. Init => HInv  BY InitRight
<1>2. HInv /\ [Next]_vars => HInv'  BY StepRight
<1>3. HInv => TableConsistent  BY InvConsistent
<1> QED  BY <1>1, <1>2, <1>3, PTL DEF Spec

-----------------------------------------------------------------------------
(* The dictionary.                                                         *)

ContentsOf(t) ==
  [k \in {t[i].key : i \in In(t, "used")} |->
     t[First({i \in In(t, "used") : t[i].key = k})].value]

\* What a right table holds is a function from keys to values.
LEMMA ContentsIs ==
  ASSUME NEW hs, NEW t, NEW n, GoodTable(hs, t, n)
  PROVE  /\ ContentsOf(t) = [k \in DOMAIN ContentsOf(t) |-> ContentsOf(t)[k]]
         /\ \A k : k \in DOMAIN ContentsOf(t) <=> HasKey(t, n, k)
         /\ \A k, v : Holds(t, n, k, v) <=> k \in DOMAIN ContentsOf(t) /\ ContentsOf(t)[k] = v
<1>1. /\ n \in Nat /\ t \in [Places(n) -> Slots] /\ DOMAIN t = Places(n)
      /\ \A x, y \in Places(n) :
            t[x].state = "used" /\ t[y].state = "used" /\ t[x].key = t[y].key => x = y
  BY DEF GoodTable
<1>2. DOMAIN ContentsOf(t) = {t[i].key : i \in In(t, "used")}  BY DEF ContentsOf
<1>3. \A k : k \in DOMAIN ContentsOf(t) <=> HasKey(t, n, k)
  BY <1>1, <1>2 DEF In, HasKey
<1>4. ASSUME NEW x \in Places(n), t[x].state = "used"
      PROVE  t[x].key \in DOMAIN ContentsOf(t) /\ ContentsOf(t)[t[x].key] = t[x].value
  <2> DEFINE S == {i \in In(t, "used") : t[i].key = t[x].key}
  <2>1. x \in S  BY <1>1, <1>4 DEF In
  <2>2. S \in SUBSET Nat  BY <1>1 DEF In, Places
  <2>3. First(S) \in S
    <3> HIDE DEF S
    <3> QED  BY <2>1, <2>2, FirstIs
  <2>4. First(S) = x  BY <1>1, <1>4, <2>3 DEF In
  <2>5. t[x].key \in DOMAIN ContentsOf(t)  BY <1>2, <2>1
  <2>6. ContentsOf(t)[t[x].key] = t[First(S)].value  BY <1>2, <2>5 DEF ContentsOf
  <2> QED  BY <2>4, <2>5, <2>6
<1>5. ASSUME NEW k, NEW v, Holds(t, n, k, v)
      PROVE  k \in DOMAIN ContentsOf(t) /\ ContentsOf(t)[k] = v
  <2>1. PICK x \in Places(n) : t[x] = Used(k, v)  BY <1>5 DEF Holds
  <2>2. t[x].state = "used" /\ t[x].key = k /\ t[x].value = v  BY <2>1, UsedIs
  <2> QED  BY <1>4, <2>2
<1>6. ASSUME NEW k \in DOMAIN ContentsOf(t)
      PROVE  Holds(t, n, k, ContentsOf(t)[k])
  <2>1. PICK x \in Places(n) : t[x].state = "used" /\ t[x].key = k  BY <1>3, <1>6 DEF HasKey
  <2>2. t[x] \in Slots  BY <1>1, <2>1
  <2>3. t[x] = Used(k, t[x].value)  BY <2>1, <2>2, SlotIs
  <2>4. ContentsOf(t)[k] = t[x].value  BY <1>4, <2>1
  <2> QED  BY <2>3, <2>4 DEF Holds
<1>7. ContentsOf(t) = [k \in DOMAIN ContentsOf(t) |-> ContentsOf(t)[k]]
  BY <1>2 DEF ContentsOf
<1> QED  BY <1>3, <1>5, <1>6, <1>7

\* A function is known by its values.
LEMMA SameFunction ==
  ASSUME NEW f, NEW g, f = [x \in DOMAIN f |-> f[x]], g = [x \in DOMAIN g |-> g[x]],
         \A x : x \in DOMAIN f <=> x \in DOMAIN g, \A x \in DOMAIN f : f[x] = g[x]
  PROVE  f = g
<1>1. DOMAIN f = DOMAIN g  OBVIOUS
<1> QED  BY <1>1

LEMMA SameContents ==
  ASSUME NEW hs, NEW t, NEW n, GoodTable(hs, t, n),
         NEW new, NEW m, GoodTable(hs, new, m), Same(t, n, new, m)
  PROVE  ContentsOf(new) = ContentsOf(t)
<1>1. /\ ContentsOf(t) = [k \in DOMAIN ContentsOf(t) |-> ContentsOf(t)[k]]
      /\ \A k, v : Holds(t, n, k, v) <=> k \in DOMAIN ContentsOf(t) /\ ContentsOf(t)[k] = v
  BY ContentsIs
<1>2. /\ ContentsOf(new) = [k \in DOMAIN ContentsOf(new) |-> ContentsOf(new)[k]]
      /\ \A k, v : Holds(new, m, k, v) <=> k \in DOMAIN ContentsOf(new) /\ ContentsOf(new)[k] = v
  BY ContentsIs
<1>3. \A k : k \in DOMAIN ContentsOf(new) <=> k \in DOMAIN ContentsOf(t)
  BY <1>1, <1>2 DEF Same
<1>4. \A k \in DOMAIN ContentsOf(new) : ContentsOf(new)[k] = ContentsOf(t)[k]
  BY <1>1, <1>2 DEF Same
<1> DEFINE f == ContentsOf(t)
           g == ContentsOf(new)
<1> HIDE DEF f, g
<1>5. g = f  BY <1>1, <1>2, <1>3, <1>4, SameFunction DEF f, g
<1> QED  BY <1>5 DEF f, g

Extended(f, k, v) == [x \in DOMAIN f \union {k} |-> IF x = k THEN v ELSE f[x]]
Reduced(f, k) == [x \in DOMAIN f \ {k} |-> f[x]]

LEMMA WithContents ==
  ASSUME NEW hs, NEW t, NEW n, GoodTable(hs, t, n), NEW k, NEW v,
         NEW new, NEW m, GoodTable(hs, new, m), WithKey(t, n, new, m, k, v)
  PROVE  ContentsOf(new) = Extended(ContentsOf(t), k, v)
<1> DEFINE f == ContentsOf(t)
           g == ContentsOf(new)
           r == [x \in DOMAIN f \union {k} |-> IF x = k THEN v ELSE f[x]]
<1>1. \A x, y : Holds(t, n, x, y) <=> x \in DOMAIN f /\ f[x] = y  BY ContentsIs
<1>2. /\ g = [x \in DOMAIN g |-> g[x]]
      /\ \A x, y : Holds(new, m, x, y) <=> x \in DOMAIN g /\ g[x] = y
  BY ContentsIs
<1> HIDE DEF f, g
<1>3. \A x, y : (x \in DOMAIN g /\ g[x] = y) <=>
                   (x # k /\ x \in DOMAIN f /\ f[x] = y) \/ (x = k /\ y = v)
  BY <1>1, <1>2 DEF WithKey
<1>4. DOMAIN g = DOMAIN f \union {k}  BY <1>3
<1>5. \A x \in DOMAIN g : g[x] = IF x = k THEN v ELSE f[x]  BY <1>3
<1>6. g = r  BY <1>2, <1>4, <1>5
<1> QED  BY <1>6 DEF f, g, Extended

LEMMA WithoutContents ==
  ASSUME NEW hs, NEW t, NEW n, GoodTable(hs, t, n), NEW k,
         NEW new, NEW m, GoodTable(hs, new, m), WithoutKey(t, n, new, m, k)
  PROVE  ContentsOf(new) = Reduced(ContentsOf(t), k)
<1> DEFINE f == ContentsOf(t)
           g == ContentsOf(new)
           r == [x \in DOMAIN f \ {k} |-> f[x]]
<1>1. \A x, y : Holds(t, n, x, y) <=> x \in DOMAIN f /\ f[x] = y  BY ContentsIs
<1>2. /\ g = [x \in DOMAIN g |-> g[x]]
      /\ \A x, y : Holds(new, m, x, y) <=> x \in DOMAIN g /\ g[x] = y
  BY ContentsIs
<1> HIDE DEF f, g
<1>3. \A x, y : (x \in DOMAIN g /\ g[x] = y) <=> (x # k /\ x \in DOMAIN f /\ f[x] = y)
  BY <1>1, <1>2 DEF WithoutKey
<1>4. DOMAIN g = DOMAIN f \ {k}  BY <1>3
<1>5. \A x \in DOMAIN g : g[x] = f[x]  BY <1>3
<1>6. g = r  BY <1>2, <1>4, <1>5
<1> QED  BY <1>6 DEF f, g, Reduced

LEMMA NoContents ==
  ASSUME NEW hs, NEW t, NEW n, GoodTable(hs, t, n), \A a, b : ~Holds(t, n, a, b)
  PROVE  ContentsOf(t) = [k \in {} |-> NoValue]
<1> DEFINE f == ContentsOf(t)
<1>1. /\ f = [k \in DOMAIN f |-> f[k]]
      /\ \A k, v : Holds(t, n, k, v) <=> k \in DOMAIN f /\ f[k] = v
  BY ContentsIs
<1> HIDE DEF f
<1>2. DOMAIN f = {}  BY <1>1
<1>3. f = [k \in {} |-> NoValue]  BY <1>1, <1>2
<1> QED  BY <1>3 DEF f

LEMMA DictionaryInit == Init => D!Init
<1> SUFFICES ASSUME Init PROVE D!Init  OBVIOUS
<1>1. GoodTable(hash, slots, capacity) /\ \A a, b : ~Holds(slots, capacity, a, b)
  BY InitRight DEF HInv, AllRight, Right
<1>2. ContentsOf(slots) = [k \in {} |-> NoValue]  BY <1>1, NoContents
<1>3. Contents = ContentsOf(slots)  BY DEF Contents, ContentsOf
<1>4. answer = TRUE  BY DEF Init
<1> QED  BY <1>2, <1>3, <1>4 DEF D!Init

LEMMA DictionaryStep ==
  ASSUME HInv, [Next]_vars
  PROVE  [D!Next]_(D!vars)
<1> DEFINE f == ContentsOf(slots)
           g == ContentsOf(slots')
<1>1. Contents = f /\ Contents' = g  BY DEF Contents, ContentsOf, In
<1>2. AllRight /\ GoodTable(hash, slots, capacity)  BY DEF HInv, AllRight, Right
<1>3. \A k : k \in DOMAIN f <=> HasKey(slots, capacity, k)  BY <1>2, ContentsIs
<1>4. \A k, v : Holds(slots, capacity, k, v) <=> k \in DOMAIN f /\ f[k] = v  BY <1>2, ContentsIs
<1>5. ASSUME AllRight', hash' = hash PROVE GoodTable(hash, slots', capacity')
  BY <1>5 DEF AllRight, Right
<1>6. ASSUME NEW k \in Keys, NEW v \in Values, insert(k, v) PROVE D!Insert(k, v)
  <2>1. GoodTable(hash, slots', capacity')  BY <1>2, <1>5, <1>6, InsertStep
  <2>2. CASE HasKey(slots, capacity, k)
    <3>1. Same(slots, capacity, slots', capacity') /\ answer' = FALSE
      BY <1>2, <1>6, <2>2, InsertStep
    <3>2. g = f  BY <1>2, <2>1, <3>1, SameContents
    <3>3. k \in DOMAIN f  BY <1>3, <2>2
    <3> HIDE DEF f, g
    <3> QED  BY <1>1, <3>1, <3>2, <3>3 DEF D!Insert, D!Held
  <2>3. CASE ~HasKey(slots, capacity, k)
    <3>1. WithKey(slots, capacity, slots', capacity', k, v) /\ answer' = TRUE
      BY <1>2, <1>6, <2>3, InsertStep
    <3>2. g = Extended(f, k, v)
      BY <1>2, <2>1, <3>1, WithContents
    <3>3. k \notin DOMAIN f  BY <1>3, <2>3
    <3> HIDE DEF f, g
    <3> QED  BY <1>1, <3>1, <3>2, <3>3 DEF D!Insert, D!Held, D!With, Extended
  <2> QED  BY <2>2, <2>3
<1>7. ASSUME NEW k \in Keys, NEW v \in Values, overwrite(k, v) PROVE D!Overwrite(k, v)
  <2>1. /\ GoodTable(hash, slots', capacity')
        /\ WithKey(slots, capacity, slots', capacity', k, v) /\ answer' = TRUE
    BY <1>2, <1>5, <1>7, OverwriteStep
  <2>2. g = Extended(f, k, v)
    BY <1>2, <2>1, WithContents
  <2> HIDE DEF f, g
  <2> QED  BY <1>1, <2>1, <2>2 DEF D!Overwrite, D!Held, D!With, Extended
<1>8. ASSUME NEW k \in Keys, lookup(k) PROVE D!Lookup(k)
  <2>1. /\ slots' = slots
        /\ HasKey(slots, capacity, k) => answer' \in Values /\ Holds(slots, capacity, k, answer')
        /\ ~HasKey(slots, capacity, k) => answer' = NoValue
    BY <1>2, <1>8, LookupStep
  <2>2. g = f  BY <2>1
  <2>3. answer' = IF k \in DOMAIN f THEN f[k] ELSE NoValue
    BY <1>3, <1>4, <2>1
  <2> HIDE DEF f, g
  <2> QED  BY <1>1, <2>2, <2>3 DEF D!Lookup, D!Held
<1>9. ASSUME NEW k \in Keys, remove(k) PROVE D!Remove(k)
  <2>1. /\ GoodTable(hash, slots', capacity')
        /\ WithoutKey(slots, capacity, slots', capacity', k)
        /\ answer' = HasKey(slots, capacity, k)
    BY <1>2, <1>5, <1>9, RemoveStep
  <2>2. g = Reduced(f, k)  BY <1>2, <2>1, WithoutContents
  <2>3. answer' = (k \in DOMAIN f)
    <3> HIDE DEF f
    <3>1. CASE HasKey(slots, capacity, k)
      <4>1. answer' = TRUE  BY <2>1, <3>1 DEF HasKey
      <4>2. k \in DOMAIN f  BY <1>3, <3>1
      <4> QED  BY <4>1, <4>2
    <3>2. CASE ~HasKey(slots, capacity, k)
      <4>1. answer' = FALSE  BY <2>1, <3>2 DEF HasKey
      <4>2. (k \in DOMAIN f) = FALSE  BY <1>3, <3>2
      <4> QED  BY <4>1, <4>2, Zenon
    <3> QED  BY <3>1, <3>2
  <2> HIDE DEF f, g
  <2> QED  BY <1>1, <2>2, <2>3 DEF D!Remove, D!Held, Reduced
<1>10. ASSUME zero PROVE D!Zero
  <2>1. /\ GoodTable(hash, slots', capacity') /\ answer' = answer
        /\ \A a, b : ~Holds(slots', capacity', a, b)
    BY <1>2, <1>5, <1>10, ZeroStep
  <2>2. g = [k \in {} |-> NoValue]  BY <2>1, NoContents
  <2> HIDE DEF f, g
  <2> QED  BY <1>1, <2>1, <2>2 DEF D!Zero
<1>11. ASSUME UNCHANGED vars PROVE UNCHANGED D!vars
  <2>1. slots' = slots /\ answer' = answer  BY <1>11 DEF vars
  <2> QED  BY <1>1, <2>1 DEF D!vars
<1> HIDE DEF f, g
<1> QED  BY <1>6, <1>7, <1>8, <1>9, <1>10, <1>11 DEF Next, D!Next

(* Through collisions, tombstones and the doubling of the table, the map   *)
(* answers as a dictionary: a key that was put in is found with its last   *)
(* value until it is removed, and no other key is found.                   *)
THEOREM DictionaryImplemented == Spec => ImplementsDictionary
<1>1. Init => HInv  BY InitRight
<1>2. HInv /\ [Next]_vars => HInv'  BY StepRight
<1>3. Init => D!Init  BY DictionaryInit
<1>4. HInv /\ [Next]_vars => [D!Next]_(D!vars)  BY DictionaryStep
<1> QED  BY <1>1, <1>2, <1>3, <1>4, PTL DEF Spec, ImplementsDictionary, D!Spec
=============================================================================
