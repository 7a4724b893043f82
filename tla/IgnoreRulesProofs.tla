-------------------------- MODULE IgnoreRulesProofs ---------------------------
(***************************************************************************)
(* Proofs about the rules file, for any files, edits and paths: the loop   *)
(* that matches a pattern is right, the menu adds one rule, and the rows   *)
(* are what the rules of the file say.                                     *)
(*                                                                         *)
(* What a recursion computes is shown by the least, or the latest,         *)
(* argument for which it would be wrong (LeastNumber, LatestState).        *)
(***************************************************************************)
EXTENDS IgnoreRules, SequenceTheorems, WellFoundedInduction, TLAPS

\* A set of numbers has a least one.
LEMMA LeastNumber ==
  ASSUME NEW S \in SUBSET Nat, S # {}
  PROVE  \E m \in S : \A k \in S : m <= k
<1> DEFINE Less == {x \in Nat \X Nat : x[1] < x[2]}
<1>1. IsWellFoundedOn(OpToRel(<, Nat), Nat)  BY NatLessThanWellFounded
<1>2. OpToRel(<, Nat) = Less  BY DEF OpToRel
<1>3. IsWellFoundedOn(Less, Nat)  BY <1>1, <1>2
<1> HIDE DEF Less
<1>4. PICK m \in S : \A k \in S : ~(<<k, m>> \in Less)  BY <1>3, WFMin
<1>5. \A k \in S : ~(k < m)  BY <1>4 DEF Less
<1> QED  BY <1>5

-----------------------------------------------------------------------------
(* The definition of matching.                                             *)

NoSlash(str, bounded, j, e) == bounded => \A k \in j..(e - 1) : str[k] # SLASH

RestFrom(pat, str, bounded, r, i) ==
  IF i = Len(pat) + 1 THEN {Len(str) + 1}
  ELSE IF pat[i] = STAR
  THEN {j \in 1..(Len(str) + 1) : \E e \in r[i + 1] : j <= e /\ NoSlash(str, bounded, j, e)}
  ELSE {j \in 1..Len(str) : str[j] = pat[i] /\ j + 1 \in r[i + 1]}

\* The recursion of Rest has a solution.
LEMMA RestExists ==
  ASSUME NEW pat, NEW str, NEW bounded, Len(pat) \in Nat
  PROVE  \E r : r = [i \in 1..(Len(pat) + 1) |-> RestFrom(pat, str, bounded, r, i)]
<1> DEFINE n == Len(pat) + 1
           F(r, i) == RestFrom(pat, str, bounded, r, i)
           Bad == {m \in 0..(n - 1) : ~\E r : r = [i \in (n - m)..n |-> F(r, i)]}
<1>1. n \in Nat /\ n >= 1  OBVIOUS
<1>2. Bad = {}
  <2> SUFFICES ASSUME Bad # {} PROVE FALSE  OBVIOUS
  <2>1. PICK m \in Bad : \A k \in Bad : m <= k
    <3>1. Bad \in SUBSET Nat  OBVIOUS
    <3> HIDE DEF Bad
    <3> QED  BY <3>1, LeastNumber
  <2>2. CASE m = 0
    <3> DEFINE g == [i \in n..n |-> {Len(str) + 1}]
    <3>1. \A i \in n..n : F(g, i) = {Len(str) + 1}  BY <1>1 DEF RestFrom
    <3>2. g = [i \in n..n |-> F(g, i)]  BY <3>1
    <3>3. n - m = n  BY <1>1, <2>2
    <3> HIDE DEF g, F, n
    <3> QED  BY <2>1, <3>2, <3>3
  <2>3. CASE m # 0
    <3>1. m \in Nat /\ m - 1 \in 0..(n - 1) /\ n - (m - 1) = (n - m) + 1 /\ n - m \in Nat
      BY <1>1, <2>1, <2>3
    <3>2. m - 1 \notin Bad
      <4>1. ~(m <= m - 1)  BY <3>1
      <4> HIDE DEF Bad
      <4> QED  BY <2>1, <4>1
    <3>3. PICK r : r = [i \in ((n - m) + 1)..n |-> F(r, i)]  BY <3>1, <3>2
    <3> DEFINE g == [i \in (n - m)..n |-> F(r, i)]
    <3> HIDE DEF F
    <3>4. \A i \in ((n - m) + 1)..n : g[i] = r[i]
      <4>1. \A i \in ((n - m) + 1)..n : i \in (n - m)..n  BY <1>1, <3>1
      <4>2. \A i \in ((n - m) + 1)..n : r[i] = F(r, i)  BY <3>3
      <4> QED  BY <4>1, <4>2
    <3> HIDE DEF g
    <3>5. ASSUME NEW i \in (n - m)..n PROVE F(g, i) = F(r, i)
      <4>1. CASE i = n  BY <4>1 DEF F, RestFrom
      <4>2. CASE i # n
        <5>1. i + 1 \in ((n - m) + 1)..n  BY <1>1, <3>1, <4>2
        <5>2. g[i + 1] = r[i + 1]  BY <3>4, <5>1
        <5> QED  BY <5>2 DEF F, RestFrom
      <4> QED  BY <4>1, <4>2
    <3>6. g = [i \in (n - m)..n |-> F(g, i)]  BY <3>5 DEF g
    <3> QED  BY <2>1, <3>6
  <2> QED  BY <2>2, <2>3
<1>3. n - 1 \in 0..(n - 1) /\ n - (n - 1) = 1  BY <1>1
<1>4. \E r : r = [i \in (n - (n - 1))..n |-> F(r, i)]  BY <1>2, <1>3
<1> QED  BY <1>3, <1>4

LEMMA RestIs ==
  ASSUME NEW pat, NEW str, NEW bounded, Len(pat) \in Nat
  PROVE  \A i \in 1..(Len(pat) + 1) :
            Rest(pat, str, bounded)[i] = RestFrom(pat, str, bounded, Rest(pat, str, bounded), i)
<1> DEFINE R == Rest(pat, str, bounded)
<1>1. \E r : r = [i \in 1..(Len(pat) + 1) |-> RestFrom(pat, str, bounded, r, i)]  BY RestExists
<1>2. R = CHOOSE r : r = [i \in 1..(Len(pat) + 1) |-> RestFrom(pat, str, bounded, r, i)]
  BY DEF Rest, RestFrom, NoSlash
<1> HIDE DEF R
<1>3. R = [i \in 1..(Len(pat) + 1) |-> RestFrom(pat, str, bounded, R, i)]  BY <1>1, <1>2, Zenon
<1> QED  BY <1>3 DEF R

\* The same, by the kind of the i-th character.
LEMMA RestCases ==
  ASSUME NEW pat, NEW str, NEW bounded, Len(pat) \in Nat, Len(str) \in Nat,
         NEW i \in 1..(Len(pat) + 1)
  PROVE  /\ Rest(pat, str, bounded)[i] \subseteq 1..(Len(str) + 1)
         /\ i = Len(pat) + 1 => Rest(pat, str, bounded)[i] = {Len(str) + 1}
         /\ i <= Len(pat) /\ pat[i] = STAR =>
               \A j \in 1..(Len(str) + 1) : j \in Rest(pat, str, bounded)[i] <=>
                  \E e \in Rest(pat, str, bounded)[i + 1] : j <= e /\ NoSlash(str, bounded, j, e)
         /\ i <= Len(pat) /\ pat[i] # STAR =>
               \A j \in 1..(Len(str) + 1) : j \in Rest(pat, str, bounded)[i] <=>
                  j <= Len(str) /\ str[j] = pat[i] /\ j + 1 \in Rest(pat, str, bounded)[i + 1]
<1> DEFINE R == Rest(pat, str, bounded)
<1>1. R[i] = RestFrom(pat, str, bounded, R, i)  BY RestIs
<1> HIDE DEF R
<1>2. i = Len(pat) + 1 => R[i] = {Len(str) + 1}  BY <1>1 DEF RestFrom
<1>3. i <= Len(pat) /\ pat[i] = STAR =>
        R[i] = {j \in 1..(Len(str) + 1) : \E e \in R[i + 1] : j <= e /\ NoSlash(str, bounded, j, e)}
  BY <1>1 DEF RestFrom
<1>4. i <= Len(pat) /\ pat[i] # STAR =>
        R[i] = {j \in 1..Len(str) : str[j] = pat[i] /\ j + 1 \in R[i + 1]}
  BY <1>1 DEF RestFrom
<1>5. i = Len(pat) + 1 \/ i <= Len(pat)  OBVIOUS
<1>6. Len(str) + 1 \in 1..(Len(str) + 1) /\ 1..Len(str) \subseteq 1..(Len(str) + 1)  OBVIOUS
<1>7. R[i] \subseteq 1..(Len(str) + 1)  BY <1>2, <1>3, <1>4, <1>5, <1>6
<1>8. \A j \in 1..(Len(str) + 1) : j \in 1..Len(str) <=> j <= Len(str)  OBVIOUS
<1> QED  BY <1>2, <1>3, <1>4, <1>7, <1>8 DEF R

\* At the end of the string only stars may be left.
LEMMA OnlyStars ==
  ASSUME NEW pat, NEW str, NEW bounded, Len(pat) \in Nat, Len(str) \in Nat
  PROVE  \A i \in 1..(Len(pat) + 1) :
           Len(str) + 1 \in Rest(pat, str, bounded)[i] <=> \A k \in i..Len(pat) : pat[k] = STAR
<1> DEFINE n == Len(pat) + 1
           end == Len(str) + 1
           R == Rest(pat, str, bounded)
           Right(i) == end \in R[i] <=> \A k \in i..Len(pat) : pat[k] = STAR
           Bad == {m \in 0..(n - 1) : ~Right(n - m)}
<1>1. Bad = {}
  <2> SUFFICES ASSUME Bad # {} PROVE FALSE  OBVIOUS
  <2>1. PICK m \in Bad : \A k \in Bad : m <= k
    <3>1. Bad \in SUBSET Nat  OBVIOUS
    <3> HIDE DEF Bad
    <3> QED  BY <3>1, LeastNumber
  <2> DEFINE i == n - m
  <2>2. i \in 1..n /\ i \in 1..(Len(pat) + 1) /\ m \in 0..(n - 1)  BY <2>1
  <2>3. CASE m = 0
    <3>1. i = Len(pat) + 1  BY <2>3
    <3>2. R[i] = {end}  BY <2>2, <3>1, RestCases
    <3>3. Right(i)  BY <3>1, <3>2
    <3> QED  BY <2>1, <3>3
  <2>4. CASE m # 0
    <3>1. m - 1 \in 0..(n - 1) /\ n - (m - 1) = i + 1 /\ i <= Len(pat) /\ i + 1 \in 1..(Len(pat) + 1)
      BY <2>2, <2>4
    <3>2. m - 1 \notin Bad
      <4>1. ~(m <= m - 1)  BY <2>2
      <4> HIDE DEF Bad
      <4> QED  BY <2>1, <4>1
    <3>3. Right(i + 1)  BY <3>1, <3>2
    <3>4. end \in 1..(Len(str) + 1)  OBVIOUS
    <3>5. R[i + 1] \subseteq 1..(Len(str) + 1)
      <4>1. \A x \in 1..(Len(pat) + 1) : R[x] \subseteq 1..(Len(str) + 1)  BY RestCases
      <4> HIDE DEF R, i
      <4> QED  BY <3>1, <4>1
    <3>6. CASE pat[i] = STAR
      <4>1. end \in R[i] <=> \E e \in R[i + 1] : end <= e /\ NoSlash(str, bounded, end, e)
        <5> HIDE DEF i
        <5>1. \A j \in 1..(Len(str) + 1) : j \in R[i] <=>
                 \E e \in R[i + 1] : j <= e /\ NoSlash(str, bounded, j, e)
          BY <2>2, <3>1, <3>6, RestCases
        <5> HIDE DEF R
        <5> QED  BY <3>4, <5>1
      <4>2. \A e \in R[i + 1] : end <= e => e = end  BY <3>5
      <4>3. NoSlash(str, bounded, end, end)
        <5>1. end..(end - 1) = {}  OBVIOUS
        <5> HIDE DEF end
        <5> QED  BY <5>1 DEF NoSlash
      <4>4. end \in R[i] <=> end \in R[i + 1]  BY <4>1, <4>2, <4>3
      <4>5. \A k : k \in i..Len(pat) <=> k = i \/ k \in (i + 1)..Len(pat)  BY <2>2, <3>1
      <4>6. (\A k \in i..Len(pat) : pat[k] = STAR) <=> (\A k \in (i + 1)..Len(pat) : pat[k] = STAR)
        <5> HIDE DEF i
        <5> QED  BY <3>6, <4>5
      <4>7. Right(i)  BY <3>3, <4>4, <4>6
      <4> QED  BY <2>1, <4>7
    <3>7. CASE pat[i] # STAR
      <4>1. ~(end <= Len(str))  OBVIOUS
      <4>2. end \notin R[i]  BY <2>2, <3>1, <3>4, <3>7, <4>1, RestCases
      <4>3. i \in i..Len(pat)  BY <2>2, <3>1
      <4>4. Right(i)  BY <3>7, <4>2, <4>3
      <4> QED  BY <2>1, <4>4
    <3> QED  BY <3>6, <3>7
  <2> QED  BY <2>3, <2>4
<1>2. ASSUME NEW i \in 1..(Len(pat) + 1) PROVE Right(i)
  <2>1. n - i \in 0..(n - 1) /\ n - (n - i) = i  OBVIOUS
  <2>2. n - i \notin Bad  BY <1>1
  <2> QED  BY <2>1, <2>2
<1> QED  BY <1>2

\* From i and e on, l characters of pattern and string are the same.
Alike(pat, str, i, e, l) == \A k \in 0..(l - 1) : str[e + k] = pat[i + k]

\* What comes before the next star has to be there, character by character.
LEMMA Literal ==
  ASSUME NEW pat, NEW str, NEW bounded, Len(pat) \in Nat, Len(str) \in Nat,
         NEW i \in 1..(Len(pat) + 1), NEW l \in Nat, i + l <= Len(pat) + 1,
         \A k \in 0..(l - 1) : pat[i + k] # STAR,
         NEW e \in Rest(pat, str, bounded)[i]
  PROVE  e + l \in Rest(pat, str, bounded)[i + l] /\ Alike(pat, str, i, e, l)
<1> DEFINE R == Rest(pat, str, bounded)
           Right(m) == e + m \in R[i + m] /\ \A k \in 0..(m - 1) : str[e + k] = pat[i + k]
           Bad == {m \in 0..l : ~Right(m)}
<1>0. e \in Nat /\ e \in 1..(Len(str) + 1)
  <2>1. R[i] \subseteq 1..(Len(str) + 1)  BY RestCases
  <2> QED  BY <2>1
<1>1. Bad = {}
  <2> SUFFICES ASSUME Bad # {} PROVE FALSE  OBVIOUS
  <2>1. PICK m \in Bad : \A k \in Bad : m <= k
    <3>1. Bad \in SUBSET Nat  OBVIOUS
    <3> HIDE DEF Bad
    <3> QED  BY <3>1, LeastNumber
  <2>2. CASE m = 0
    <3>1. e + m = e /\ i + m = i /\ 0..(m - 1) = {}  BY <1>0, <2>2
    <3>2. Right(m)  BY <3>1
    <3> QED  BY <2>1, <3>2
  <2>3. CASE m # 0
    <3> DEFINE c == m - 1
               x == i + c
               y == e + c
    <3>1. /\ m \in Nat /\ c \in 0..l /\ c \in 0..(l - 1) /\ x \in 1..(Len(pat) + 1) /\ x <= Len(pat)
          /\ x + 1 = i + m /\ y + 1 = e + m
      BY <1>0, <2>1, <2>3
    <3>2. m - 1 \notin Bad
      <4>1. ~(m <= m - 1)  BY <3>1
      <4> HIDE DEF Bad
      <4> QED  BY <2>1, <4>1
    <3>3. y \in R[x] /\ \A k \in 0..(c - 1) : str[e + k] = pat[i + k]  BY <3>1, <3>2
    <3>4. pat[x] # STAR  BY <3>1
    <3>5. y \in 1..(Len(str) + 1)
      <4>1. R[x] \subseteq 1..(Len(str) + 1)
        <5> HIDE DEF x
        <5> QED  BY <3>1, RestCases
      <4> QED  BY <3>3, <4>1
    <3>6. str[y] = pat[x] /\ y + 1 \in R[x + 1]
      <4> HIDE DEF x, y
      <4>1. \A j \in 1..(Len(str) + 1) : j \in R[x] <=>
               j <= Len(str) /\ str[j] = pat[x] /\ j + 1 \in R[x + 1]
        BY <3>1, <3>4, RestCases
      <4> QED  BY <3>3, <3>5, <4>1
    <3>7. \A k \in 0..(m - 1) : k = c \/ k \in 0..(c - 1)
      <4>1. m = c + 1 /\ c \in Nat  BY <3>1
      <4> HIDE DEF c
      <4> QED  BY <4>1
    <3>8. \A k \in 0..(m - 1) : str[e + k] = pat[i + k]  BY <3>3, <3>6, <3>7
    <3>9. Right(m)  BY <3>1, <3>6, <3>8
    <3> QED  BY <2>1, <3>9
  <2> QED  BY <2>2, <2>3
<1>2. l \in 0..l  OBVIOUS
<1>3. Right(l)  BY <1>1, <1>2
<1> QED  BY <1>3 DEF Alike

\* Going back to the last star is enough: what an earlier one would gain by taking more,
\* the last star can take itself.  A slash that it could not take stands in the way of
\* the earlier one too.
LEMMA LastStarTakes ==
  ASSUME NEW pat, NEW str, NEW bounded \in BOOLEAN, Len(pat) \in Nat, Len(str) \in Nat,
         NEW i \in 1..Len(pat), NEW l \in Nat, i + l <= Len(pat),
         \A k \in 0..(l - 1) : pat[i + k] # STAR, pat[i + l] = STAR,
         NEW a \in Nat \ {0}, Alike(pat, str, i, a, l),
         NEW e \in Rest(pat, str, bounded)[i], a < e, NoSlash(str, bounded, a, e)
  PROVE  a + l \in Rest(pat, str, bounded)[i + l]
<1> DEFINE R == Rest(pat, str, bounded)
           c == i + l
<1>1. /\ i \in 1..(Len(pat) + 1) /\ c \in 1..(Len(pat) + 1) /\ c + 1 \in 1..(Len(pat) + 1)
      /\ c <= Len(pat)
  OBVIOUS
<1>2. R[i] \subseteq 1..(Len(str) + 1)  BY <1>1, RestCases
<1>3. e \in Nat  BY <1>2
<1>4. e + l \in R[c] /\ \A k \in 0..(l - 1) : str[e + k] = pat[i + k]
  <2> HIDE DEF R, c
  <2>1. i + l <= Len(pat) + 1 /\ i \in 1..(Len(pat) + 1)  OBVIOUS
  <2>2. e + l \in Rest(pat, str, bounded)[i + l]  BY <2>1, Literal
  <2>3. Alike(pat, str, i, e, l)  BY <2>1, Literal
  <2> QED  BY <2>2, <2>3 DEF R, c, Alike
<1> HIDE DEF c
<1>5. /\ R[c] \subseteq 1..(Len(str) + 1) /\ R[c + 1] \subseteq 1..(Len(str) + 1)
  <2>1. \A x \in 1..(Len(pat) + 1) : R[x] \subseteq 1..(Len(str) + 1)  BY RestCases
  <2> HIDE DEF R
  <2> QED  BY <1>1, <2>1
<1>6. \A j \in 1..(Len(str) + 1) : j \in R[c] <=>
         \E f \in R[c + 1] : j <= f /\ NoSlash(str, bounded, j, f)
  <2>1. pat[c] = STAR  BY DEF c
  <2> QED  BY <1>1, <2>1, RestCases
<1> HIDE DEF R
<1>7. PICK f \in R[c + 1] : e + l <= f /\ NoSlash(str, bounded, e + l, f)
  BY <1>4, <1>5, <1>6
<1>8. f \in Nat  BY <1>5
<1>9. ASSUME bounded PROVE \A x \in a..(e + l - 1) : str[x] # SLASH
  <2> DEFINE Bad == {x \in a..(e + l - 1) : str[x] = SLASH}
  <2> SUFFICES ASSUME Bad # {} PROVE FALSE  OBVIOUS
  <2>1. PICK x \in Bad : \A y \in Bad : x <= y
    <3>1. Bad \in SUBSET Nat  BY <1>3
    <3> HIDE DEF Bad
    <3> QED  BY <3>1, LeastNumber
  <2>2. x \in Nat /\ x >= a /\ x <= e + l - 1 /\ str[x] = SLASH  BY <1>3, <2>1
  <2>3. x >= e
    <3>1. \A y \in a..(e - 1) : str[y] # SLASH  BY <1>9 DEF NoSlash
    <3> QED  BY <1>3, <2>2, <3>1
  <2> DEFINE k == x - e
  <2>4. k \in 0..(l - 1) /\ e + k = x /\ a + k \in a..(e + l - 1) /\ ~(x <= a + k)
    BY <1>3, <2>2, <2>3
  <2>5. str[a + k] = SLASH
    <3> HIDE DEF k
    <3> QED  BY <1>4, <2>2, <2>4 DEF Alike
  <2> QED  BY <2>1, <2>4, <2>5
<1>10. NoSlash(str, bounded, a + l, f)
  <2> SUFFICES ASSUME bounded, NEW x \in (a + l)..(f - 1) PROVE str[x] # SLASH
    BY DEF NoSlash
  <2>1. CASE x <= e + l - 1
    <3>1. x \in a..(e + l - 1)  BY <1>3, <1>8, <2>1
    <3> QED  BY <1>9, <3>1
  <2>2. CASE ~(x <= e + l - 1)
    <3>1. x \in (e + l)..(f - 1)  BY <1>3, <1>8, <2>2
    <3> QED  BY <1>7, <3>1 DEF NoSlash
  <2> QED  BY <2>1, <2>2
<1>11. a + l \in 1..(Len(str) + 1) /\ a + l <= f
  BY <1>3, <1>4, <1>5, <1>7, <1>8
<1> QED  BY <1>6, <1>7, <1>10, <1>11 DEF R, c

-----------------------------------------------------------------------------
(* The loop of work_match_pattern.                                         *)

\* Since the last star, pattern and string went side by side.
Abreast(pat, str, st) ==
  st.star_p > 0 =>
    /\ st.star_s >= 1 /\ st.p = st.star_p + 1 + (st.s - st.star_s)
    /\ Alike(pat, str, st.star_p + 1, st.star_s, st.s - st.star_s)
    /\ \A k \in 0..(st.s - st.star_s - 1) : pat[st.star_p + 1 + k] # STAR

\* The rest matches as it stands, or when the last star takes more.
Ready(pat, str, bounded, st) == st.s \in Rest(pat, str, bounded)[st.p]
Retry(pat, str, bounded, st) ==
  /\ st.star_p > 0
  /\ \E e \in Rest(pat, str, bounded)[st.star_p + 1] :
        st.star_s < e /\ NoSlash(str, bounded, st.star_s, e)
Able(pat, str, bounded, st) == Ready(pat, str, bounded, st) \/ Retry(pat, str, bounded, st)

Success(pat, str, st) == st.s > Len(str) /\ \A k \in st.p..Len(pat) : pat[k] = STAR

\* A later star, a longer star, or a later character of the pattern.
Later(c, b) ==
  \/ c.star_p > b.star_p
  \/ c.star_p = b.star_p /\ c.star_s > b.star_s
  \/ c.star_p = b.star_p /\ c.star_s = b.star_s /\ c.p > b.p

LEMMA StateType ==
  ASSUME NEW pat, NEW str, Len(pat) \in Nat, Len(str) \in Nat, NEW st \in LoopStates(pat, str)
  PROVE  /\ st.p \in 1..(Len(pat) + 1) /\ st.s \in 1..(Len(str) + 1)
         /\ st.star_p \in 0..Len(pat) /\ st.star_s \in 0..(Len(str) + 1)
         /\ st.star_p < st.p /\ st.star_s <= st.s
         /\ st = [p |-> st.p, s |-> st.s, star_p |-> st.star_p, star_s |-> st.star_s]
BY DEF LoopStates

LEMMA MakeState ==
  ASSUME NEW pat, NEW str, Len(pat) \in Nat, Len(str) \in Nat,
         NEW x \in 1..(Len(pat) + 1), NEW y \in 1..(Len(str) + 1),
         NEW z \in 0..Len(pat), NEW w \in 0..(Len(str) + 1), z < x, w <= y
  PROVE  [p |-> x, s |-> y, star_p |-> z, star_s |-> w] \in LoopStates(pat, str)
BY DEF LoopStates

\* What a turn of the loop does, case by case.
LEMMA TurnIs ==
  ASSUME NEW pat, NEW str, NEW bounded, Len(pat) \in Nat, Len(str) \in Nat,
         NEW st \in LoopStates(pat, str), ~over(pat, str, bounded, st)
  PROVE  /\ turn(pat, str, st) \in LoopStates(pat, str)
         /\ Later(turn(pat, str, st), st)
         /\ st.s <= Len(str)
         /\ at_star(pat, st) =>
              turn(pat, str, st) = [p |-> st.p + 1, s |-> st.s, star_p |-> st.p, star_s |-> st.s]
         /\ ~at_star(pat, st) /\ same(pat, str, st) =>
              turn(pat, str, st) = [p |-> st.p + 1, s |-> st.s + 1,
                                    star_p |-> st.star_p, star_s |-> st.star_s]
         /\ ~at_star(pat, st) /\ ~same(pat, str, st) =>
              /\ st.star_p # 0 /\ ~(bounded /\ str[st.star_s] = SLASH)
              /\ turn(pat, str, st) = [p |-> st.star_p + 1, s |-> st.star_s + 1,
                                       star_p |-> st.star_p, star_s |-> st.star_s + 1]
<1>1. /\ st.p \in 1..(Len(pat) + 1) /\ st.s \in 1..(Len(str) + 1)
      /\ st.star_p \in 0..Len(pat) /\ st.star_s \in 0..(Len(str) + 1)
      /\ st.star_p < st.p /\ st.star_s <= st.s
      /\ st = [p |-> st.p, s |-> st.s, star_p |-> st.star_p, star_s |-> st.star_s]
  BY StateType
<1>2. st.s <= Len(str) /\ (at_star(pat, st) \/ same(pat, str, st) \/ ~gives_up(str, bounded, st))
  BY <1>1 DEF over
<1> DEFINE new == turn(pat, str, st)
<1>3. CASE at_star(pat, st)
  <2>1. new = [p |-> st.p + 1, s |-> st.s, star_p |-> st.p, star_s |-> st.s]
    BY <1>1, <1>3 DEF turn
  <2>2. st.p <= Len(pat)  BY <1>3 DEF at_star
  <2>3. new \in LoopStates(pat, str)
    <3> HIDE DEF new
    <3>1. /\ st.p + 1 \in 1..(Len(pat) + 1) /\ st.p \in 0..Len(pat) /\ st.p < st.p + 1
          /\ st.s <= st.s
      BY <1>1, <2>2
    <3> QED  BY <1>1, <2>1, <3>1, MakeState
  <2>4. Later(new, st)  BY <1>1, <2>1 DEF Later
  <2> QED  BY <1>2, <1>3, <2>1, <2>3, <2>4
<1>4. CASE ~at_star(pat, st) /\ same(pat, str, st)
  <2>1. new = [p |-> st.p + 1, s |-> st.s + 1, star_p |-> st.star_p, star_s |-> st.star_s]
    BY <1>1, <1>4 DEF turn
  <2>2. st.p <= Len(pat)  BY <1>4 DEF same
  <2>3. new \in LoopStates(pat, str)
    <3> HIDE DEF new
    <3>1. /\ st.p + 1 \in 1..(Len(pat) + 1) /\ st.s + 1 \in 1..(Len(str) + 1)
          /\ st.star_p < st.p + 1 /\ st.star_s <= st.s + 1
      BY <1>1, <1>2, <2>2
    <3> QED  BY <1>1, <2>1, <3>1, MakeState
  <2>4. Later(new, st)  BY <1>1, <2>1 DEF Later
  <2> QED  BY <1>2, <1>4, <2>1, <2>3, <2>4
<1>5. CASE ~at_star(pat, st) /\ ~same(pat, str, st)
  <2>1. new = [p |-> st.star_p + 1, s |-> st.star_s + 1, star_p |-> st.star_p, star_s |-> st.star_s + 1]
    BY <1>1, <1>5 DEF turn
  <2>2. st.star_p # 0 /\ ~(bounded /\ str[st.star_s] = SLASH)  BY <1>2, <1>5 DEF gives_up
  <2>3. new \in LoopStates(pat, str)
    <3> HIDE DEF new
    <3>1. /\ st.star_p + 1 \in 1..(Len(pat) + 1) /\ st.star_s + 1 \in 1..(Len(str) + 1)
          /\ st.star_s + 1 \in 0..(Len(str) + 1)
          /\ st.star_p < st.star_p + 1 /\ st.star_s + 1 <= st.star_s + 1
      BY <1>1, <1>2
    <3> QED  BY <1>1, <2>1, <3>1, MakeState
  <2>4. Later(new, st)  BY <1>1, <2>1 DEF Later
  <2> QED  BY <1>2, <1>5, <2>1, <2>2, <2>3, <2>4
<1> QED  BY <1>3, <1>4, <1>5

\* Of the states of a set there is one that no other is later than.
LEMMA LatestState ==
  ASSUME NEW pat, NEW str, Len(pat) \in Nat, Len(str) \in Nat,
         NEW B \in SUBSET LoopStates(pat, str), B # {}
  PROVE  \E b \in B : \A c \in B : ~Later(c, b)
<1>1. \A c \in B : /\ c.p \in 1..(Len(pat) + 1)
                   /\ c.star_p \in 0..Len(pat) /\ c.star_s \in 0..(Len(str) + 1)
  <2>1. \A c \in B : c \in LoopStates(pat, str)  OBVIOUS
  <2> QED  BY <2>1, StateType
<1>2. PICK x \in B : \A c \in B : c.star_p <= x.star_p
  <2> DEFINE X == {Len(pat) - c.star_p : c \in B}
  <2>1. PICK m \in X : \A y \in X : m <= y
    <3>1. X \in SUBSET Nat /\ X # {}  BY <1>1
    <3> HIDE DEF X
    <3> QED  BY <3>1, LeastNumber
  <2>2. PICK x \in B : m = Len(pat) - x.star_p  BY <2>1
  <2>3. \A c \in B : Len(pat) - x.star_p <= Len(pat) - c.star_p  BY <2>1, <2>2
  <2>4. \A c \in B : c.star_p <= x.star_p  BY <1>1, <2>3
  <2> QED  BY <2>4
<1> DEFINE C == {c \in B : c.star_p = x.star_p}
<1>3. PICK y \in C : \A c \in C : c.star_s <= y.star_s
  <2> DEFINE X == {Len(str) + 1 - c.star_s : c \in C}
  <2>1. PICK m \in X : \A z \in X : m <= z
    <3>1. X \in SUBSET Nat /\ X # {}  BY <1>1
    <3> HIDE DEF X
    <3> QED  BY <3>1, LeastNumber
  <2>2. PICK y \in C : m = Len(str) + 1 - y.star_s  BY <2>1
  <2>3. \A c \in C : Len(str) + 1 - y.star_s <= Len(str) + 1 - c.star_s  BY <2>1, <2>2
  <2>4. \A c \in C : c.star_s <= y.star_s  BY <1>1, <2>3
  <2> QED  BY <2>4
<1> DEFINE E == {c \in C : c.star_s = y.star_s}
<1>4. PICK b \in E : \A c \in E : c.p <= b.p
  <2> DEFINE X == {Len(pat) + 1 - c.p : c \in E}
  <2>1. PICK m \in X : \A z \in X : m <= z
    <3>1. X \in SUBSET Nat /\ X # {}  BY <1>1
    <3> HIDE DEF X
    <3> QED  BY <3>1, LeastNumber
  <2>2. PICK b \in E : m = Len(pat) + 1 - b.p  BY <2>1
  <2>3. \A c \in E : Len(pat) + 1 - b.p <= Len(pat) + 1 - c.p  BY <2>1, <2>2
  <2>4. \A c \in E : c.p <= b.p  BY <1>1, <2>3
  <2> QED  BY <2>4
<1>5. b \in B /\ b.star_p = x.star_p /\ b.star_s = y.star_s  OBVIOUS
<1>6. ASSUME NEW c \in B PROVE ~Later(c, b)
  <2>1. c.star_p <= b.star_p  BY <1>2, <1>5
  <2>2. c.star_p = b.star_p => c.star_s <= b.star_s  BY <1>3, <1>5
  <2>3. c.star_p = b.star_p /\ c.star_s = b.star_s => c.p <= b.p  BY <1>4, <1>5
  <2> QED  BY <1>1, <1>5, <2>1, <2>2, <2>3 DEF Later
<1> QED  BY <1>5, <1>6

\* The end of the loop, known for some of its states.
Partial(pat, str, bounded, g) ==
  /\ DOMAIN g \subseteq LoopStates(pat, str)
  /\ \A st \in DOMAIN g :
       IF over(pat, str, bounded, st) THEN g[st] = st
       ELSE turn(pat, str, st) \in DOMAIN g /\ g[st] = g[turn(pat, str, st)]

LEMMA PartialAgree ==
  ASSUME NEW pat, NEW str, NEW bounded, Len(pat) \in Nat, Len(str) \in Nat,
         NEW g, NEW h, Partial(pat, str, bounded, g), Partial(pat, str, bounded, h)
  PROVE  \A st \in DOMAIN g \cap DOMAIN h : g[st] = h[st]
<1> DEFINE Bad == {st \in DOMAIN g \cap DOMAIN h : g[st] # h[st]}
<1> SUFFICES ASSUME Bad # {} PROVE FALSE  OBVIOUS
<1>1. PICK b \in Bad : \A c \in Bad : ~Later(c, b)
  <2>1. Bad \in SUBSET LoopStates(pat, str)  BY DEF Partial
  <2> HIDE DEF Bad
  <2> QED  BY <2>1, LatestState
<1>2. b \in LoopStates(pat, str)  BY <1>1 DEF Partial
<1> DEFINE t == turn(pat, str, b)
<1>3. CASE over(pat, str, bounded, b)
  BY <1>1, <1>3 DEF Partial
<1>4. CASE ~over(pat, str, bounded, b)
  <2>1. t \in DOMAIN g /\ t \in DOMAIN h /\ g[b] = g[t] /\ h[b] = h[t]
    BY <1>1, <1>4 DEF Partial
  <2>2. Later(t, b)  BY <1>2, <1>4, TurnIs
  <2>3. t \notin Bad  BY <1>1, <2>2
  <2> QED  BY <1>1, <2>1, <2>3
<1> QED  BY <1>3, <1>4

LEMMA PartialExists ==
  ASSUME NEW pat, NEW str, NEW bounded, Len(pat) \in Nat, Len(str) \in Nat
  PROVE  \A st \in LoopStates(pat, str) : \E g : Partial(pat, str, bounded, g) /\ st \in DOMAIN g
<1> DEFINE P(st) == \E g : Partial(pat, str, bounded, g) /\ st \in DOMAIN g
           Bad == {st \in LoopStates(pat, str) : ~P(st)}
<1> SUFFICES ASSUME Bad # {} PROVE FALSE  OBVIOUS
<1>1. PICK b \in Bad : \A c \in Bad : ~Later(c, b)
  <2>1. Bad \in SUBSET LoopStates(pat, str)  OBVIOUS
  <2> HIDE DEF Bad
  <2> QED  BY <2>1, LatestState
<1>2. b \in LoopStates(pat, str) /\ ~P(b)  BY <1>1
<1> DEFINE t == turn(pat, str, b)
<1>3. CASE over(pat, str, bounded, b)
  <2> DEFINE g == [st \in {b} |-> b]
  <2>1. DOMAIN g = {b} /\ g[b] = b  OBVIOUS
  <2> HIDE DEF g
  <2>2. Partial(pat, str, bounded, g)  BY <1>2, <1>3, <2>1 DEF Partial
  <2> QED  BY <1>2, <2>1, <2>2
<1>4. CASE ~over(pat, str, bounded, b)
  <2>1. Later(t, b) /\ t \in LoopStates(pat, str)  BY <1>2, <1>4, TurnIs
  <2>2. t \notin Bad  BY <1>1, <2>1
  <2>3. PICK h : Partial(pat, str, bounded, h) /\ t \in DOMAIN h  BY <2>1, <2>2
  <2> DEFINE g == [st \in DOMAIN h \union {b} |-> IF st = b THEN h[t] ELSE h[st]]
  <2>4. b \notin DOMAIN h  BY <1>2, <2>3
  <2> HIDE DEF t
  <2>5. /\ DOMAIN g = DOMAIN h \union {b} /\ g[b] = h[t]
        /\ \A st \in DOMAIN h : g[st] = h[st]
    BY <2>4
  <2> HIDE DEF g
  <2>6. Partial(pat, str, bounded, g)
    <3>1. DOMAIN g \subseteq LoopStates(pat, str)  BY <1>2, <2>3, <2>5 DEF Partial
    <3>2. ASSUME NEW st \in DOMAIN h
          PROVE  IF over(pat, str, bounded, st) THEN g[st] = st
                 ELSE turn(pat, str, st) \in DOMAIN g /\ g[st] = g[turn(pat, str, st)]
      BY <2>3, <2>5, <3>2 DEF Partial
    <3>3. turn(pat, str, b) \in DOMAIN g /\ g[b] = g[turn(pat, str, b)]  BY <2>3, <2>5 DEF t
    <3> QED  BY <1>4, <2>5, <3>1, <3>2, <3>3 DEF Partial
  <2> QED  BY <1>2, <2>5, <2>6
<1> QED  BY <1>3, <1>4

\* The loop ends from every state it can be in.
LEMMA EndsIs ==
  ASSUME NEW pat, NEW str, NEW bounded, Len(pat) \in Nat, Len(str) \in Nat
  PROVE  \A st \in LoopStates(pat, str) :
           match_end(pat, str, bounded)[st] =
             IF over(pat, str, bounded, st) THEN st
             ELSE match_end(pat, str, bounded)[turn(pat, str, st)]
<1> DEFINE S == LoopStates(pat, str)
           F(g, st) == IF over(pat, str, bounded, st) THEN st ELSE g[turn(pat, str, st)]
           known(st) == CHOOSE g : Partial(pat, str, bounded, g) /\ st \in DOMAIN g
           all == [st \in S |-> known(st)[st]]
           E == match_end(pat, str, bounded)
<1>1. \A st \in S : Partial(pat, str, bounded, known(st)) /\ st \in DOMAIN known(st)
  BY PartialExists
<1> HIDE DEF known
<1>2. ASSUME NEW st \in S PROVE all[st] = F(all, st)
  <2>1. all[st] = known(st)[st] /\ Partial(pat, str, bounded, known(st)) /\ st \in DOMAIN known(st)
    BY <1>1
  <2>2. CASE over(pat, str, bounded, st)
    BY <2>1, <2>2 DEF Partial
  <2>3. CASE ~over(pat, str, bounded, st)
    <3> DEFINE t == turn(pat, str, st)
    <3>1. t \in DOMAIN known(st) /\ known(st)[st] = known(st)[t]  BY <2>1, <2>3 DEF Partial
    <3>2. t \in S  BY <2>3, TurnIs
    <3>3. Partial(pat, str, bounded, known(t)) /\ t \in DOMAIN known(t) /\ all[t] = known(t)[t]
      BY <1>1, <3>2
    <3>4. known(st)[t] = known(t)[t]  BY <2>1, <3>1, <3>3, PartialAgree
    <3> QED  BY <2>1, <2>3, <3>1, <3>3, <3>4
  <2> QED  BY <2>2, <2>3
<1>3. all = [st \in S |-> F(all, st)]
  <2> HIDE DEF F
  <2>1. all = [st \in S |-> all[st]]  OBVIOUS
  <2> HIDE DEF all
  <2> QED  BY <1>2, <2>1
<1>4. E = CHOOSE g : g = [st \in S |-> F(g, st)]  BY DEF match_end
<1> HIDE DEF F, E, all
<1>5. E = [st \in S |-> F(E, st)]  BY <1>3, <1>4, Zenon
<1>6. \A st \in S : E[st] = F(E, st)  BY <1>5
<1> QED  BY <1>6 DEF F, E

\* Of a state in which the loop may be: it ends well exactly if the rest matches as it
\* stands or when the last star takes more.
LEMMA LoopRight ==
  ASSUME NEW pat, NEW str, NEW bounded \in BOOLEAN, Len(pat) \in Nat, Len(str) \in Nat,
         NEW st \in LoopStates(pat, str), Abreast(pat, str, st)
  PROVE  IF over(pat, str, bounded, st)
         THEN Success(pat, str, st) <=> Able(pat, str, bounded, st)
         ELSE /\ Abreast(pat, str, turn(pat, str, st))
              /\ Able(pat, str, bounded, turn(pat, str, st)) <=> Able(pat, str, bounded, st)
<1> DEFINE R == Rest(pat, str, bounded)
           p == st.p
           s == st.s
           i == st.star_p + 1
           a == st.star_s
           l == s - a
           new == turn(pat, str, st)
<1>1. /\ p \in 1..(Len(pat) + 1) /\ s \in 1..(Len(str) + 1)
      /\ st.star_p \in 0..Len(pat) /\ a \in 0..(Len(str) + 1)
      /\ st.star_p < p /\ a <= s
  BY StateType
<1>2. l \in Nat /\ i \in 1..(Len(pat) + 1)  BY <1>1
<1>3. st.star_p > 0 =>
        /\ a \in Nat \ {0} /\ p = i + l /\ Alike(pat, str, i, a, l)
        /\ \A k \in 0..(l - 1) : pat[i + k] # STAR
  BY <1>1 DEF Abreast
<1>4. R[p] \subseteq 1..(Len(str) + 1) /\ R[i] \subseteq 1..(Len(str) + 1)
  <2> HIDE DEF p, i
  <2> QED  BY <1>1, <1>2, RestCases
<1>5. at_star(pat, st) <=> p <= Len(pat) /\ pat[p] = STAR  BY DEF at_star
<1>6. same(pat, str, st) <=> p <= Len(pat) /\ pat[p] = str[s]  BY DEF same
<1>7. Able(pat, str, bounded, st) <=> s \in R[p] \/
        (st.star_p > 0 /\ \E e \in R[i] : a < e /\ NoSlash(str, bounded, a, e))
  BY DEF Able, Ready, Retry
<1>8. CASE s > Len(str)
  <2>1. over(pat, str, bounded, st)  BY <1>8 DEF over
  <2>2. s = Len(str) + 1  BY <1>1, <1>8
  <2>3. s \in R[p] <=> \A k \in p..Len(pat) : pat[k] = STAR
    <3> HIDE DEF p, s
    <3> QED  BY <1>1, <2>2, OnlyStars
  <2>4. ASSUME st.star_p > 0, NEW e \in R[i], a < e PROVE FALSE
    <3>1. i + l <= Len(pat) + 1  BY <1>1, <1>3, <2>4
    <3>2. e + l \in R[p]
      <4> HIDE DEF i, l, p, a
      <4>1. p = i + l /\ \A k \in 0..(l - 1) : pat[i + k] # STAR  BY <1>3, <2>4
      <4>2. e + l \in R[i + l]  BY <1>2, <2>4, <3>1, <4>1, Literal
      <4> QED  BY <4>1, <4>2
    <3>3. e \in Nat /\ e + l <= Len(str) + 1  BY <1>4, <3>2
    <3> QED  BY <1>1, <2>2, <2>4, <3>3
  <2>5. Success(pat, str, st) <=> s \in R[p]  BY <1>8, <2>3 DEF Success
  <2> QED  BY <1>7, <2>1, <2>4, <2>5
<1>9. CASE s <= Len(str) /\ at_star(pat, st)
  <2>1. ~over(pat, str, bounded, st)  BY <1>1, <1>9 DEF over
  <2>2. new = [p |-> p + 1, s |-> s, star_p |-> p, star_s |-> s]  BY <1>9, <2>1, TurnIs
  <2>3. p <= Len(pat) /\ pat[p] = STAR  BY <1>5, <1>9
  <2>4. s \in R[p] <=> \E e \in R[p + 1] : s <= e /\ NoSlash(str, bounded, s, e)
    <3> HIDE DEF p, s
    <3>1. \A j \in 1..(Len(str) + 1) : j \in R[p] <=>
            \E e \in R[p + 1] : j <= e /\ NoSlash(str, bounded, j, e)
      BY <1>1, <2>3, RestCases
    <3> HIDE DEF R
    <3> QED  BY <1>1, <3>1
  <2>5. R[p + 1] \subseteq 1..(Len(str) + 1)
    <3>1. p + 1 \in 1..(Len(pat) + 1)  BY <1>1, <2>3
    <3> HIDE DEF p
    <3>2. \A x \in 1..(Len(pat) + 1) : R[x] \subseteq 1..(Len(str) + 1)  BY RestCases
    <3> QED  BY <3>1, <3>2
  <2>6. Able(pat, str, bounded, new) <=> s \in R[p]
    <3>1. Able(pat, str, bounded, new) <=> s \in R[p + 1] \/
            (p > 0 /\ \E e \in R[p + 1] : s < e /\ NoSlash(str, bounded, s, e))
      BY <2>2 DEF Able, Ready, Retry
    <3>2. NoSlash(str, bounded, s, s)
      <4>1. s..(s - 1) = {}  BY <1>1
      <4> QED  BY <4>1 DEF NoSlash
    <3> HIDE DEF R, p, s
    <3>3. p > 0  BY <1>1
    <3>4. \A e \in R[p + 1] : s <= e <=> s = e \/ s < e  BY <1>1, <2>5
    <3> QED  BY <2>4, <3>1, <3>2, <3>3, <3>4
  <2>7. ASSUME st.star_p > 0, NEW e \in R[i], a < e, NoSlash(str, bounded, a, e)
        PROVE  s \in R[p]
    <3>1. i \in 1..Len(pat) /\ i + l <= Len(pat) /\ a + l = s /\ i + l = p
      BY <1>1, <1>3, <2>3, <2>7
    <3>2. a + l \in R[i + l]
      <4> HIDE DEF i, l, p, a, s
      <4>1. /\ \A k \in 0..(l - 1) : pat[i + k] # STAR
            /\ a \in Nat \ {0} /\ Alike(pat, str, i, a, l) /\ pat[i + l] = STAR
        BY <1>3, <2>3, <2>7, <3>1
      <4> QED  BY <1>2, <2>7, <3>1, <4>1, LastStarTakes
    <3> HIDE DEF R, l, i, p, s, a
    <3> QED  BY <3>1, <3>2
  <2>8. Able(pat, str, bounded, st) <=> s \in R[p]  BY <1>7, <2>7
  <2>9. Abreast(pat, str, new)
    <3>1. s - s = 0 /\ 0..(0 - 1) = {} /\ s >= 1 /\ p + 1 = p + 1 + (s - s)  BY <1>1
    <3>2. /\ new.star_p = p /\ new.star_s = s /\ new.p = p + 1 /\ new.s = s  BY <2>2
    <3> HIDE DEF new, p, s
    <3> QED  BY <3>1, <3>2 DEF Abreast, Alike
  <2> QED  BY <2>1, <2>6, <2>8, <2>9
<1>10. CASE s <= Len(str) /\ ~at_star(pat, st) /\ same(pat, str, st)
  <2>1. ~over(pat, str, bounded, st)  BY <1>1, <1>10 DEF over
  <2>2. new = [p |-> p + 1, s |-> s + 1, star_p |-> st.star_p, star_s |-> a]
    BY <1>10, <2>1, TurnIs
  <2>3. p <= Len(pat) /\ pat[p] # STAR /\ pat[p] = str[s]  BY <1>5, <1>6, <1>10
  <2>4. s \in R[p] <=> s + 1 \in R[p + 1]
    <3> HIDE DEF p, s
    <3>1. \A j \in 1..(Len(str) + 1) : j \in R[p] <=>
            j <= Len(str) /\ str[j] = pat[p] /\ j + 1 \in R[p + 1]
      BY <1>1, <2>3, RestCases
    <3> HIDE DEF R
    <3> QED  BY <1>1, <1>10, <2>3, <3>1
  <2>5. Able(pat, str, bounded, new) <=> s + 1 \in R[p + 1] \/
          (st.star_p > 0 /\ \E e \in R[i] : a < e /\ NoSlash(str, bounded, a, e))
    BY <2>2 DEF Able, Ready, Retry
  <2>6. Abreast(pat, str, new)
    <3>1. SUFFICES ASSUME st.star_p > 0 PROVE Abreast(pat, str, new)
      BY <2>2 DEF Abreast
    <3>2. /\ new.star_p = st.star_p /\ new.star_s = a /\ new.p = p + 1 /\ new.s = s + 1  BY <2>2
    <3>3. p + 1 = i + ((s + 1) - a) /\ (s + 1) - a = l + 1 /\ i + l = p /\ a + l = s
      <4>1. l = s - a /\ p = i + l  BY <1>3, <3>1
      <4>2. p \in Nat /\ s \in Nat /\ i \in Nat /\ a \in Nat  BY <1>1, <1>2
      <4> HIDE DEF p, s, i, a, l
      <4> QED  BY <4>1, <4>2
    <3>4. \A k \in 0..((l + 1) - 1) : k = l \/ k \in 0..(l - 1)  BY <1>2
    <3> HIDE DEF new, p, s, i, a, l
    <3>5. \A k \in 0..((l + 1) - 1) : pat[i + k] # STAR /\ str[a + k] = pat[i + k]
      BY <1>3, <2>3, <3>1, <3>3, <3>4 DEF Alike
    <3>6. a >= 1  BY <1>3, <3>1
    <3> QED  BY <3>2, <3>3, <3>5, <3>6 DEF Abreast, Alike, i
  <2> QED  BY <1>7, <2>1, <2>4, <2>5, <2>6
<1>11. CASE s <= Len(str) /\ ~at_star(pat, st) /\ ~same(pat, str, st)
  <2>1. s \notin R[p]
    <3>1. CASE p = Len(pat) + 1
      <4> HIDE DEF p, s
      <4>1. R[p] = {Len(str) + 1}  BY <1>1, <3>1, RestCases
      <4> QED  BY <1>11, <4>1
    <3>2. CASE p # Len(pat) + 1
      <4>1. p <= Len(pat) /\ pat[p] # STAR /\ pat[p] # str[s]  BY <1>1, <1>5, <1>6, <1>11, <3>2
      <4> HIDE DEF p, s
      <4>2. \A j \in 1..(Len(str) + 1) : j \in R[p] <=>
              j <= Len(str) /\ str[j] = pat[p] /\ j + 1 \in R[p + 1]
        BY <1>1, <4>1, RestCases
      <4> HIDE DEF R
      <4> QED  BY <1>1, <4>1, <4>2
    <3> QED  BY <3>1, <3>2
  <2>2. CASE gives_up(str, bounded, st)
    <3>1. over(pat, str, bounded, st)  BY <1>11, <2>2 DEF over
    <3>2. ~Success(pat, str, st)  BY <1>1, <1>11 DEF Success
    <3>3. ASSUME st.star_p > 0, NEW e \in R[i], a < e, NoSlash(str, bounded, a, e)
          PROVE  FALSE
      <4>1. bounded /\ str[a] = SLASH  BY <2>2, <3>3 DEF gives_up
      <4>2. a \in a..(e - 1)
        <5>1. e \in Nat  BY <1>4
        <5> HIDE DEF a
        <5> QED  BY <1>1, <3>3, <5>1
      <4> HIDE DEF a
      <4> QED  BY <3>3, <4>1, <4>2 DEF NoSlash
    <3> QED  BY <1>7, <2>1, <3>1, <3>2, <3>3
  <2>3. CASE ~gives_up(str, bounded, st)
    <3>1. ~over(pat, str, bounded, st)  BY <1>1, <1>11, <2>3 DEF over
    <3>2. /\ new = [p |-> i, s |-> a + 1, star_p |-> st.star_p, star_s |-> a + 1]
          /\ st.star_p # 0 /\ ~(bounded /\ str[a] = SLASH)
      BY <1>11, <3>1, TurnIs
    <3>3. st.star_p > 0  BY <1>1, <3>2
    <3>4. Able(pat, str, bounded, new) <=> a + 1 \in R[i] \/
            \E e \in R[i] : a + 1 < e /\ NoSlash(str, bounded, a + 1, e)
      BY <3>2, <3>3 DEF Able, Ready, Retry
    <3>5. ASSUME NEW e \in R[i], a < e
          PROVE  NoSlash(str, bounded, a, e) <=> NoSlash(str, bounded, a + 1, e)
      <4>1. e \in Nat  BY <1>4
      <4>2. \A k : k \in a..(e - 1) <=> k = a \/ k \in (a + 1)..(e - 1)
        <5> HIDE DEF a
        <5> QED  BY <1>1, <3>5, <4>1
      <4>3. bounded => str[a] # SLASH  BY <3>2
      <4> HIDE DEF a
      <4> QED  BY <4>2, <4>3 DEF NoSlash
    <3>6. \A e \in R[i] : a < e <=> e = a + 1 \/ a + 1 < e
      <4> HIDE DEF a
      <4> QED  BY <1>1, <1>4
    <3>7. NoSlash(str, bounded, a + 1, a + 1)
      <4>1. (a + 1)..((a + 1) - 1) = {}  BY <1>1
      <4> QED  BY <4>1 DEF NoSlash
    <3>8. Able(pat, str, bounded, st) <=> \E e \in R[i] : a < e /\ NoSlash(str, bounded, a, e)
      BY <1>7, <2>1, <3>3
    <3>9. Able(pat, str, bounded, new) <=> Able(pat, str, bounded, st)
      <4> HIDE DEF R, a, i, new
      <4> QED  BY <3>4, <3>5, <3>6, <3>7, <3>8
    <3>10. Abreast(pat, str, new)
      <4>1. /\ new.star_p = st.star_p /\ new.star_s = a + 1 /\ new.p = i /\ new.s = a + 1
            /\ a + 1 >= 1 /\ i = i + ((a + 1) - (a + 1)) /\ (a + 1) - (a + 1) = 0 /\ 0..(0 - 1) = {}
        BY <1>1, <3>2
      <4> HIDE DEF new, a
      <4> QED  BY <4>1 DEF Abreast, Alike
    <3> QED  BY <3>1, <3>9, <3>10
  <2> QED  BY <2>2, <2>3
<1>12. s > Len(str) \/ s <= Len(str)  BY <1>1
<1> QED  BY <1>8, <1>9, <1>10, <1>11, <1>12

\* However the loop got into a state, it ends well from there exactly if the rest matches.
LEMMA EndsWell ==
  ASSUME NEW pat, NEW str, NEW bounded \in BOOLEAN, Len(pat) \in Nat, Len(str) \in Nat
  PROVE  \A st \in LoopStates(pat, str) : Abreast(pat, str, st) =>
           (Success(pat, str, match_end(pat, str, bounded)[st]) <=> Able(pat, str, bounded, st))
<1> DEFINE E == match_end(pat, str, bounded)
           Right(st) == Success(pat, str, E[st]) <=> Able(pat, str, bounded, st)
           Bad == {st \in LoopStates(pat, str) : Abreast(pat, str, st) /\ ~Right(st)}
<1> SUFFICES ASSUME Bad # {} PROVE FALSE  OBVIOUS
<1>1. PICK b \in Bad : \A c \in Bad : ~Later(c, b)
  <2>1. Bad \in SUBSET LoopStates(pat, str)  OBVIOUS
  <2> HIDE DEF Bad
  <2> QED  BY <2>1, LatestState
<1>2. b \in LoopStates(pat, str) /\ Abreast(pat, str, b) /\ ~Right(b)  BY <1>1
<1> DEFINE t == turn(pat, str, b)
<1>3. \A st \in LoopStates(pat, str) :
        E[st] = IF over(pat, str, bounded, st) THEN st ELSE E[turn(pat, str, st)]
  BY EndsIs
<1> HIDE DEF E
<1>4. CASE over(pat, str, bounded, b)
  <2>1. E[b] = b  BY <1>2, <1>3, <1>4
  <2>2. Success(pat, str, b) <=> Able(pat, str, bounded, b)  BY <1>2, <1>4, LoopRight
  <2> QED  BY <1>2, <2>1, <2>2
<1>5. CASE ~over(pat, str, bounded, b)
  <2>1. E[b] = E[t]  BY <1>2, <1>3, <1>5
  <2>2. Abreast(pat, str, t) /\ (Able(pat, str, bounded, t) <=> Able(pat, str, bounded, b))
    BY <1>2, <1>5, LoopRight
  <2>3. Later(t, b) /\ t \in LoopStates(pat, str)  BY <1>2, <1>5, TurnIs
  <2>4. t \notin Bad  BY <1>1, <2>3
  <2>5. Right(t)  BY <2>2, <2>3, <2>4
  <2> HIDE DEF t
  <2>6. Right(b)  BY <2>1, <2>2, <2>5
  <2> QED  BY <1>2, <2>6
<1> QED  BY <1>4, <1>5

(* The loop of work_match_pattern (ignore_patterns.c:142-181), which goes  *)
(* back to its last star only and gives up where a bounded star meets a    *)
(* slash, answers as the definition of matching does, for every pattern    *)
(* and every string.                                                       *)
THEOREM MatchLoopIsMatching ==
  ASSUME NEW pat, NEW str, NEW bounded \in BOOLEAN, Len(pat) \in Nat, Len(str) \in Nat
  PROVE  match_loop(pat, str, bounded) <=> Matches(pat, str, bounded)
<1> DEFINE first == [p |-> 1, s |-> 1, star_p |-> 0, star_s |-> 0]
<1>1. first \in LoopStates(pat, str)
  <2>1. 1 \in 1..(Len(pat) + 1) /\ 1 \in 1..(Len(str) + 1) /\ 0 \in 0..Len(pat) /\ 0 \in 0..(Len(str) + 1)
    OBVIOUS
  <2> QED  BY <2>1 DEF LoopStates
<1>2. Abreast(pat, str, first)  BY DEF Abreast
<1>3. Able(pat, str, bounded, first) <=> 1 \in Rest(pat, str, bounded)[1]
  BY DEF Able, Ready, Retry
<1>4. match_loop(pat, str, bounded) <=> Success(pat, str, match_end(pat, str, bounded)[first])
  BY DEF match_loop, Success
<1> HIDE DEF first
<1>5. Success(pat, str, match_end(pat, str, bounded)[first]) <=> Able(pat, str, bounded, first)
  BY <1>1, <1>2, EndsWell
<1> QED  BY <1>3, <1>4, <1>5 DEF Matches

-----------------------------------------------------------------------------
(* The loading of the file.                                                *)

\* Characters are strings; the provers do not know that a star is one.
Character == STRING \union {STAR, SLASH}
File == [lines : Seq(Seq(Character)), ended : BOOLEAN]

LEMMA SeqOfMore ==
  ASSUME NEW A, NEW B, A \subseteq B, NEW s \in Seq(A)
  PROVE  s \in Seq(B)
<1>1. Len(s) \in Nat /\ s = [i \in 1..Len(s) |-> s[i]] /\ \A i \in 1..Len(s) : s[i] \in B
  OBVIOUS
<1> QED  BY <1>1, SeqDef

LEMMA StringIsCharacters ==
  /\ \A s \in Seq(STRING) : s \in Seq(Character)
  /\ \A f \in Files \union Edits : f \in File
<1>1. STRING \subseteq Character  BY DEF Character
<1>2. \A s \in Seq(STRING) : s \in Seq(Character)  BY <1>1, SeqOfMore
<1>3. ASSUME NEW f \in Files \union Edits PROVE f \in File
  <2>1. f \in [lines : Seq(Seq(STRING)), ended : BOOLEAN]  BY FilesAreLines
  <2>2. f = [lines |-> f.lines, ended |-> f.ended] /\ f.lines \in Seq(Seq(STRING)) /\ f.ended \in BOOLEAN
    BY <2>1
  <2>3. Seq(STRING) \subseteq Seq(Character)  BY <1>2
  <2>4. f.lines \in Seq(Seq(Character))  BY <2>2, <2>3, SeqOfMore
  <2> QED  BY <2>2, <2>4 DEF File
<1> QED  BY <1>2, <1>3

LoadedFrom(f, g, n) ==
  IF n = 0 THEN <<>>
  ELSE IF IsRule(f.lines[n]) THEN Append(g[n - 1], Rule(f.lines[n]))
  ELSE g[n - 1]

LEMMA LoadedExists ==
  ASSUME NEW f, Len(f.lines) \in Nat
  PROVE  \E g : g = [n \in 0..Len(f.lines) |-> LoadedFrom(f, g, n)]
<1> DEFINE N == Len(f.lines)
           F(g, n) == LoadedFrom(f, g, n)
           Bad == {m \in 0..N : ~\E g : g = [n \in 0..m |-> F(g, n)]}
<1>1. Bad = {}
  <2> SUFFICES ASSUME Bad # {} PROVE FALSE  OBVIOUS
  <2>1. PICK m \in Bad : \A k \in Bad : m <= k
    <3>1. Bad \in SUBSET Nat  OBVIOUS
    <3> HIDE DEF Bad
    <3> QED  BY <3>1, LeastNumber
  <2>2. CASE m = 0
    <3> DEFINE g == [n \in 0..0 |-> <<>>]
    <3>1. \A n \in 0..0 : F(g, n) = <<>>  BY DEF LoadedFrom
    <3>2. g = [n \in 0..0 |-> F(g, n)]  BY <3>1
    <3> HIDE DEF g, F
    <3> QED  BY <2>1, <2>2, <3>2
  <2>3. CASE m # 0
    <3>1. m \in Nat /\ m - 1 \in 0..N  BY <2>1, <2>3
    <3>2. m - 1 \notin Bad
      <4>1. ~(m <= m - 1)  BY <3>1
      <4> HIDE DEF Bad
      <4> QED  BY <2>1, <4>1
    <3>3. PICK h : h = [n \in 0..(m - 1) |-> F(h, n)]  BY <3>1, <3>2
    <3> DEFINE g == [n \in 0..m |-> F(h, n)]
    <3> HIDE DEF F
    <3>4. \A n \in 0..(m - 1) : g[n] = h[n]
      <4>1. \A n \in 0..(m - 1) : n \in 0..m  BY <3>1
      <4>2. \A n \in 0..(m - 1) : h[n] = F(h, n)  BY <3>3
      <4> QED  BY <4>1, <4>2
    <3> HIDE DEF g
    <3>5. ASSUME NEW n \in 0..m PROVE F(g, n) = F(h, n)
      <4>1. CASE n = 0  BY <4>1 DEF F, LoadedFrom
      <4>2. CASE n # 0
        <5>1. n - 1 \in 0..(m - 1)  BY <3>1, <4>2
        <5>2. g[n - 1] = h[n - 1]  BY <3>4, <5>1
        <5> QED  BY <5>2 DEF F, LoadedFrom
      <4> QED  BY <4>1, <4>2
    <3>6. g = [n \in 0..m |-> F(g, n)]  BY <3>5 DEF g
    <3> QED  BY <2>1, <3>6
  <2> QED  BY <2>2, <2>3
<1>2. N \in 0..N  OBVIOUS
<1> QED  BY <1>1, <1>2

LEMMA LoadedIs ==
  ASSUME NEW f, Len(f.lines) \in Nat
  PROVE  \A n \in 0..Len(f.lines) : Loaded(f)[n] = LoadedFrom(f, Loaded(f), n)
<1> DEFINE G == Loaded(f)
<1>1. \E g : g = [n \in 0..Len(f.lines) |-> LoadedFrom(f, g, n)]  BY LoadedExists
<1>2. G = CHOOSE g : g = [n \in 0..Len(f.lines) |-> LoadedFrom(f, g, n)]
  BY DEF Loaded, LoadedFrom
<1> HIDE DEF G
<1>3. G = [n \in 0..Len(f.lines) |-> LoadedFrom(f, G, n)]  BY <1>1, <1>2, Zenon
<1> QED  BY <1>3 DEF G

\* What holds of the rules of no line, and of those of one line more, holds of all.
LEMMA LoadInduction ==
  ASSUME NEW f, NEW S, Len(f.lines) \in Nat,
         <<>> \in S,
         \A n \in 1..Len(f.lines) : \A rs \in S :
            IsRule(f.lines[n]) => Append(rs, Rule(f.lines[n])) \in S
  PROVE  \A n \in 0..Len(f.lines) : Loaded(f)[n] \in S
<1> DEFINE G == Loaded(f)
           Bad == {n \in 0..Len(f.lines) : G[n] \notin S}
<1> SUFFICES ASSUME Bad # {} PROVE FALSE  OBVIOUS
<1>1. PICK n \in Bad : \A k \in Bad : n <= k
  <2>1. Bad \in SUBSET Nat  OBVIOUS
  <2> HIDE DEF Bad
  <2> QED  BY <2>1, LeastNumber
<1>2. G[n] = LoadedFrom(f, G, n)  BY <1>1, LoadedIs
<1> HIDE DEF G
<1>3. n # 0  BY <1>1, <1>2 DEF LoadedFrom
<1>4. n \in 1..Len(f.lines) /\ n - 1 \in 0..Len(f.lines) /\ ~(n <= n - 1)  BY <1>1, <1>3
<1>5. G[n - 1] \in S
  <2>1. n - 1 \notin Bad
    <3> HIDE DEF Bad
    <3> QED  BY <1>1, <1>4
  <2> QED  BY <1>4, <2>1
<1>6. G[n] \in S
  <2>1. CASE IsRule(f.lines[n])  BY <1>2, <1>3, <1>4, <1>5, <2>1 DEF LoadedFrom
  <2>2. CASE ~IsRule(f.lines[n])  BY <1>2, <1>3, <1>5, <2>2 DEF LoadedFrom
  <2> QED  BY <2>1, <2>2
<1> QED  BY <1>1, <1>6

\* A line more at the end is a rule more at the end.
LEMMA LoadAppended ==
  ASSUME NEW f \in File, NEW line \in Seq(Character), IsRule(line)
  PROVE  Load(append_pattern(f, line)) = Append(Load(f), Rule(line))
<1> DEFINE h == append_pattern(f, line)
           N == Len(f.lines)
<1>1. /\ N \in Nat /\ Len(h.lines) = N + 1 /\ h.lines[N + 1] = line
      /\ \A n \in 1..N : h.lines[n] = f.lines[n]
  BY DEF File, append_pattern
<1> HIDE DEF h
<1> DEFINE Bad == {n \in 0..N : Loaded(h)[n] # Loaded(f)[n]}
<1>2. \A n \in 0..N : Loaded(f)[n] = LoadedFrom(f, Loaded(f), n)  BY <1>1, LoadedIs
<1>3. \A n \in 0..(N + 1) : Loaded(h)[n] = LoadedFrom(h, Loaded(h), n)  BY <1>1, LoadedIs
<1>4. Bad = {}
  <2> SUFFICES ASSUME Bad # {} PROVE FALSE  OBVIOUS
  <2>1. PICK n \in Bad : \A k \in Bad : n <= k
    <3>1. Bad \in SUBSET Nat  BY <1>1
    <3> HIDE DEF Bad
    <3> QED  BY <3>1, LeastNumber
  <2>2. n \in 0..N /\ n \in 0..(N + 1)  BY <1>1, <2>1
  <2>3. /\ Loaded(f)[n] = LoadedFrom(f, Loaded(f), n)
        /\ Loaded(h)[n] = LoadedFrom(h, Loaded(h), n)
    BY <1>2, <1>3, <2>2
  <2>4. CASE n = 0  BY <2>1, <2>3, <2>4 DEF LoadedFrom
  <2>5. CASE n # 0
    <3>1. n \in 1..N /\ n - 1 \in 0..N /\ ~(n <= n - 1)  BY <1>1, <2>2, <2>5
    <3>2. Loaded(h)[n - 1] = Loaded(f)[n - 1]
      <4>1. n - 1 \notin Bad
        <5> HIDE DEF Bad
        <5> QED  BY <2>1, <3>1
      <4> QED  BY <3>1, <4>1
    <3>3. h.lines[n] = f.lines[n]  BY <1>1, <3>1
    <3>4. LoadedFrom(h, Loaded(h), n) = LoadedFrom(f, Loaded(f), n)
      BY <3>2, <3>3 DEF LoadedFrom
    <3> QED  BY <2>1, <2>3, <3>4
  <2> QED  BY <2>4, <2>5
<1>5. Loaded(h)[N] = Loaded(f)[N]
  <2>1. N \in 0..N  BY <1>1
  <2> QED  BY <1>4, <2>1
<1>6. Loaded(h)[N + 1] = Append(Loaded(h)[N], Rule(line))
  <2>1. N + 1 \in 0..(N + 1) /\ N + 1 # 0 /\ (N + 1) - 1 = N  BY <1>1
  <2>2. Loaded(h)[N + 1] = LoadedFrom(h, Loaded(h), N + 1)  BY <1>3, <2>1
  <2> QED  BY <1>1, <2>1, <2>2 DEF LoadedFrom
<1> QED  BY <1>1, <1>5, <1>6 DEF Load, h

\* What a line is read as: the text is the line, the pattern a sequence of characters.
RuleType ==
  [text : Seq(Character) \ {<<>>}, dir_only : BOOLEAN, has_slash : BOOLEAN, match : Seq(Character)]

LEMMA RuleHasType ==
  ASSUME NEW line \in Seq(Character), IsRule(line)
  PROVE  Rule(line) \in RuleType
<1> DEFINE dir == line # <<>> /\ Last(line) = SLASH
           str == IF dir THEN Front(line) ELSE line
           pat == IF str # <<>> /\ Head(str) = SLASH THEN Tail(str) ELSE str
<1>1. line # <<>> /\ Len(line) \in Nat \ {0}  BY DEF IsRule
<1>2. str \in Seq(Character)
  <2>1. Front(line) \in Seq(Character)  BY <1>1 DEF Front
  <2> QED  BY <2>1
<1>3. pat \in Seq(Character)
  <2> HIDE DEF str
  <2>1. str # <<>> => Tail(str) \in Seq(Character)  BY <1>2
  <2> QED  BY <1>2, <2>1
<1>4. Rule(line) = [text |-> line, dir_only |-> dir, has_slash |-> SLASH \in ToSet(str), match |-> pat]
  BY DEF Rule
<1>5. dir \in BOOLEAN  OBVIOUS
<1>6. (SLASH \in ToSet(str)) \in BOOLEAN  OBVIOUS
<1> HIDE DEF dir, str, pat
<1> QED  BY <1>1, <1>3, <1>4, <1>5, <1>6 DEF RuleType

LEMMA LoadHasType ==
  ASSUME NEW f \in File
  PROVE  Load(f) \in Seq(RuleType)
<1>1. Len(f.lines) \in Nat /\ \A n \in 1..Len(f.lines) : f.lines[n] \in Seq(Character)
  BY DEF File
<1> DEFINE S == Seq(RuleType)
<1>2. <<>> \in S  OBVIOUS
<1>3. ASSUME NEW n \in 1..Len(f.lines), NEW rs \in S, IsRule(f.lines[n])
      PROVE  Append(rs, Rule(f.lines[n])) \in S
  <2>1. Rule(f.lines[n]) \in RuleType  BY <1>1, <1>3, RuleHasType
  <2> QED  BY <2>1
<1> HIDE DEF S
<1>4. \A n \in 0..Len(f.lines) : Loaded(f)[n] \in S  BY <1>1, <1>2, <1>3, LoadInduction
<1> QED  BY <1>1, <1>4 DEF Load, S

-----------------------------------------------------------------------------
(* The rules of the menu.                                                  *)

LEMMA GreatestNumber ==
  ASSUME NEW S \in SUBSET Nat, S # {}, NEW n \in Nat, \A k \in S : k <= n
  PROVE  \E m \in S : \A k \in S : k <= m
<1> DEFINE X == {n - k : k \in S}
<1>0. \A k \in S : n - k \in Nat  OBVIOUS
<1>1. X \in SUBSET Nat /\ X # {}  BY <1>0
<1>2. PICK x \in X : \A y \in X : x <= y
  <2> HIDE DEF X
  <2> QED  BY <1>1, LeastNumber
<1>3. PICK m \in S : x = n - m  BY <1>2
<1>4. \A k \in S : n - m <= n - k  BY <1>2, <1>3
<1> QED  BY <1>4

\* Where the name begins there is a character of the path.
LEMMA NameAt ==
  ASSUME NEW path \in Seq(Character), Len(path) > 0
  PROVE  name_at(path) \in 1..Len(path)
<1> DEFINE above == {j \in Slashes(path) : j < Len(path)}
<1>1. CASE above = {}  BY <1>1 DEF name_at
<1>2. CASE above # {}
  <2>1. above \in SUBSET Nat /\ \A k \in above : k <= Len(path)  BY DEF Slashes
  <2>2. \E m \in above : \A k \in above : k <= m
    <3>1. Len(path) \in Nat  OBVIOUS
    <3> HIDE DEF above
    <3> QED  BY <1>2, <2>1, <3>1, GreatestNumber
  <2> DEFINE m == CHOOSE j \in above : \A k \in above : k <= j
  <2>3. m \in above  BY <2>2
  <2>4. name_at(path) = 1 + m  BY <1>2 DEF name_at
  <2> HIDE DEF m
  <2> QED  BY <2>3, <2>4 DEF Slashes
<1> QED  BY <1>1, <1>2

\* What the menu writes is read as a rule.
LEMMA MenuRuleIsRule ==
  ASSUME NEW path \in Paths, NEW kind \in Kinds, Offered(path, kind)
  PROVE  menu_rule(path, kind) \in Seq(Character) /\ IsRule(menu_rule(path, kind))
<1>1. path \in Seq(Character) /\ Len(path) > 0 /\ Len(path) \in Nat
  BY PathsAreRelative, StringIsCharacters
<1>2. name_at(path) \in 1..Len(path)  BY <1>1, NameAt
<1> DEFINE name == basename(path)
           dot == CHOOSE i \in Dots(name) : \A k \in Dots(name) : k <= i
<1>3. name \in Seq(Character) /\ dirname(path) \in Seq(Character)
  <2>1. SubSeq(path, name_at(path), Len(path)) \in Seq(Character)  BY <1>1, <1>2
  <2>2. SubSeq(path, 1, name_at(path) - 2) \in Seq(Character)  BY <1>1, <1>2
  <2> QED  BY <2>1, <2>2 DEF basename, dirname
<1>4. /\ STAR \in Character /\ SLASH \in Character /\ STAR # "#" /\ SLASH # "#"
  BY DEF Character, STAR, SLASH
<1>5. ASSUME NEW c \in Character, c # "#", NEW s \in Seq(Character)
      PROVE  <<c>> \o s \in Seq(Character) /\ IsRule(<<c>> \o s)
  <2>1. <<c>> \in Seq(Character) /\ Len(<<c>>) = 1 /\ <<c>>[1] = c  OBVIOUS
  <2>2. /\ <<c>> \o s \in Seq(Character) /\ Len(<<c>> \o s) = 1 + Len(s)
        /\ (<<c>> \o s)[1] = c
    BY <2>1, ConcatProperties
  <2>3. <<c>> \o s # <<>> /\ Head(<<c>> \o s) = c  BY <2>2
  <2> QED  BY <1>5, <2>2, <2>3 DEF IsRule
<1>6. CASE kind = "extension"
  <2>1. Dots(name) # {} /\ Dots(name) \in SUBSET Nat /\ \A k \in Dots(name) : k <= Len(name)
    BY <1>6 DEF Offered, Dots
  <2>2. dot \in Dots(name)
    <3>1. Len(name) \in Nat  BY <1>3
    <3> HIDE DEF name
    <3>2. \E m \in Dots(name) : \A k \in Dots(name) : k <= m  BY <2>1, <3>1, GreatestNumber
    <3> QED  BY <3>2
  <2>3. dot \in 2..Len(name)
    <3> HIDE DEF dot
    <3> QED  BY <2>2 DEF Dots
  <2>4. SubSeq(name, dot, Len(name)) \in Seq(Character)
    <3> HIDE DEF dot, name
    <3> QED  BY <1>3, <2>3
  <2>5. menu_rule(path, kind) = <<STAR>> \o SubSeq(name, dot, Len(name))
    BY <1>6 DEF menu_rule
  <2> HIDE DEF dot, name
  <2> QED  BY <1>4, <1>5, <2>4, <2>5
<1>7. CASE kind = "folder"
  <2>1. menu_rule(path, kind) = <<SLASH>> \o dirname(path)  BY <1>7 DEF menu_rule
  <2> QED  BY <1>3, <1>4, <1>5, <2>1
<1>8. CASE kind = "path"
  <2>1. menu_rule(path, kind) = <<SLASH>> \o path  BY <1>8 DEF menu_rule
  <2> QED  BY <1>1, <1>4, <1>5, <2>1
<1>9. CASE kind = "name"
  <2>1. menu_rule(path, kind) = <<STAR, SLASH>> \o name  BY <1>9 DEF menu_rule
  <2>2. <<STAR, SLASH>> \in Seq(Character) /\ Len(<<STAR, SLASH>>) = 2 /\ <<STAR, SLASH>>[1] = STAR
    BY <1>4
  <2> DEFINE two == <<STAR, SLASH>>
  <2> HIDE DEF two, name
  <2>3. /\ two \o name \in Seq(Character) /\ Len(two \o name) = 2 + Len(name)
        /\ (two \o name)[1] = STAR
    BY <1>3, <2>2, ConcatProperties DEF two
  <2>4. two \o name # <<>> /\ Head(two \o name) = STAR  BY <1>3, <2>3
  <2> QED  BY <1>4, <2>1, <2>3, <2>4 DEF IsRule, two
<1> QED  BY <1>6, <1>7, <1>8, <1>9 DEF Kinds

-----------------------------------------------------------------------------
(* The first rule that matches.                                            *)

LEMMA FirstMatch ==
  ASSUME NEW rs \in Seq(RuleType), NEW path
  PROVE  /\ first_match(rs, path) \in Seq(Character)
         /\ first_match(rs, path) # None <=> \E i \in 1..Len(rs) : match_single(rs[i], path)
         /\ first_match(rs, path) # None =>
              \E i \in 1..Len(rs) : /\ rs[i].text = first_match(rs, path)
                                    /\ match_single(rs[i], path)
<1> DEFINE hits == {i \in 1..Len(rs) : match_single(rs[i], path)}
<1>1. CASE hits = {}
  <2>1. first_match(rs, path) = <<>>  BY <1>1 DEF first_match, None
  <2> QED  BY <1>1, <2>1 DEF None
<1>2. CASE hits # {}
  <2>1. hits \in SUBSET Nat  OBVIOUS
  <2>2. \E m \in hits : \A k \in hits : m <= k
    <3> HIDE DEF hits
    <3> QED  BY <1>2, <2>1, LeastNumber
  <2> DEFINE m == CHOOSE i \in hits : \A k \in hits : i <= k
  <2>3. m \in hits  BY <2>2
  <2>4. first_match(rs, path) = rs[m].text  BY <1>2 DEF first_match
  <2> HIDE DEF m
  <2>5. m \in 1..Len(rs) /\ match_single(rs[m], path) /\ rs[m] \in RuleType  BY <2>3
  <2>6. rs[m].text \in Seq(Character) \ {<<>>}  BY <2>5 DEF RuleType
  <2> QED  BY <2>4, <2>5, <2>6 DEF None
<1> QED  BY <1>1, <1>2

-----------------------------------------------------------------------------
(* The invariant.                                                          *)

Typed ==
  /\ file \in File
  /\ rules \in Seq(RuleType)
  /\ shown \in SUBSET Paths
  /\ why \in [Paths -> Seq(Character)]
  /\ dangling \subseteq Ignored
  /\ message \in BOOLEAN /\ current \in BOOLEAN

\* The rows are what the rules say: a row is ignored exactly if a rule matches it, and
\* it shows one that does.
Matched(rs, S, w) ==
  \A p \in S :
    /\ (w[p] # None) <=> \E i \in 1..Len(rs) : match_single(rs[i], p)
    /\ w[p] # None => \E i \in 1..Len(rs) : rs[i].text = w[p] /\ match_single(rs[i], p)

\* While the message is on its way the file has one rule more, at its end.
InStep ==
  current =>
    /\ ~message => shown = {} \/ (rules = Load(file) /\ Matched(rules, shown, why))
    /\ message => /\ Matched(rules, shown, why)
                  /\ \E r \in RuleType : Load(file) = Append(rules, r)

RulesInv == Typed /\ InStep

\* Only the lines count, not whether the last one is ended.
LEMMA LoadLines ==
  ASSUME NEW f, NEW g, f.lines = g.lines
  PROVE  Load(f) = Load(g)
BY DEF Load, Loaded

\* One rule more, held against every row, is what an analysis would have done.
LEMMA OneRuleMore ==
  ASSUME NEW rs \in Seq(RuleType), NEW r \in RuleType, NEW S, NEW w, NEW v,
         Matched(rs, S, w),
         \A p \in S : v[p] = IF match_single(r, p) THEN r.text ELSE w[p]
  PROVE  Matched(Append(rs, r), S, v)
<1> DEFINE all == Append(rs, r)
           n == Len(rs) + 1
<1>1. /\ Len(rs) \in Nat /\ Len(all) = n /\ all[n] = r /\ n \in 1..n
      /\ \A i \in 1..Len(rs) : all[i] = rs[i] /\ i \in 1..n
      /\ \A i \in 1..n : i = n \/ i \in 1..Len(rs)
  OBVIOUS
<1>2. r.text # None  BY DEF RuleType, None
<1> HIDE DEF all, n
<1> SUFFICES ASSUME NEW p \in S
    PROVE  /\ (v[p] # None) <=> \E i \in 1..Len(all) : match_single(all[i], p)
           /\ v[p] # None => \E i \in 1..Len(all) : all[i].text = v[p] /\ match_single(all[i], p)
  BY DEF Matched, all
<1>3. CASE match_single(r, p)
  <2>1. v[p] = r.text  BY <1>3
  <2> QED  BY <1>1, <1>2, <1>3, <2>1
<1>4. CASE ~match_single(r, p)
  <2>1. v[p] = w[p]  BY <1>4
  <2>2. (w[p] # None) <=> \E i \in 1..Len(rs) : match_single(rs[i], p)  BY DEF Matched
  <2>3. w[p] # None => \E i \in 1..Len(rs) : rs[i].text = w[p] /\ match_single(rs[i], p)
    BY DEF Matched
  <2>4. (\E i \in 1..Len(all) : match_single(all[i], p))
          <=> \E i \in 1..Len(rs) : match_single(rs[i], p)
    BY <1>1, <1>4
  <2>5. (\E i \in 1..Len(rs) : rs[i].text = w[p] /\ match_single(rs[i], p))
          => \E i \in 1..Len(all) : all[i].text = w[p] /\ match_single(all[i], p)
    BY <1>1
  <2> QED  BY <2>1, <2>2, <2>3, <2>4, <2>5
<1> QED  BY <1>3, <1>4

LEMMA InitHolds == Init => RulesInv
<1> SUFFICES ASSUME Init PROVE RulesInv  OBVIOUS
<1>1. file \in File  BY StringIsCharacters DEF Init
<1>2. rules \in Seq(RuleType) /\ why \in [Paths -> Seq(Character)]  BY DEF Init, None
<1> QED  BY <1>1, <1>2 DEF Init, RulesInv, Typed, InStep, Ignored

LEMMA AnalyseKeeps ==
  ASSUME RulesInv, NEW read \in BOOLEAN, Analyse(read)
  PROVE  RulesInv'
<1> DEFINE rs == IF read THEN Load(file) ELSE <<>>
           matched == [p \in Paths |-> first_match(rs, p)]
           listed == {p \in Paths : \A d \in Paths : Above(d, p) => matched[d] = None}
<1>1. rs \in Seq(RuleType)
  <2>1. Load(file) \in Seq(RuleType)  BY LoadHasType DEF RulesInv, Typed
  <2> QED  BY <2>1
<1>2. /\ ~message /\ rules' = rs /\ shown' = listed /\ dangling' = {} /\ current' = read
      /\ why' = [p \in Paths |-> IF p \in listed THEN matched[p] ELSE None]
      /\ file' = file /\ message' = message
  BY DEF Analyse
<1>3. \A p \in Paths : matched[p] = first_match(rs, p)  OBVIOUS
<1>4. listed \in SUBSET Paths  OBVIOUS
<1>5. read => rs = Load(file)  OBVIOUS
<1> HIDE DEF rs, matched, listed
<1>6. \A p \in Paths : matched[p] \in Seq(Character)  BY <1>1, <1>3, FirstMatch
<1>7. why' \in [Paths -> Seq(Character)]
  <2>1. None \in Seq(Character)  BY DEF None
  <2> QED  BY <1>2, <1>6, <2>1
<1>8. Matched(rs, listed, why')
  <2> SUFFICES ASSUME NEW p \in listed
      PROVE  /\ (why'[p] # None) <=> \E i \in 1..Len(rs) : match_single(rs[i], p)
             /\ why'[p] # None => \E i \in 1..Len(rs) : rs[i].text = why'[p] /\ match_single(rs[i], p)
    BY DEF Matched
  <2>1. why'[p] = first_match(rs, p)  BY <1>2, <1>3, <1>4
  <2> QED  BY <1>1, <2>1, FirstMatch
<1>9. Typed'  BY <1>1, <1>2, <1>4, <1>7 DEF RulesInv, Typed
<1>10. InStep'  BY <1>2, <1>5, <1>8 DEF InStep
<1> QED  BY <1>9, <1>10 DEF RulesInv

LEMMA IgnoreAppends ==
  ASSUME RulesInv, NEW path \in Paths, NEW kind \in Kinds, Ignore(path, kind)
  PROVE  /\ file' \in File
         /\ Rule(menu_rule(path, kind)) \in RuleType
         /\ Load(file') = Append(Load(file), Rule(menu_rule(path, kind)))
<1> DEFINE line == menu_rule(path, kind)
<1>1. line \in Seq(Character) /\ IsRule(line)  BY MenuRuleIsRule DEF Ignore
<1>2. file' = append_pattern(file, line)  BY DEF Ignore
<1>3. file \in File  BY DEF RulesInv, Typed
<1> HIDE DEF line
<1>4. file' \in File  BY <1>1, <1>2, <1>3 DEF append_pattern, File
<1>5. Load(file') = Append(Load(file), Rule(line))  BY <1>1, <1>2, <1>3, LoadAppended
<1> QED  BY <1>1, <1>4, <1>5, RuleHasType DEF line

LEMMA RowsFollowKeeps ==
  ASSUME RulesInv, NEW read \in BOOLEAN, RowsFollow(read)
  PROVE  RulesInv'
<1> DEFINE rs == IF read THEN Load(file) ELSE <<>>
           hit == last_matches(rs)
<1>1. rs \in Seq(RuleType)
  <2>1. Load(file) \in Seq(RuleType)  BY LoadHasType DEF RulesInv, Typed
  <2> QED  BY <2>1
<1>2. /\ message /\ rules' = rs /\ dangling' = Ignored \ hit /\ message' = FALSE
      /\ current' = (current /\ read)
      /\ why' = [p \in Paths |-> IF p \in hit THEN Last(rs).text ELSE why[p]]
      /\ file' = file /\ shown' = shown
  BY DEF RowsFollow
<1>3. hit = {p \in shown : rs # <<>> /\ match_single(Last(rs), p)}  BY DEF last_matches
<1>4. read => rs = Load(file)  OBVIOUS
<1> HIDE DEF rs, hit
<1>5. hit # {} => Last(rs) \in RuleType
  <2> SUFFICES ASSUME hit # {} PROVE Last(rs) \in RuleType  OBVIOUS
  <2>1. rs # <<>>  BY <1>3
  <2> QED  BY <1>1, <2>1 DEF Last
<1>6. why \in [Paths -> Seq(Character)] /\ shown \in SUBSET Paths  BY DEF RulesInv, Typed
<1>7. why' \in [Paths -> Seq(Character)]
  <2>1. ASSUME NEW p \in hit PROVE Last(rs).text \in Seq(Character)
    BY <1>5, <2>1 DEF RuleType
  <2> QED  BY <1>2, <1>6, <2>1
<1>8. dangling' \subseteq Ignored'
  <2> SUFFICES ASSUME NEW p \in Ignored, p \notin hit PROVE p \in Ignored'  BY <1>2
  <2>1. p \in shown /\ why[p] # None /\ p \in Paths  BY <1>6 DEF Ignored
  <2>2. why'[p] = why[p]  BY <1>2, <2>1
  <2> QED  BY <1>2, <2>1, <2>2 DEF Ignored
<1>9. Typed'  BY <1>1, <1>2, <1>6, <1>7, <1>8 DEF RulesInv, Typed
<1>10. ASSUME current, read PROVE Matched(rs, shown, why')
  <2>1. PICK r \in RuleType : rs = Append(rules, r)
    BY <1>2, <1>4, <1>10 DEF RulesInv, InStep
  <2>2. Matched(rules, shown, why) /\ rules \in Seq(RuleType)
    BY <1>2, <1>10 DEF RulesInv, InStep, Typed
  <2>3. rs # <<>> /\ Last(rs) = r  BY <2>1, <2>2 DEF Last
  <2>4. \A p \in shown : why'[p] = IF match_single(r, p) THEN r.text ELSE why[p]
    <3> SUFFICES ASSUME NEW p \in shown
        PROVE  why'[p] = IF match_single(r, p) THEN r.text ELSE why[p]
      OBVIOUS
    <3>1. p \in hit <=> match_single(r, p)  BY <1>3, <2>3
    <3> QED  BY <1>2, <1>6, <2>3, <3>1
  <2> QED  BY <2>1, <2>2, <2>4, OneRuleMore
<1>11. InStep'  BY <1>2, <1>4, <1>10 DEF InStep
<1> QED  BY <1>9, <1>11 DEF RulesInv

LEMMA StepKeeps == RulesInv /\ [Next]_vars => RulesInv'
<1> SUFFICES ASSUME RulesInv, [Next]_vars PROVE RulesInv'  OBVIOUS
<1>1. CASE Edit
  <2>1. file' \in File  BY <1>1, StringIsCharacters DEF Edit
  <2> QED  BY <1>1, <2>1 DEF Edit, RulesInv, Typed, InStep, Ignored
<1>2. ASSUME NEW read \in BOOLEAN, Analyse(read) PROVE RulesInv'  BY <1>2, AnalyseKeeps
<1>3. ASSUME NEW read \in BOOLEAN, RowsFollow(read) PROVE RulesInv'  BY <1>3, RowsFollowKeeps
<1>4. ASSUME NEW path \in Paths, NEW kind \in Kinds, Ignore(path, kind) PROVE RulesInv'
  <2>1. /\ file' \in File
        /\ Rule(menu_rule(path, kind)) \in RuleType
        /\ Load(file') = Append(Load(file), Rule(menu_rule(path, kind)))
    BY <1>4, IgnoreAppends
  <2>2. /\ path \in shown /\ ~message /\ message' = TRUE
        /\ rules' = rules /\ shown' = shown /\ why' = why /\ dangling' = dangling
        /\ current' = current
    BY <1>4 DEF Ignore
  <2>3. Typed'  BY <2>1, <2>2 DEF RulesInv, Typed, Ignored
  <2>4. current => rules = Load(file) /\ Matched(rules, shown, why)
    BY <2>2 DEF RulesInv, InStep
  <2>5. InStep'  BY <2>1, <2>2, <2>4 DEF InStep
  <2> QED  BY <2>3, <2>5 DEF RulesInv
<1>5. CASE IgnoreFails
  <2>1. /\ ~message /\ file' = [file EXCEPT !.ended = TRUE] /\ rules' = rules
        /\ shown' = shown /\ why' = why /\ dangling' = dangling /\ message' = message
        /\ current' = current
    BY <1>5 DEF IgnoreFails
  <2>2. file' \in File /\ file'.lines = file.lines  BY <2>1 DEF RulesInv, Typed, File
  <2>3. Load(file') = Load(file)  BY <2>2, LoadLines
  <2>4. Typed'  BY <2>1, <2>2 DEF RulesInv, Typed, Ignored
  <2>5. InStep'  BY <2>1, <2>3 DEF RulesInv, InStep
  <2> QED  BY <2>4, <2>5 DEF RulesInv
<1>6. CASE UNCHANGED vars
  BY <1>6 DEF vars, RulesInv, Typed, InStep, Ignored
<1> QED  BY <1>1, <1>2, <1>3, <1>4, <1>5, <1>6 DEF Next

LEMMA FrontOfAppend ==
  ASSUME NEW S, NEW s \in Seq(S), NEW e \in S
  PROVE  Front(Append(s, e)) = s
<1>1. /\ Append(s, e) \in Seq(S) /\ Len(Append(s, e)) = Len(s) + 1 /\ Len(s) \in Nat
      /\ \A i \in 1..Len(s) : Append(s, e)[i] = s[i]
  OBVIOUS
<1>2. Front(Append(s, e)) = SubSeq(Append(s, e), 1, Len(s))  BY <1>1 DEF Front
<1>3. /\ SubSeq(Append(s, e), 1, Len(s)) \in Seq(S)
      /\ Len(SubSeq(Append(s, e), 1, Len(s))) = Len(s)
      /\ \A i \in 1..Len(s) : SubSeq(Append(s, e), 1, Len(s))[i] = Append(s, e)[i]
  BY <1>1
<1> QED  BY <1>1, <1>2, <1>3, SeqEqual

LEMMA RulesInvAlways == Spec => []RulesInv
<1> QED  BY InitHolds, StepKeeps, PTL DEF Spec

-----------------------------------------------------------------------------
(* The theorems.                                                           *)

(* After an analysis, and after the menu has added a rule and the rows     *)
(* were held against that rule only (update.c:609-669), a row is ignored   *)
(* exactly if an analysis of the file would ignore it, and unless its text *)
(* was freed with the old rules (ignore_patterns.c:34-37) it shows a rule  *)
(* that matches it; no rule is empty.                                      *)
THEOREM RowsAgreeAlways == Spec => []RowsAgree
<1>1. RulesInv => RowsAgree
  <2> SUFFICES ASSUME RulesInv PROVE RowsAgree  OBVIOUS
  <2>1. \A i \in 1..Len(rules) : Len(rules[i].text) > 0
    <3>1. \A i \in 1..Len(rules) : rules[i] \in RuleType  BY DEF RulesInv, Typed
    <3> QED  BY <3>1 DEF RuleType
  <2>2. file.ended \in BOOLEAN  BY DEF RulesInv, Typed, File
  <2>3. TypeOK  BY <2>1, <2>2 DEF RulesInv, Typed, TypeOK
  <2>4. ASSUME current, ~message, NEW p \in shown
        PROVE  /\ (why[p] # None) <=> (first_match(Load(file), p) # None)
               /\ why[p] # None /\ p \notin dangling =>
                     \E i \in 1..Len(rules) : rules[i].text = why[p] /\ match_single(rules[i], p)
    <3>1. rules = Load(file) /\ Matched(rules, shown, why) /\ rules \in Seq(RuleType)
      BY <2>4 DEF RulesInv, InStep, Typed
    <3>2. first_match(rules, p) # None <=> \E i \in 1..Len(rules) : match_single(rules[i], p)
      BY <3>1, FirstMatch
    <3> QED  BY <3>1, <3>2 DEF Matched
  <2> QED  BY <2>3, <2>4 DEF RowsAgree
<1> QED  BY <1>1, RulesInvAlways, PTL

(* The loop of work_match_pattern (ignore_patterns.c:142-181), going back  *)
(* to its last star only, loses no match and finds none that is not there: *)
(* whatever rules the file holds, on every path, on every directory above  *)
(* it and on every component, with stars that may take a slash and with    *)
(* stars that may not.                                                     *)
THEOREM LoopIsGlobAlways == Spec => []LoopIsGlob
<1>1. RulesInv => LoopIsGlob
  <2> SUFFICES ASSUME RulesInv, NEW i \in 1..Len(rules), NEW p \in Paths, NEW bounded \in BOOLEAN,
                      NEW c \in {<<1, j - 1>> : j \in Slashes(p)} \union {<<1, Len(p)>>}
                                 \union Components(p)
      PROVE  match_loop(rules[i].match, SubSeq(p, c[1], c[2]), bounded)
               <=> Matches(rules[i].match, SubSeq(p, c[1], c[2]), bounded)
    BY DEF LoopIsGlob
  <2>1. Len(rules[i].match) \in Nat
    <3>1. rules[i] \in RuleType  BY DEF RulesInv, Typed
    <3> QED  BY <3>1 DEF RuleType
  <2>2. Len(SubSeq(p, c[1], c[2])) \in Nat
    <3>1. p \in Seq(STRING) /\ Len(p) \in Nat  BY PathsAreRelative
    <3>2. c[1] \in 1..(Len(p) + 1) /\ c[2] \in 0..Len(p)
      BY <3>1, PathsAreRelative DEF Slashes, Components
    <3>3. SubSeq(p, c[1], c[2]) \in Seq(STRING)  BY <3>1, <3>2
    <3> QED  BY <3>3
  <2> QED  BY <2>1, <2>2, MatchLoopIsMatching
<1> QED  BY <1>1, RulesInvAlways, PTL

(* The menu adds one rule, at the end, and keeps those there are           *)
(* (on_menu.c:73-167): whatever file it finds, one whose last line is not  *)
(* ended too, and whichever row and kind of rule it is asked for.          *)
THEOREM RuleIsAddedAlways == Spec => RuleIsAdded
<1> DEFINE A == message' /\ ~message =>
                  /\ Len(Load(file')) = Len(Load(file)) + 1
                  /\ Front(Load(file')) = Load(file)
<1>1. RulesInv /\ [Next]_vars => [A]_vars
  <2> SUFFICES ASSUME RulesInv, Next, message', ~message
      PROVE  Len(Load(file')) = Len(Load(file)) + 1 /\ Front(Load(file')) = Load(file)
    BY DEF vars
  <2>1. PICK path \in Paths, kind \in Kinds : Ignore(path, kind)
    BY DEF Next, Edit, Analyse, RowsFollow, IgnoreFails
  <2>2. Load(file') = Append(Load(file), Rule(menu_rule(path, kind)))
    BY <2>1, IgnoreAppends
  <2>3. Load(file) \in Seq(RuleType)  BY LoadHasType DEF RulesInv, Typed
  <2>4. Rule(menu_rule(path, kind)) \in RuleType  BY <2>1, IgnoreAppends
  <2>5. Len(Load(file')) = Len(Load(file)) + 1  BY <2>2, <2>3, <2>4
  <2>6. Front(Load(file')) = Load(file)  BY <2>2, <2>3, <2>4, FrontOfAppend
  <2> QED  BY <2>5, <2>6
<1> QED  BY <1>1, RulesInvAlways, PTL DEF Spec, RuleIsAdded
=============================================================================
