--------------------------- MODULE ListViewProofs ---------------------------
(***************************************************************************)
(* Theorems about the rows on show, for any rows, queries, chunks and      *)
(* histories: they are rows there are, those that were asked for, and in   *)
(* the order that was asked for.                                           *)
(***************************************************************************)
EXTENDS ListView, FiniteSetTheorems, WellFoundedInduction, TLAPS

USE DEF options, shown, view

-----------------------------------------------------------------------------
(* The invariant, in named parts.                                          *)

Rows == [path : Paths, kind : Kinds, selected : BOOLEAN]
Entries == [row : Nat, action : Actions]

TypeInv ==
  /\ rows \in Seq(Rows) /\ cache \in Seq(Entries)
  /\ delete_after \in BOOLEAN /\ under \in BOOLEAN /\ timer \in BOOLEAN /\ idle \in BOOLEAN
  /\ filters \subseteq Actions /\ sort_col \in Columns
  /\ capacity \in Nat /\ reported \in Nat /\ label \in Nat /\ moves \in Nat
  /\ active \in {"no", "analysis", "transfer"} /\ trapped \in BOOLEAN

\* The cache is about rows there are, no row is in it twice, and its actions are those
\* that the rows have under the option of the last pass over all rows.
CacheInv ==
  /\ visible = [i \in DOMAIN cache |-> cache[i].row]
  /\ \A i \in DOMAIN cache : /\ cache[i].row \in DOMAIN rows
                             /\ cache[i].action = Action(rows[cache[i].row], under)
  /\ \A i, j \in DOMAIN cache : cache[i].row = cache[j].row => i = j

\* The timer runs only while no thread works; an analysis has no rows on show; at all
\* other times the cache has been made for the rows there are.
WorkInv ==
  /\ timer => active = "no"
  /\ active = "analysis" => cache = <<>>
  /\ active # "analysis" => capacity = Len(rows)

\* What is on show passes the filters, and without a search to come is all that does.
AskedInv ==
  active = "no" =>
    /\ \A i \in DOMAIN cache : cache[i].action \in filters
    /\ ~timer => ToSet(visible) = Asked

ToldInv == reported <= Len(visible) /\ (reported < Len(visible) => idle)

Inv == TypeInv /\ CacheInv /\ WorkInv /\ AskedInv /\ ShownInOrder /\ ToldInv

-----------------------------------------------------------------------------
(* Actions of rows.                                                        *)

LEMMA ActionIs ==
  ASSUME NEW row \in Rows, NEW after \in BOOLEAN
  PROVE  /\ Action(row, after) \in Actions
         /\ Action(row, after) = "new" <=> row.kind = "new"
         /\ Action(row, after) = "equal" <=> row.kind = "equal"
BY DEF Action, Actions, Rows, Kinds

\* Rows that differ in their checkboxes only have the same action.
LEMMA SameAction ==
  ASSUME NEW row, NEW new, new.kind = row.kind, NEW after
  PROVE  Action(new, after) = Action(row, after)
BY DEF Action

-----------------------------------------------------------------------------
(* Choosing and ordering.                                                  *)

\* A set of numbers has a least one.
LEMMA LeastNumber ==
  ASSUME NEW S \in SUBSET Nat, S # {}
  PROVE  \E m \in S : \A k \in S : m <= k
<1> DEFINE Less == {x \in Nat \X Nat : x[1] < x[2]}
<1>1. IsWellFoundedOn(OpToRel(<, Nat), Nat)  BY NatLessThanWellFounded
<1>2. OpToRel(<, Nat) = Less  BY DEF OpToRel
<1>3. IsWellFoundedOn(Less, Nat)  BY <1>1, <1>2
<1> HIDE DEF Less
<1>4. PICK m \in S : \A k \in S : ~(<<k, m>> \in Less)  BY <1>3, WFMin
<1>5. \A k \in S : ~(k < m)  BY <1>4 DEF Less
<1> QED  BY <1>5

LEMMA CountUp ==
  \A n \in Nat : IsFiniteSet(1..n) /\ Cardinality(1..n) = n
BY FS_Interval

\* An order of the places that stay names each of them once.
LEMMA OrderIs ==
  ASSUME NEW n \in Nat, NEW kept \in SUBSET (1..n), NEW s \in Injection(1..Cardinality(kept), kept)
  PROVE  /\ Cardinality(kept) \in 0..n
         /\ s \in [1..Cardinality(kept) -> kept] /\ DOMAIN s = 1..Cardinality(kept)
         /\ \A i, j \in DOMAIN s : s[i] = s[j] => i = j
         /\ \A k \in kept : \E i \in DOMAIN s : s[i] = k
         /\ Cardinality(1..n) = n
<1>1. IsFiniteSet(1..n) /\ Cardinality(1..n) = n  BY FS_Interval
<1>2. IsFiniteSet(kept) /\ Cardinality(kept) <= n  BY <1>1, FS_Subset
<1>3. Cardinality(kept) \in Nat  BY <1>2, FS_CardinalityType
<1>4. Cardinality(1..Cardinality(kept)) = Cardinality(kept)  BY <1>3, FS_Interval
<1>5. s \in Surjection(1..Cardinality(kept), kept)  BY <1>2, <1>4, FS_Injection
<1>6. s \in [1..Cardinality(kept) -> kept] /\ IsInjective(s)  BY DEF Injection
<1>7. \A k \in kept : \E i \in DOMAIN s : s[i] = k  BY <1>5, <1>6 DEF Surjection
<1> QED  BY <1>1, <1>2, <1>3, <1>6, <1>7 DEF IsInjective

\* When all places stay and keep their order, nothing moves.
LEMMA OrderIsIdentity ==
  ASSUME NEW n \in Nat, NEW s \in Injection(1..n, 1..n),
         \A i, j \in 1..n : i < j => s[i] < s[j]
  PROVE  \A i \in 1..n : s[i] = i
<1>1. /\ s \in [1..n -> 1..n] /\ DOMAIN s = 1..n
      /\ \A i, j \in 1..n : s[i] = s[j] => i = j
      /\ \A k \in 1..n : \E i \in 1..n : s[i] = k
  <2>1. Cardinality(1..n) = n  BY FS_Interval
  <2>2. (1..n) \in SUBSET (1..n) /\ s \in Injection(1..Cardinality(1..n), 1..n)  BY <2>1
  <2>3. /\ s \in [1..Cardinality(1..n) -> 1..n] /\ DOMAIN s = 1..Cardinality(1..n)
        /\ \A i, j \in DOMAIN s : s[i] = s[j] => i = j
        /\ \A k \in 1..n : \E i \in DOMAIN s : s[i] = k
    BY <2>2, OrderIs, Zenon
  <2> QED  BY <2>1, <2>3
<1> DEFINE Moved == {i \in 1..n : s[i] # i}
<1> SUFFICES ASSUME Moved # {} PROVE FALSE  OBVIOUS
<1>2. PICK m \in Moved : \A k \in Moved : m <= k
  <2>1. Moved \in SUBSET Nat  OBVIOUS
  <2> HIDE DEF Moved
  <2> QED  BY <2>1, LeastNumber
<1>3. PICK j \in 1..n : s[j] = m  BY <1>1
<1>4. m < j
  <2>1. j # m  BY <1>2, <1>3
  <2>2. ~(j < m)
    <3>1. j < m => s[j] = j  BY <1>2
    <3> QED  BY <3>1, <1>2, <1>3
  <2> QED  BY <2>1, <2>2, <1>2
<1>5. s[m] < m /\ s[m] \in 1..n  BY <1>1, <1>3, <1>4
<1>6. s[s[m]] = s[m]  BY <1>2, <1>5
<1> QED  BY <1>1, <1>5, <1>6

-----------------------------------------------------------------------------
(* A pass over the rows.                                                   *)

\* The entries that stay, in another order.
Picked(e, s) == [i \in DOMAIN s |-> e[s[i]]]

LEMMA Rearranged ==
  ASSUME NEW e \in Seq(Entries), NEW kept \in SUBSET DOMAIN e,
         NEW s \in Injection(1..Cardinality(kept), kept),
         \A k, l \in DOMAIN e : e[k].row = e[l].row => k = l
  PROVE  /\ Picked(e, s) \in Seq(Entries)
         /\ DOMAIN Picked(e, s) = DOMAIN s /\ Len(s) = Len(Picked(e, s))
         /\ \A i \in DOMAIN s : s[i] \in kept /\ Picked(e, s)[i] = e[s[i]]
         /\ \A k \in kept : \E i \in DOMAIN s : Picked(e, s)[i] = e[k]
         /\ \A i, j \in DOMAIN s : Picked(e, s)[i].row = Picked(e, s)[j].row => i = j
<1> DEFINE c == Picked(e, s)
<1> USE DEF Picked
<1>1. DOMAIN e = 1..Len(e) /\ Len(e) \in Nat /\ \A k \in DOMAIN e : e[k] \in Entries  OBVIOUS
<1>2. /\ Cardinality(kept) \in Nat
      /\ s \in [1..Cardinality(kept) -> kept] /\ DOMAIN s = 1..Cardinality(kept)
      /\ \A i, j \in DOMAIN s : s[i] = s[j] => i = j
      /\ \A k \in kept : \E i \in DOMAIN s : s[i] = k
  <2>1. kept \in SUBSET (1..Len(e))  BY <1>1
  <2> QED  BY <1>1, <2>1, OrderIs
<1>3. \A i \in DOMAIN s : s[i] \in kept /\ s[i] \in DOMAIN e  BY <1>2
<1>4. c \in [1..Cardinality(kept) -> Entries]  BY <1>1, <1>2, <1>3
<1>5. c \in Seq(Entries) /\ Len(c) = Cardinality(kept)  BY <1>2, <1>4
<1>6. Len(s) = Cardinality(kept)  BY <1>2
<1>7. \A i, j \in DOMAIN c : c[i].row = c[j].row => i = j  BY <1>2, <1>3
<1> QED  BY <1>2, <1>3, <1>5, <1>6, <1>7

\* The entry of a row.
EntryOf(e, rws, after) == e.row \in DOMAIN rws /\ e.action = Action(rws[e.row], after)

\* Earlier, of given rows.
Before(rws, col, r, q) ==
  IF col = "src_path"
    THEN \/ rws[r].kind = "extra"
         \/ rws[q].kind # "extra" /\ Rank[rws[r].path] <= Rank[rws[q].path]
    ELSE \/ rws[q].kind = "extra"
         \/ rws[r].kind # "extra" /\ (rws[r].kind = "new" \/ rws[q].kind = "equal")

\* All entries stand in order.
InOrder(rws, col, c) == \A i, j \in DOMAIN c : i < j => Before(rws, col, c[i].row, c[j].row)

LEMMA OrderOfCache ==
  ASSUME visible = [i \in DOMAIN cache |-> cache[i].row]
  PROVE  ShownInOrder <=> InOrder(rows, sort_col, cache)
BY DEF ShownInOrder, InOrder, Earlier, Before

LEMMA OrderOfNewCache ==
  ASSUME visible' = [i \in DOMAIN cache' |-> cache'[i].row]
  PROVE  ShownInOrder' <=> InOrder(rows', sort_col', cache')
BY DEF ShownInOrder, InOrder, Earlier, Before

\* The keys are in the order that is asked for.
LEMMA KeysOrder ==
  ASSUME rows' \in Seq(Rows), sort_col' \in Columns, NEW after \in BOOLEAN,
         NEW e \in Entries, EntryOf(e, rows', after), NEW f \in Entries, EntryOf(f, rows', after),
         Key(e) <= Key(f)
  PROVE  Before(rows', sort_col', e.row, f.row)
<1>1. rows'[e.row] \in Rows /\ rows'[f.row] \in Rows  BY DEF EntryOf
<1>2. /\ rows'[e.row].kind \in Kinds /\ rows'[f.row].kind \in Kinds
      /\ rows'[e.row].path \in Paths /\ rows'[f.row].path \in Paths
  BY <1>1 DEF Rows
<1>3. CASE sort_col' = "src_path"
  <2>1. Rank[rows'[e.row].path] \in Nat \ {0} /\ Rank[rows'[f.row].path] \in Nat \ {0}
    BY <1>2, ListAssumption
  <2> QED  BY <1>3, <2>1 DEF Key, Before
<1>4. CASE sort_col' = "src_action"
  <2>1. /\ e.action = "new" <=> rows'[e.row].kind = "new"
        /\ e.action = "equal" <=> rows'[e.row].kind = "equal"
        /\ f.action = "new" <=> rows'[f.row].kind = "new"
        /\ f.action = "equal" <=> rows'[f.row].kind = "equal"
    BY <1>1, ActionIs DEF EntryOf
  <2>2. Key(e) = IF rows'[e.row].kind = "new" THEN 1
                 ELSE IF rows'[e.row].kind = "equal" THEN 2 ELSE 3
    BY <1>4, <2>1 DEF Key
  <2>3. Key(f) = IF rows'[f.row].kind = "new" THEN 1
                 ELSE IF rows'[f.row].kind = "equal" THEN 2 ELSE 3
    BY <1>4, <2>1 DEF Key
  <2> QED  BY <1>2, <1>4, <2>2, <2>3 DEF Before, Kinds
<1> QED  BY <1>3, <1>4 DEF Columns

\* What a pass that is not cut short makes of the entries it walks.
LEMMA PassMakes ==
  ASSUME NEW change \in {"complete", "filter_out", "sort", "select"}, NEW after \in BOOLEAN,
         PassOver(change, after), trapped \in BOOLEAN,
         rows' \in Seq(Rows), sort_col' \in Columns, label \in Nat, under \in BOOLEAN,
         NEW e, e = IF change = "complete" THEN Fresh(after) ELSE cache,
         e \in Seq(Entries), \A k \in DOMAIN e : EntryOf(e[k], rows', under'),
         \A k, l \in DOMAIN e : e[k].row = e[l].row => k = l,
         change = "select" =>
             /\ visible = [i \in DOMAIN cache |-> cache[i].row]
             /\ \A k \in DOMAIN cache : cache[k].action \in filters'
             /\ InOrder(rows', sort_col', cache)
  PROVE  /\ cache' \in Seq(Entries) /\ idle' \in BOOLEAN /\ label' \in Nat /\ under' \in BOOLEAN
         /\ reported' = 0 /\ capacity' = Len(rows') /\ trapped' \in BOOLEAN
         /\ CacheInv' /\ ShownInOrder' /\ ToldInv'
         /\ \A i \in DOMAIN cache' : cache'[i].action \in filters'
         /\ \A r : r \in ToSet(visible') <=> \E k \in DOMAIN e : e[k].row = r /\ Keeps(change, e[k])
<1>1. /\ capacity' = Len(rows') /\ ListModelUpdate /\ trapped' = trapped
      /\ \/ label' = Cardinality({k \in DOMAIN e : rows'[e[k].row].selected})
         \/ label' = label
      /\ under' = IF change = "complete" THEN after ELSE under
      /\ \E kept, s :
            /\ \A k : k \in kept <=> k \in DOMAIN e /\ Keeps(change, e[k])
            /\ s \in Injection(1..Cardinality(kept), kept)
            /\ \A i, j \in DOMAIN s : i < j =>
                  IF change = "select" THEN s[i] < s[j] ELSE Key(e[s[i]]) <= Key(e[s[j]])
            /\ cache' = [i \in DOMAIN s |-> e[s[i]]]
            /\ visible' = IF change = "select" THEN SubSeq(visible, 1, Len(s))
                          ELSE [i \in DOMAIN s |-> e[s[i]].row]
  <2> DEFINE entries == IF change = "complete" THEN Fresh(after) ELSE cache
             kept == {k \in DOMAIN entries : Keeps(change, entries[k])}
  <2>1. /\ capacity' = Len(rows') /\ ListModelUpdate /\ trapped' = trapped
        /\ label' = IF change \in {"complete", "select"} THEN CountSelected(entries) ELSE label
        /\ under' = IF change = "complete" THEN after ELSE under
        /\ \E s \in Orders(change, entries, kept) :
              /\ cache' = [i \in DOMAIN s |-> entries[s[i]]]
              /\ visible' = IF change = "select" THEN SubSeq(visible, 1, Len(s))
                            ELSE [i \in DOMAIN s |-> entries[s[i]].row]
    BY Zenon DEF PassOver
  <2>2. e = entries  OBVIOUS
  <2>3. \A k : k \in kept <=> k \in DOMAIN e /\ Keeps(change, e[k])
    BY <2>2 DEF Keeps, Matches
  <2> HIDE DEF entries, kept
  <2>4. PICK s \in Orders(change, entries, kept) :
              /\ cache' = [i \in DOMAIN s |-> entries[s[i]]]
              /\ visible' = IF change = "select" THEN SubSeq(visible, 1, Len(s))
                            ELSE [i \in DOMAIN s |-> entries[s[i]].row]
    BY <2>1
  <2>5. /\ s \in Injection(1..Cardinality(kept), kept)
        /\ \A i, j \in DOMAIN s : i < j =>
              IF change = "select" THEN s[i] < s[j] ELSE Key(entries[s[i]]) <= Key(entries[s[j]])
    BY <2>4 DEF Orders
  <2>6. \A i, j \in DOMAIN s : i < j =>
              IF change = "select" THEN s[i] < s[j] ELSE Key(e[s[i]]) <= Key(e[s[j]])
    BY <2>2, <2>5 DEF Key
  <2>7. \/ label' = Cardinality({k \in DOMAIN e : rows'[e[k].row].selected})
        \/ label' = label
    BY <2>1, <2>2 DEF CountSelected
  <2>8. /\ cache' = [i \in DOMAIN s |-> e[s[i]]]
        /\ visible' = IF change = "select" THEN SubSeq(visible, 1, Len(s))
                      ELSE [i \in DOMAIN s |-> e[s[i]].row]
    BY <2>2, <2>4
  <2> QED  BY <2>1, <2>3, <2>5, <2>6, <2>7, <2>8
<1>2. PICK kept, s :
         /\ \A k : k \in kept <=> k \in DOMAIN e /\ Keeps(change, e[k])
         /\ s \in Injection(1..Cardinality(kept), kept)
         /\ \A i, j \in DOMAIN s : i < j =>
               IF change = "select" THEN s[i] < s[j] ELSE Key(e[s[i]]) <= Key(e[s[j]])
         /\ cache' = [i \in DOMAIN s |-> e[s[i]]]
         /\ visible' = IF change = "select" THEN SubSeq(visible, 1, Len(s))
                       ELSE [i \in DOMAIN s |-> e[s[i]].row]
  BY <1>1
<1>3. kept \in SUBSET DOMAIN e /\ s \in Injection(1..Cardinality(kept), kept)  BY <1>2
<1>4. /\ cache' \in Seq(Entries) /\ DOMAIN cache' = DOMAIN s /\ Len(s) = Len(cache')
      /\ \A i \in DOMAIN cache' : s[i] \in kept /\ cache'[i] = e[s[i]]
      /\ \A k \in kept : \E i \in DOMAIN cache' : cache'[i] = e[k]
      /\ \A i, j \in DOMAIN cache' : cache'[i].row = cache'[j].row => i = j
  <2>1. cache' = Picked(e, s)  BY <1>2 DEF Picked
  <2> QED  BY <1>3, <2>1, Rearranged
<1>5. change = "select" => cache' = cache
  <2> SUFFICES ASSUME change = "select" PROVE cache' = cache  OBVIOUS
  <2>1. kept = 1..Len(cache) /\ e = cache /\ Len(cache) \in Nat
    <3>1. e = cache /\ DOMAIN cache = 1..Len(cache) /\ Len(cache) \in Nat  OBVIOUS
    <3>2. \A k \in DOMAIN cache : Keeps(change, cache[k])  BY DEF Keeps
    <3> QED  BY <1>2, <3>1, <3>2
  <2>2. Cardinality(kept) = Len(cache)
    <3>1. Cardinality(1..Len(cache)) = Len(cache)  BY <2>1, CountUp
    <3> QED  BY <2>1, <3>1
  <2>3. s \in Injection(1..Len(cache), 1..Len(cache))  BY <1>3, <2>1, <2>2
  <2>4. DOMAIN s = 1..Len(cache)  BY <2>3 DEF Injection
  <2>5. \A i, j \in 1..Len(cache) : i < j => s[i] < s[j]
    BY <1>2, <2>4
  <2>6. \A i \in 1..Len(cache) : s[i] = i  BY <2>1, <2>3, <2>5, OrderIsIdentity
  <2> QED  BY <1>2, <2>1, <2>4, <2>6
<1>6. visible' = [i \in DOMAIN cache' |-> cache'[i].row]
  <2>1. CASE change # "select"  BY <1>2, <1>4, <2>1
  <2>2. CASE change = "select"
    <3>1. cache' = cache /\ Len(s) = Len(cache) /\ cache \in Seq(Entries)  BY <1>4, <1>5, <2>2
    <3>2. /\ visible = [i \in 1..Len(cache) |-> cache[i].row] /\ Len(cache) \in Nat
          /\ \A i \in 1..Len(cache) : cache[i] \in Entries
      BY <2>2, <3>1
    <3>3. visible \in Seq(Nat) /\ Len(visible) = Len(cache)
      <4>1. \A i \in 1..Len(cache) : cache[i].row \in Nat  BY <3>2 DEF Entries
      <4> QED  BY <3>2, <4>1
    <3>4. SubSeq(visible, 1, Len(cache)) = visible  BY <3>3
    <3> QED  BY <1>2, <2>2, <3>1, <3>2, <3>4
  <2> QED  BY <2>1, <2>2
<1>7. \A i \in DOMAIN cache' : EntryOf(cache'[i], rows', under')
  <2>1. \A i \in DOMAIN cache' : s[i] \in DOMAIN e /\ cache'[i] = e[s[i]]  BY <1>3, <1>4
  <2> QED  BY <2>1
<1>8. CacheInv'  BY <1>4, <1>6, <1>7 DEF CacheInv, EntryOf
<1>9. \A i \in DOMAIN cache' : cache'[i].action \in filters'
  <2>1. \A k \in kept : e[k].action \in filters'  BY <1>2 DEF Keeps
  <2> QED  BY <1>4, <2>1
<1>10. under' \in BOOLEAN  BY <1>1
<1>11. ShownInOrder'
  <2>1. CASE change # "select"
    <3>1. \A i, j \in DOMAIN s : i < j => Key(e[s[i]]) <= Key(e[s[j]])
      BY <1>2, <2>1
    <3>2. \A i \in DOMAIN cache' : cache'[i] \in Entries  BY <1>4
    <3>3. ASSUME NEW i \in DOMAIN cache', NEW j \in DOMAIN cache', i < j
          PROVE  Before(rows', sort_col', cache'[i].row, cache'[j].row)
      <4>1. Key(cache'[i]) <= Key(cache'[j])  BY <1>4, <3>1, <3>3
      <4>2. cache'[i] \in Entries /\ cache'[j] \in Entries  BY <3>2
      <4>3. EntryOf(cache'[i], rows', under') /\ EntryOf(cache'[j], rows', under')  BY <1>7
      <4> QED  BY <1>10, <4>1, <4>2, <4>3, KeysOrder
    <3> QED  BY <1>6, <3>3, OrderOfNewCache DEF InOrder
  <2>2. CASE change = "select"
    BY <1>5, <1>6, <2>2, OrderOfNewCache
  <2> QED  BY <2>1, <2>2
<1>12. label' \in Nat
  <2>1. IsFiniteSet(DOMAIN e)
    <3>1. DOMAIN e = 1..Len(e) /\ Len(e) \in Nat  OBVIOUS
    <3> QED  BY <3>1, FS_Interval
  <2> DEFINE sel == {k \in DOMAIN e : rows'[e[k].row].selected}
  <2>2. IsFiniteSet(sel)  BY <2>1, FS_Subset
  <2>3. Cardinality(sel) \in Nat  BY <2>2, FS_CardinalityType
  <2> QED  BY <1>1, <2>3
<1>13. reported' = 0 /\ idle' \in BOOLEAN /\ ToldInv'
  <2>1. Len(visible') \in Nat /\ (visible' = <<>> => Len(visible') = 0)
    <3>1. DOMAIN visible' = 1..Len(cache') /\ Len(cache') \in Nat  BY <1>4, <1>6
    <3>2. Len(visible') = Len(cache')  BY <1>6, <3>1
    <3> QED  BY <3>1, <3>2
  <2>2. reported' = 0 /\ idle' = (visible' # <<>>)  BY <1>1 DEF ListModelUpdate
  <2>3. idle' \in BOOLEAN  BY <2>2, Zenon
  <2>4. 0 < Len(visible') => idle'
    <3>1. 0 < Len(visible') => visible' # <<>>  BY <2>1
    <3> QED  BY <2>2, <3>1, Zenon
  <2>5. reported' <= Len(visible') /\ (reported' < Len(visible') => idle')  BY <2>1, <2>2, <2>4
  <2> QED  BY <2>2, <2>3, <2>5 DEF ToldInv
<1>14. \A r : r \in ToSet(visible') <=> \E k \in DOMAIN e : e[k].row = r /\ Keeps(change, e[k])
  <2>1. \A r : r \in ToSet(visible') <=> \E i \in DOMAIN cache' : cache'[i].row = r
    BY <1>6 DEF ToSet
  <2>2. ASSUME NEW i \in DOMAIN cache'
        PROVE  \E k \in DOMAIN e : e[k].row = cache'[i].row /\ Keeps(change, e[k])
    <3>1. s[i] \in kept /\ cache'[i] = e[s[i]]  BY <1>4
    <3>2. s[i] \in DOMAIN e /\ Keeps(change, e[s[i]])  BY <1>2, <3>1
    <3> QED  BY <3>1, <3>2
  <2>3. ASSUME NEW k \in DOMAIN e, Keeps(change, e[k])
        PROVE  \E i \in DOMAIN cache' : cache'[i].row = e[k].row
    <3>1. k \in kept  BY <1>2, <2>3
    <3> QED  BY <1>4, <3>1
  <2> QED  BY <2>1, <2>2, <2>3
<1> QED  BY <1>1, <1>4, <1>8, <1>9, <1>10, <1>11, <1>12, <1>13, <1>14

\* What every pass that is made leaves behind.
AfterPass ==
  /\ cache' \in Seq(Entries) /\ idle' \in BOOLEAN /\ label' \in Nat /\ under' \in BOOLEAN
  /\ reported' = 0 /\ capacity' = Len(rows') /\ trapped' \in BOOLEAN
  /\ CacheInv' /\ ShownInOrder' /\ ToldInv'
  /\ \A i \in DOMAIN cache' : cache'[i].action \in filters'

LEMMA CompletePass ==
  ASSUME NEW after \in BOOLEAN, PassUnder("complete", after), TypeInv,
         rows' \in Seq(Rows), sort_col' \in Columns
  PROVE  AfterPass /\ ToSet(visible') = Asked'
<1> DEFINE e == Fresh(after)
<1>1. /\ e \in Seq(Entries) /\ DOMAIN e = DOMAIN rows'
      /\ \A k \in DOMAIN rows' : e[k].row = k /\ e[k].action = Action(rows'[k], after)
  <2>1. DOMAIN rows' = 1..Len(rows') /\ Len(rows') \in Nat  OBVIOUS
  <2>2. \A k \in 1..Len(rows') : Action(rows'[k], after) \in Actions
    <3>1. \A k \in 1..Len(rows') : rows'[k] \in Rows  BY <2>1
    <3> QED  BY <3>1, ActionIs
  <2>3. e = [k \in 1..Len(rows') |-> [row |-> k, action |-> Action(rows'[k], after)]]
    BY <2>1 DEF Fresh
  <2>4. \A k \in 1..Len(rows') : [row |-> k, action |-> Action(rows'[k], after)] \in Entries
    BY <2>1, <2>2 DEF Entries
  <2> QED  BY <2>1, <2>3, <2>4
<1>0. PassOver("complete", after)  BY DEF PassUnder, AssertFails
<1>2. under' = after  BY <1>0 DEF PassOver
<1>3. \A k \in DOMAIN e : EntryOf(e[k], rows', under')  BY <1>1, <1>2 DEF EntryOf
<1>4. \A k, l \in DOMAIN e : e[k].row = e[l].row => k = l  BY <1>1
<1>5. label \in Nat /\ under \in BOOLEAN /\ trapped \in BOOLEAN  BY DEF TypeInv
<1>6. e = IF "complete" = "complete" THEN Fresh(after) ELSE cache  OBVIOUS
<1> HIDE DEF e
<1>7. /\ AfterPass
      /\ \A r : r \in ToSet(visible') <=> \E k \in DOMAIN e : e[k].row = r /\ Keeps("complete", e[k])
  BY <1>0, <1>1, <1>3, <1>4, <1>5, <1>6, PassMakes DEF AfterPass
<1>8. \A k \in DOMAIN rows' :
         Keeps("complete", e[k]) <=> Action(rows'[k], under') \in filters' /\ rows'[k].path \in query'
  BY <1>1, <1>2 DEF Keeps, Matches
<1>9. \A r : r \in ToSet(visible') <=>
         r \in DOMAIN rows' /\ Action(rows'[r], under') \in filters' /\ rows'[r].path \in query'
  BY <1>1, <1>7, <1>8
<1> QED  BY <1>7, <1>9 DEF Asked

\* Where there are rows and no analysis, a complete pass has been made.
LEMMA NotFirst ==
  ASSUME Inv, active = "no", rows # <<>>, NEW change, NEW after, PassUnder(change, after)
  PROVE  PassOver(change, after)
<1>1. capacity # 0  BY DEF Inv, TypeInv, WorkInv
<1> QED  BY <1>1 DEF PassUnder, AssertFails

LEMMA CachedPass ==
  ASSUME NEW change \in {"filter_out", "sort", "select"}, NEW after \in BOOLEAN,
         PassOver(change, after), Inv,
         rows' \in Seq(Rows), DOMAIN rows' = DOMAIN rows, sort_col' \in Columns,
         \A r \in DOMAIN rows : rows'[r].kind = rows[r].kind /\ rows'[r].path = rows[r].path,
         change = "select" => active = "no" /\ sort_col' = sort_col /\ filters' = filters
  PROVE  /\ AfterPass /\ under' = under
         /\ \A r : r \in ToSet(visible') <=>
               \E k \in DOMAIN cache : cache[k].row = r /\ Keeps(change, cache[k])
<1> USE DEF Inv
<1>1. under' = under  BY DEF PassOver
<1>2. \A k \in DOMAIN cache : EntryOf(cache[k], rows', under')
  BY <1>1, SameAction DEF CacheInv, EntryOf
<1>3. \A k, l \in DOMAIN cache : cache[k].row = cache[l].row => k = l  BY DEF CacheInv
<1>4. ASSUME change = "select"
      PROVE  /\ visible = [i \in DOMAIN cache |-> cache[i].row]
             /\ \A k \in DOMAIN cache : cache[k].action \in filters'
             /\ InOrder(rows', sort_col', cache)
  <2>1. visible = [i \in DOMAIN cache |-> cache[i].row]  BY DEF CacheInv
  <2>2. \A k \in DOMAIN cache : cache[k].action \in filters'  BY <1>4 DEF AskedInv
  <2>3. InOrder(rows, sort_col, cache)  BY <2>1, OrderOfCache
  <2>4. \A k \in DOMAIN cache : cache[k].row \in DOMAIN rows  BY DEF CacheInv
  <2>5. InOrder(rows', sort_col', cache)  BY <1>4, <2>3, <2>4 DEF InOrder, Before
  <2> QED  BY <2>1, <2>2, <2>5
<1>5. cache = IF change = "complete" THEN Fresh(after) ELSE cache  OBVIOUS
<1>6. label \in Nat /\ under \in BOOLEAN /\ trapped \in BOOLEAN /\ cache \in Seq(Entries)
  BY DEF TypeInv
<1>7. change \in {"complete", "filter_out", "sort", "select"}  OBVIOUS
<1> HIDE DEF Inv
<1> QED  BY <1>1, <1>2, <1>3, <1>4, <1>5, <1>6, <1>7, PassMakes DEF AfterPass

-----------------------------------------------------------------------------
(* Each step keeps the invariant.                                          *)

LEMMA InvInit == Init => Inv
<1> SUFFICES ASSUME Init PROVE Inv  OBVIOUS
<1>1. TypeInv
  <2>1. rows \in Seq(Rows) /\ cache \in Seq(Entries)  BY DEF Init
  <2>2. filters \subseteq Actions /\ sort_col \in Columns
    BY DEF Init, DefaultFilters, Actions, Columns
  <2>3. /\ delete_after \in BOOLEAN /\ under \in BOOLEAN /\ timer \in BOOLEAN /\ idle \in BOOLEAN
        /\ active \in {"no", "analysis", "transfer"} /\ trapped \in BOOLEAN
    BY DEF Init
  <2>4. capacity \in Nat /\ reported \in Nat /\ label \in Nat /\ moves \in Nat
    BY DEF Init
  <2> QED  BY <2>1, <2>2, <2>3, <2>4 DEF TypeInv
<1>2. CacheInv /\ WorkInv /\ ShownInOrder  BY DEF Init, CacheInv, WorkInv, ShownInOrder
<1>3. AskedInv /\ ToldInv  BY DEF Init, AskedInv, ToldInv, Asked, ToSet
<1> QED  BY <1>1, <1>2, <1>3 DEF Inv

\* The invariant after a pass, or after no pass because there are no rows.
LEMMA InvAfterPass ==
  ASSUME AfterPass, rows' \in Seq(Rows), timer' \in BOOLEAN,
         delete_after' \in BOOLEAN, filters' \subseteq Actions, sort_col' \in Columns,
         moves' \in Nat, active' \in {"no", "transfer"}, timer' => active' = "no",
         active' = "no" /\ ~timer' => ToSet(visible') = Asked'
  PROVE  Inv'
<1>1. Len(rows') \in Nat  OBVIOUS
<1>2. TypeInv'  BY <1>1 DEF AfterPass, TypeInv
<1>3. WorkInv'  BY DEF AfterPass, WorkInv
<1>4. AskedInv'  BY DEF AfterPass, AskedInv
<1> QED  BY <1>2, <1>3, <1>4 DEF AfterPass, Inv

\* Fewer filters: what was on show and passes them is what they ask for.
LEMMA FilteredOut ==
  ASSUME Inv, active = "no", ~timer, rows' = rows, query' = query, under' = under,
         filters' \subseteq filters,
         \A r : r \in ToSet(visible') <=>
            \E k \in DOMAIN cache : cache[k].row = r /\ Keeps("filter_out", cache[k])
  PROVE  ToSet(visible') = Asked'
<1>1. \A r : r \in Asked <=> \E k \in DOMAIN cache : cache[k].row = r
  <2>1. \A r : r \in ToSet(visible) <=> \E k \in DOMAIN cache : cache[k].row = r
    BY DEF Inv, CacheInv, ToSet
  <2> QED  BY <2>1 DEF Inv, AskedInv
<1>2. \A k \in DOMAIN cache :
         Keeps("filter_out", cache[k])
           <=> Action(rows[cache[k].row], under) \in filters' /\ rows[cache[k].row].path \in query
  BY DEF Inv, CacheInv, Keeps, Matches
<1>3. \A r : r \in Asked' <=> r \in Asked /\ Action(rows[r], under) \in filters'
  BY DEF Asked
<1>4. \A r : r \in Asked => rows[r].path \in query  BY DEF Asked
<1> QED  BY <1>1, <1>2, <1>3, <1>4

LEMMA NoRows ==
  ASSUME Inv, rows = <<>>
  PROVE  cache = <<>> /\ visible = <<>>
<1>1. DOMAIN cache = {}  BY DEF Inv, CacheInv
<1>2. cache = <<>>  BY <1>1 DEF Inv, TypeInv
<1> QED  BY <1>2 DEF Inv, CacheInv

LEMMA InvNoRows ==
  ASSUME Inv, rows = <<>>, UNCHANGED <<rows, view>>, timer' \in BOOLEAN,
         delete_after' \in BOOLEAN, filters' \subseteq Actions, sort_col' \in Columns,
         moves' \in Nat, active' = active, timer' => active = "no"
  PROVE  Inv'
<1>1. cache = <<>> /\ visible = <<>>  BY NoRows
<1>2. cache' = <<>> /\ visible' = <<>> /\ rows' = <<>>  BY <1>1
<1>3. TypeInv'  BY DEF Inv, TypeInv
<1>4. CacheInv' /\ ShownInOrder'  BY <1>2 DEF CacheInv, ShownInOrder
<1>5. WorkInv'  BY DEF Inv, WorkInv
<1>6. AskedInv'  BY <1>2 DEF AskedInv, Asked, ToSet
<1>7. ToldInv'  BY DEF Inv, ToldInv
<1> QED  BY <1>3, <1>4, <1>5, <1>6, <1>7 DEF Inv

\* A user's move.
LEMMA MovesType ==
  ASSUME Inv, moves' = moves + 1
  PROVE  moves' \in Nat
BY DEF Inv, TypeInv

LEMMA InvSearch ==
  ASSUME Inv, NEW q \in Queries, Search(q)
  PROVE  Inv'
<1>1. TypeInv'  BY DEF Inv, TypeInv, Search, UserMay
<1>2. CacheInv' /\ WorkInv' /\ ToldInv'
  BY DEF Inv, CacheInv, WorkInv, ToldInv, Search, UserMay
<1>3. ShownInOrder'  BY DEF Inv, ShownInOrder, Earlier, Search
<1>4. AskedInv'  BY DEF Inv, AskedInv, Search
<1> QED  BY <1>1, <1>2, <1>3, <1>4 DEF Inv

LEMMA InvSearchTimeout ==
  ASSUME Inv, SearchTimeout
  PROVE  Inv'
<1>1. /\ timer' = FALSE /\ active = "no" /\ active' = "no"
      /\ rows' = rows /\ UNCHANGED options /\ moves' = moves
  BY DEF SearchTimeout, Inv, WorkInv
<1>2. /\ rows' \in Seq(Rows) /\ delete_after' \in BOOLEAN /\ filters' \subseteq Actions
      /\ sort_col' \in Columns /\ moves' \in Nat /\ timer' \in BOOLEAN
  BY <1>1 DEF Inv, TypeInv
<1>3. CASE rows = <<>>
  <2>1. UNCHANGED <<rows, view>>  BY <1>1, <1>3 DEF SearchTimeout
  <2> QED  BY <1>1, <1>2, <1>3, <2>1, InvNoRows
<1>4. CASE rows # <<>>
  <2>1. PassUnder("complete", delete_after')  BY <1>1, <1>4 DEF SearchTimeout, Pass
  <2>2. AfterPass /\ ToSet(visible') = Asked'  BY <1>2, <2>1, CompletePass DEF Inv
  <2> QED  BY <1>1, <1>2, <2>2, InvAfterPass
<1> QED  BY <1>3, <1>4

LEMMA InvToggleFilter ==
  ASSUME Inv, NEW a \in Actions, ToggleFilter(a)
  PROVE  Inv'
<1>1. /\ active = "no" /\ active' = "no" /\ rows' = rows /\ timer' = timer
      /\ query' = query /\ sort_col' = sort_col /\ delete_after' = delete_after
      /\ moves' = moves + 1
      /\ filters' = IF a \in filters THEN filters \ {a} ELSE filters \union {a}
  BY DEF ToggleFilter, UserMay
<1>2. /\ rows' \in Seq(Rows) /\ delete_after' \in BOOLEAN /\ filters' \subseteq Actions
      /\ sort_col' \in Columns /\ moves' \in Nat /\ timer' \in BOOLEAN
  BY <1>1 DEF Inv, TypeInv
<1>3. CASE rows = <<>>
  <2>1. UNCHANGED <<rows, view>>  BY <1>1, <1>3 DEF ToggleFilter
  <2> QED  BY <1>1, <1>2, <1>3, <2>1, InvNoRows DEF Inv, WorkInv
<1>4. CASE rows # <<>> /\ a \notin filters
  <2>1. PassUnder("complete", delete_after')  BY <1>1, <1>4 DEF ToggleFilter, Pass, ChangeFor
  <2>2. AfterPass /\ ToSet(visible') = Asked'  BY <1>2, <2>1, CompletePass DEF Inv
  <2> QED  BY <1>1, <1>2, <2>2, InvAfterPass
<1>5. CASE rows # <<>> /\ a \in filters
  <2>1. PassUnder("filter_out", delete_after')  BY <1>1, <1>5 DEF ToggleFilter, Pass, ChangeFor
  <2>2. PassOver("filter_out", delete_after')  BY <1>1, <1>5, <2>1, NotFirst
  <2>3. /\ AfterPass /\ under' = under
        /\ \A r : r \in ToSet(visible') <=>
               \E k \in DOMAIN cache : cache[k].row = r /\ Keeps("filter_out", cache[k])
    BY <1>1, <1>2, <2>2, CachedPass
  <2>4. ~timer => ToSet(visible') = Asked'
    BY <1>1, <1>5, <2>3, FilteredOut DEF Asked
  <2> QED  BY <1>1, <1>2, <2>3, <2>4, InvAfterPass
<1> QED  BY <1>3, <1>4, <1>5

\* No filter goes and no row changes: all that was on show stays.
LEMMA SameShown ==
  ASSUME Inv, active = "no", ~timer, under' = under, filters' = filters, query' = query,
         rows' \in Seq(Rows), DOMAIN rows' = DOMAIN rows,
         \A r \in DOMAIN rows : rows'[r].kind = rows[r].kind /\ rows'[r].path = rows[r].path,
         \A r : r \in ToSet(visible') <=>
            \E k \in DOMAIN cache : cache[k].row = r /\ cache[k].action \in filters'
  PROVE  ToSet(visible') = Asked'
<1>1. \A r : r \in Asked <=> \E k \in DOMAIN cache : cache[k].row = r
  <2>1. \A r : r \in ToSet(visible) <=> \E k \in DOMAIN cache : cache[k].row = r
    BY DEF Inv, CacheInv, ToSet
  <2> QED  BY <2>1 DEF Inv, AskedInv
<1>2. \A k \in DOMAIN cache : cache[k].action \in filters  BY DEF Inv, AskedInv
<1>3. \A r \in DOMAIN rows : Action(rows'[r], under) = Action(rows[r], under)  BY SameAction
<1>4. \A r : r \in Asked' <=> r \in Asked  BY <1>3 DEF Asked
<1> QED  BY <1>1, <1>2, <1>4

\* Rows of which only checkboxes change.
LEMMA Painted ==
  ASSUME NEW row \in Rows, NEW on \in BOOLEAN
  PROVE  [row EXCEPT !.selected = on] \in Rows
BY DEF Rows

LEMMA Repainted ==
  ASSUME rows \in Seq(Rows), NEW on, NEW P,
         \A k \in DOMAIN rows : [rows[k] EXCEPT !.selected = on] \in Rows,
         NEW new, new = [k \in DOMAIN rows |->
                   IF k \in P THEN [rows[k] EXCEPT !.selected = on] ELSE rows[k]]
  PROVE  /\ new \in Seq(Rows) /\ DOMAIN new = DOMAIN rows /\ Len(new) = Len(rows)
         /\ \A k \in DOMAIN rows : new[k].kind = rows[k].kind /\ new[k].path = rows[k].path
<1>1. /\ DOMAIN rows = 1..Len(rows) /\ Len(rows) \in Nat
      /\ \A k \in DOMAIN rows : rows[k] \in Rows
  OBVIOUS
<1>2. \A k \in 1..Len(rows) : new[k] \in Rows  BY <1>1
<1>3. new \in [1..Len(rows) -> Rows]  BY <1>1, <1>2
<1>4. \A k \in DOMAIN rows : new[k].kind = rows[k].kind /\ new[k].path = rows[k].path
  BY <1>1 DEF Rows
<1> QED  BY <1>1, <1>3, <1>4

LEMMA MarkedIs ==
  ASSUME rows \in Seq(Rows), NEW S, NEW on \in BOOLEAN
  PROVE  /\ Marked(S, on) \in Seq(Rows) /\ DOMAIN Marked(S, on) = DOMAIN rows
         /\ Len(Marked(S, on)) = Len(rows)
         /\ \A k \in DOMAIN rows : /\ Marked(S, on)[k].kind = rows[k].kind
                                   /\ Marked(S, on)[k].path = rows[k].path
<1>1. \A k \in DOMAIN rows : rows[k] \in Rows  OBVIOUS
<1>2. \A k \in DOMAIN rows : [rows[k] EXCEPT !.selected = on] \in Rows  BY <1>1, Painted
<1> QED  BY <1>2, Repainted DEF Marked

\* Nothing changes but checkboxes.
LEMMA InvSameKinds ==
  ASSUME Inv, TypeInv', cache' = cache, capacity' = capacity, visible' = visible,
         reported' = reported, idle' = idle, under' = under, active' = active, timer' = timer,
         filters' = filters, query' = query, sort_col' = sort_col,
         rows' \in Seq(Rows), DOMAIN rows' = DOMAIN rows, Len(rows') = Len(rows),
         \A r \in DOMAIN rows : rows'[r].kind = rows[r].kind /\ rows'[r].path = rows[r].path
  PROVE  Inv'
<1>1. \A r \in DOMAIN rows : Action(rows'[r], under) = Action(rows[r], under)  BY SameAction
<1>2. CacheInv'  BY <1>1 DEF Inv, CacheInv
<1>3. WorkInv' /\ ToldInv'  BY DEF Inv, WorkInv, ToldInv
<1>4. Asked' = Asked  BY <1>1 DEF Asked
<1>5. AskedInv'  BY <1>4 DEF Inv, AskedInv
<1>6. ShownInOrder'
  <2>1. \A k \in DOMAIN visible : visible[k] \in DOMAIN rows  BY DEF Inv, CacheInv
  <2> QED  BY <2>1 DEF Inv, ShownInOrder, Earlier
<1> QED  BY <1>2, <1>3, <1>5, <1>6 DEF Inv

LEMMA InvSort ==
  ASSUME Inv, NEW col \in Columns, Sort(col)
  PROVE  Inv'
<1>1. /\ active = "no" /\ active' = "no" /\ rows' = rows /\ rows # <<>> /\ timer' = timer
      /\ query' = query /\ filters' = filters /\ delete_after' = delete_after
      /\ moves' = moves + 1 /\ sort_col' = col
  BY DEF Sort, UserMay
<1>2. /\ rows' \in Seq(Rows) /\ delete_after' \in BOOLEAN /\ filters' \subseteq Actions
      /\ sort_col' \in Columns /\ moves' \in Nat /\ timer' \in BOOLEAN
  BY <1>1 DEF Inv, TypeInv
<1>3. PassUnder("sort", delete_after')  BY DEF Sort, Pass
<1>4. PassOver("sort", delete_after')  BY <1>1, <1>3, NotFirst
<1>5. /\ AfterPass /\ under' = under
      /\ \A r : r \in ToSet(visible') <=>
             \E k \in DOMAIN cache : cache[k].row = r /\ Keeps("sort", cache[k])
  BY <1>1, <1>2, <1>4, CachedPass
<1>6. ~timer => ToSet(visible') = Asked'
  <2>1. \A k \in DOMAIN cache : Keeps("sort", cache[k]) <=> cache[k].action \in filters'
    BY DEF Keeps
  <2>2. \A r : r \in ToSet(visible') <=>
           \E k \in DOMAIN cache : cache[k].row = r /\ cache[k].action \in filters'
    BY <1>5, <2>1
  <2> QED  BY <1>1, <1>2, <1>5, <2>2, SameShown
<1> QED  BY <1>1, <1>2, <1>5, <1>6, InvAfterPass

LEMMA InvToggle ==
  ASSUME Inv, NEW i \in DOMAIN visible, Toggle(i)
  PROVE  Inv'
<1> DEFINE r == visible[i]
           on == ~rows[r].selected
<1>1. /\ active = "no" /\ active' = "no" /\ timer' = timer /\ UNCHANGED options
      /\ moves' = moves + 1 /\ rows' = Toggled(r) /\ cache' = cache /\ capacity' = capacity
      /\ visible' = visible /\ reported' = reported /\ idle' = idle /\ under' = under
      /\ trapped' = trapped /\ label' = CountSelected(Fresh(delete_after))
  BY DEF Toggle, UserMay
<1>2. /\ rows' \in Seq(Rows) /\ Len(rows') = Len(rows)
      /\ \A k \in DOMAIN rows : rows'[k].kind = rows[k].kind /\ rows'[k].path = rows[k].path
  <2>1. on \in BOOLEAN  OBVIOUS
  <2>2. \A k \in DOMAIN rows : rows[k] \in Rows /\ [rows[k] EXCEPT !.selected = on] \in Rows
    <3>1. \A k \in DOMAIN rows : rows[k] \in Rows  BY DEF Inv, TypeInv
    <3> HIDE DEF on
    <3> QED  BY <2>1, <3>1, Painted
  <2> DEFINE other(q) == Below(q, rows[r].path) \/ (~on /\ Below(rows[r].path, q))
  <2>3. rows' = [k \in DOMAIN rows |->
                   IF k = r \/ other(rows[k].path) THEN [rows[k] EXCEPT !.selected = on] ELSE rows[k]]
    BY <1>1 DEF Toggled
  <2> DEFINE P == {k \in DOMAIN rows : k = r \/ other(rows[k].path)}
  <2>4. rows' = [k \in DOMAIN rows |->
                   IF k \in P THEN [rows[k] EXCEPT !.selected = on] ELSE rows[k]]
    BY <2>3
  <2>5. rows \in Seq(Rows)  BY DEF Inv, TypeInv
  <2> HIDE DEF on, other, r, P
  <2> QED  BY <2>2, <2>4, <2>5, Repainted
<1>3. label' \in Nat
  <2>1. DOMAIN Fresh(delete_after) = 1..Len(rows') /\ Len(rows') \in Nat  BY <1>2 DEF Fresh
  <2> DEFINE D == DOMAIN Fresh(delete_after)
             sel == {k \in D : rows'[Fresh(delete_after)[k].row].selected}
  <2>2. IsFiniteSet(D)  BY <2>1, FS_Interval
  <2>3. Cardinality(sel) \in Nat  BY <2>2, FS_Subset, FS_CardinalityType
  <2> QED  BY <1>1, <2>3 DEF CountSelected
<1>4. TypeInv'  BY <1>1, <1>2, <1>3 DEF Inv, TypeInv
<1>5. DOMAIN rows' = DOMAIN rows  BY <1>2 DEF Inv, TypeInv
<1> QED  BY <1>1, <1>2, <1>4, <1>5, InvSameKinds

LEMMA InvUnselectAll ==
  ASSUME Inv, UnselectAll
  PROVE  Inv'
<1>1. /\ active = "no" /\ active' = "no" /\ timer' = timer /\ UNCHANGED options
      /\ moves' = moves + 1 /\ rows' = Marked(DOMAIN rows, FALSE)
  BY DEF UnselectAll, UserMay
<1>2. rows' \in Seq(Rows)  BY <1>1, MarkedIs DEF Inv, TypeInv
<1>3. /\ delete_after' \in BOOLEAN /\ filters' \subseteq Actions
      /\ sort_col' \in Columns /\ moves' \in Nat /\ timer' \in BOOLEAN
  BY <1>1 DEF Inv, TypeInv
<1>4. PassUnder("complete", delete_after')  BY DEF UnselectAll, Pass
<1>5. AfterPass /\ ToSet(visible') = Asked'  BY <1>2, <1>3, <1>4, CompletePass DEF Inv
<1> QED  BY <1>1, <1>2, <1>3, <1>5, InvAfterPass

LEMMA InvSelectVisible ==
  ASSUME Inv, SelectVisible
  PROVE  Inv'
<1>1. /\ active = "no" /\ active' = "no" /\ timer' = timer /\ UNCHANGED options
      /\ moves' = moves + 1 /\ rows' = Marked(ToSet(visible), TRUE)
  BY DEF SelectVisible, UserMay
<1>2. /\ rows' \in Seq(Rows) /\ DOMAIN rows' = DOMAIN rows /\ Len(rows') = Len(rows)
      /\ \A k \in DOMAIN rows : rows'[k].kind = rows[k].kind /\ rows'[k].path = rows[k].path
  BY <1>1, MarkedIs DEF Inv, TypeInv
<1>3. /\ delete_after' \in BOOLEAN /\ filters' \subseteq Actions
      /\ sort_col' \in Columns /\ moves' \in Nat /\ timer' \in BOOLEAN
  BY <1>1 DEF Inv, TypeInv
<1>4. PassUnder("select", delete_after')  BY DEF SelectVisible, Pass
<1>5. CASE trapped' = TRUE /\ UNCHANGED shown
  <2>1. TypeInv'  BY <1>1, <1>2, <1>3, <1>5 DEF Inv, TypeInv
  <2> QED  BY <1>1, <1>2, <1>5, <2>1, InvSameKinds
<1>6. CASE PassOver("select", delete_after')
  <2>1. /\ AfterPass /\ under' = under
        /\ \A r : r \in ToSet(visible') <=>
               \E k \in DOMAIN cache : cache[k].row = r /\ Keeps("select", cache[k])
    BY <1>1, <1>2, <1>3, <1>6, CachedPass
  <2>2. ~timer => ToSet(visible') = Asked'
    <3>1. \A k \in DOMAIN cache : Keeps("select", cache[k]) <=> cache[k].action \in filters'
      BY DEF Keeps
    <3>2. \A r : r \in ToSet(visible') <=>
             \E k \in DOMAIN cache : cache[k].row = r /\ cache[k].action \in filters'
      BY <2>1, <3>1
    <3> QED  BY <1>1, <1>2, <2>1, <3>2, SameShown
  <2> QED  BY <1>1, <1>2, <1>3, <2>1, <2>2, InvAfterPass
<1> QED  BY <1>4, <1>5, <1>6 DEF PassUnder

LEMMA InvToggleDeleteAfter ==
  ASSUME Inv, ToggleDeleteAfter
  PROVE  Inv'
<1>1. /\ UNCHANGED <<rows, filters, query, sort_col, timer, view, active>>
      /\ moves' = moves + 1 /\ delete_after' = ~delete_after
  BY DEF ToggleDeleteAfter, UserMay
<1>2. delete_after' \in BOOLEAN  BY <1>1, Zenon
<1>3. TypeInv'  BY <1>1, <1>2 DEF Inv, TypeInv
<1>4. rows \in Seq(Rows)  BY DEF Inv, TypeInv
<1> QED  BY <1>1, <1>3, <1>4, InvSameKinds

LEMMA InvRename ==
  ASSUME Inv, NEW i \in DOMAIN visible, NEW p \in Paths, Rename(i, p)
  PROVE  Inv'
<1> DEFINE r == visible[i]
<1>1. /\ active = "no" /\ active' = "no" /\ timer' = timer /\ UNCHANGED options
      /\ moves' = moves + 1 /\ rows' \in Renamed(r, p)
  BY DEF Rename, UserMay
<1>2. r \in DOMAIN rows  BY DEF Inv, CacheInv
<1>3. rows' \in Seq(Rows)
  <2>1. /\ rows \in Seq(Rows) /\ rows[r] \in Rows /\ rows[r].path \in Paths
        /\ DOMAIN rows = 1..Len(rows)
    <3> HIDE DEF r
    <3>1. rows \in Seq(Rows)  BY DEF Inv, TypeInv
    <3>2. rows[r] \in Rows  BY <1>2, <3>1
    <3> QED  BY <3>1, <3>2 DEF Rows
  <2>2. CASE rows[r].kind # "equal"
    <3>1. [rows[r] EXCEPT !.path = p] \in Rows  BY <2>1 DEF Rows
    <3>2. rows' = [rows EXCEPT ![r] = [rows[r] EXCEPT !.path = p]]
      BY <1>1, <2>2 DEF Renamed
    <3> HIDE DEF r
    <3> QED  BY <1>2, <2>1, <3>1, <3>2
  <2>3. CASE rows[r].kind = "equal"
    <3>1. PICK k \in {<<"new", "extra">>, <<"extra", "new">>} :
             rows' = Append([rows EXCEPT ![r] = [@ EXCEPT !.path = p, !.kind = k[1]]],
                            [path |-> rows[r].path, kind |-> k[2], selected |-> FALSE])
      BY <1>1, <2>3 DEF Renamed
    <3>2. k[1] \in Kinds /\ k[2] \in Kinds  BY DEF Kinds
    <3>3. [rows[r] EXCEPT !.path = p, !.kind = k[1]] \in Rows  BY <2>1, <3>2 DEF Rows
    <3>4. [path |-> rows[r].path, kind |-> k[2], selected |-> FALSE] \in Rows
      BY <2>1, <3>2 DEF Rows
    <3> DEFINE new == [rows EXCEPT ![r] = [rows[r] EXCEPT !.path = p, !.kind = k[1]]]
    <3>5. rows' = Append(new, [path |-> rows[r].path, kind |-> k[2], selected |-> FALSE])
      BY <3>1
    <3>6. new \in Seq(Rows)
      <4> HIDE DEF r
      <4> QED  BY <1>2, <2>1, <3>3
    <3> HIDE DEF new, r
    <3> QED  BY <3>4, <3>5, <3>6
  <2> QED  BY <2>2, <2>3
<1>4. /\ delete_after' \in BOOLEAN /\ filters' \subseteq Actions
      /\ sort_col' \in Columns /\ moves' \in Nat /\ timer' \in BOOLEAN
  BY <1>1 DEF Inv, TypeInv
<1>5. PassUnder("complete", delete_after')  BY DEF Rename, Pass
<1>6. AfterPass /\ ToSet(visible') = Asked'  BY <1>3, <1>4, <1>5, CompletePass DEF Inv
<1> QED  BY <1>1, <1>3, <1>4, <1>6, InvAfterPass

LEMMA InvReset ==
  ASSUME Inv, Reset
  PROVE  Inv'
<1>1. /\ rows' = rows /\ query' = query /\ sort_col' = sort_col /\ timer' = timer
      /\ active' = active /\ moves' = moves + 1
      /\ filters' = DefaultFilters /\ delete_after' = FALSE
  BY DEF Reset
<1>2. /\ rows' \in Seq(Rows) /\ delete_after' \in BOOLEAN /\ filters' \subseteq Actions
      /\ sort_col' \in Columns /\ moves' \in Nat /\ timer' \in BOOLEAN
  <2>1. filters' \subseteq Actions  BY <1>1 DEF DefaultFilters, Actions
  <2>2. delete_after' \in BOOLEAN  BY <1>1
  <2> QED  BY <1>1, <2>1, <2>2 DEF Inv, TypeInv
<1>3. delete_after \in BOOLEAN  BY DEF Inv, TypeInv
<1>4. CASE active # "no" \/ filters = DefaultFilters
  <2>1. UNCHANGED view  BY <1>4 DEF Reset
  <2>2. TypeInv'  BY <1>1, <1>2, <2>1 DEF Inv, TypeInv
  <2>3. CacheInv' /\ WorkInv' /\ ToldInv'
    BY <1>1, <2>1 DEF Inv, CacheInv, WorkInv, ToldInv
  <2>4. ShownInOrder'  BY <1>1, <2>1 DEF Inv, ShownInOrder, Earlier
  <2>5. AskedInv'  BY <1>1, <1>4, <2>1 DEF Inv, AskedInv, Asked
  <2> QED  BY <2>2, <2>3, <2>4, <2>5 DEF Inv
<1>5. CASE active = "no" /\ rows = <<>>
  <2>1. UNCHANGED <<rows, view>>  BY <1>1, <1>5 DEF Reset
  <2> QED  BY <1>1, <1>2, <1>5, <2>1, InvNoRows
<1>6. CASE active = "no" /\ rows # <<>> /\ filters # DefaultFilters
  <2>1. PassUnder(ResetChange, delete_after)  BY <1>6 DEF Reset
  <2>2. CASE DefaultFilters \ filters # {}
    <3>1. PassUnder("complete", delete_after)  BY <2>1, <2>2 DEF ResetChange
    <3>2. AfterPass /\ ToSet(visible') = Asked'  BY <1>2, <1>3, <3>1, CompletePass DEF Inv
    <3> QED  BY <1>1, <1>2, <1>6, <3>2, InvAfterPass
  <2>3. CASE DefaultFilters \ filters = {}
    <3>1. PassUnder("filter_out", delete_after)  BY <2>1, <2>3 DEF ResetChange
    <3>2. PassOver("filter_out", delete_after)  BY <1>6, <3>1, NotFirst
    <3>3. /\ AfterPass /\ under' = under
          /\ \A r : r \in ToSet(visible') <=>
                 \E k \in DOMAIN cache : cache[k].row = r /\ Keeps("filter_out", cache[k])
      BY <1>1, <1>2, <1>3, <3>2, CachedPass
    <3>4. filters' \subseteq filters  BY <1>1, <2>3
    <3>5. ~timer => ToSet(visible') = Asked'
      BY <1>1, <1>6, <3>3, <3>4, FilteredOut
    <3> QED  BY <1>1, <1>2, <1>6, <3>3, <3>5, InvAfterPass
  <2> QED  BY <2>2, <2>3
<1> QED  BY <1>4, <1>5, <1>6

LEMMA InvStartAnalysis ==
  ASSUME Inv, StartAnalysis
  PROVE  Inv'
<1>1. /\ active' = "analysis" /\ timer' = FALSE /\ moves' = moves + 1
      /\ rows' = <<>> /\ visible' = <<>> /\ cache' = <<>> /\ reported' = 0
      /\ idle' = (visible' # <<>>) /\ UNCHANGED <<options, capacity, label, under, trapped>>
  BY DEF StartAnalysis, UserMay, ListModelUpdate
<1>2. idle' \in BOOLEAN  BY <1>1, Zenon
<1>3. TypeInv'
  <2>1. rows' \in Seq(Rows) /\ cache' \in Seq(Entries)  BY <1>1
  <2>2. timer' \in BOOLEAN /\ active' \in {"no", "analysis", "transfer"}  BY <1>1
  <2>3. reported' \in Nat /\ moves' \in Nat  BY <1>1 DEF Inv, TypeInv
  <2> QED  BY <1>1, <1>2, <2>1, <2>2, <2>3 DEF Inv, TypeInv
<1>4. CacheInv' /\ WorkInv' /\ ShownInOrder' /\ ToldInv' /\ AskedInv'
  BY <1>1 DEF CacheInv, WorkInv, ShownInOrder, ToldInv, AskedInv
<1> QED  BY <1>3, <1>4 DEF Inv

LEMMA InvAddRow ==
  ASSUME Inv, NEW f \in Found, AddRow(f)
  PROVE  Inv'
<1>1. /\ active = "analysis" /\ UNCHANGED <<options, timer, view, active, moves>>
      /\ rows' = Append(rows, [path |-> f.path, kind |-> f.kind, selected |-> FALSE])
  BY DEF AddRow
<1>2. [path |-> f.path, kind |-> f.kind, selected |-> FALSE] \in Rows
  BY ListAssumption DEF Rows
<1>3. TypeInv'  BY <1>1, <1>2 DEF Inv, TypeInv
<1>4. cache = <<>> /\ visible = <<>>  BY <1>1 DEF Inv, WorkInv, CacheInv
<1>5. cache' = <<>> /\ visible' = <<>> /\ active' = "analysis"  BY <1>1, <1>4
<1>6. CacheInv' /\ ShownInOrder' /\ AskedInv'
  BY <1>5 DEF CacheInv, ShownInOrder, AskedInv
<1>7. WorkInv' /\ ToldInv'  BY <1>1 DEF Inv, WorkInv, ToldInv
<1> QED  BY <1>3, <1>6, <1>7 DEF Inv

LEMMA InvStartTransfer ==
  ASSUME Inv, StartTransfer
  PROVE  Inv'
<1>1. /\ active = "no" /\ active' = "transfer" /\ timer' = FALSE /\ moves' = moves + 1
      /\ UNCHANGED <<rows, options, view>>
  BY DEF StartTransfer, UserMay
<1>2. TypeInv'
  <2>1. timer' \in BOOLEAN /\ active' \in {"no", "analysis", "transfer"}  BY <1>1
  <2>2. moves' \in Nat  BY <1>1 DEF Inv, TypeInv
  <2> QED  BY <1>1, <2>1, <2>2 DEF Inv, TypeInv
<1>3. CacheInv' /\ WorkInv' /\ ToldInv' /\ AskedInv'
  BY <1>1 DEF Inv, CacheInv, WorkInv, ToldInv, AskedInv
<1>4. ShownInOrder'  BY <1>1 DEF Inv, ShownInOrder, Earlier
<1> QED  BY <1>2, <1>3, <1>4 DEF Inv

LEMMA InvHandleRow ==
  ASSUME Inv, NEW r \in DOMAIN rows, HandleRow(r)
  PROVE  Inv'
<1>1. /\ active = "transfer" /\ UNCHANGED <<options, timer, active, moves>>
      /\ rows' \in Removed(r) \union Transferred(r)
  BY DEF HandleRow
<1>2. rows' \in Seq(Rows)
  <2>1. rows \in Seq(Rows) /\ rows[r] \in Rows /\ Len(rows) \in Nat /\ r \in 1..Len(rows)
    BY DEF Inv, TypeInv
  <2>2. CASE rows' = RemoveAt(rows, r)
    <3>1. SubSeq(rows, 1, r - 1) \in Seq(Rows) /\ SubSeq(rows, r + 1, Len(rows)) \in Seq(Rows)
      BY <2>1
    <3> QED  BY <2>2, <3>1 DEF RemoveAt
  <2>3. ASSUME NEW k \in Kinds, rows' = [rows EXCEPT ![r].kind = k]
        PROVE  rows' \in Seq(Rows)
    <3>1. [rows[r] EXCEPT !.kind = k] \in Rows  BY <2>1 DEF Rows
    <3>2. rows' = [rows EXCEPT ![r] = [rows[r] EXCEPT !.kind = k]]  BY <2>3
    <3> QED  BY <2>1, <3>1, <3>2
  <2>4. \/ rows' = RemoveAt(rows, r)
        \/ \E k \in Kinds : rows' = [rows EXCEPT ![r].kind = k]
    BY <1>1 DEF Removed, Transferred, Kinds
  <2> QED  BY <2>2, <2>3, <2>4
<1>3. /\ delete_after' \in BOOLEAN /\ filters' \subseteq Actions
      /\ sort_col' \in Columns /\ moves' \in Nat /\ timer' \in BOOLEAN
  BY <1>1 DEF Inv, TypeInv
<1>4. PassUnder("complete", delete_after')  BY DEF HandleRow, Pass
<1>5. AfterPass  BY <1>2, <1>3, <1>4, CompletePass DEF Inv
<1>6. ~timer'  BY <1>1 DEF Inv, WorkInv
<1> QED  BY <1>1, <1>2, <1>3, <1>5, <1>6, InvAfterPass

LEMMA InvHandleFinished ==
  ASSUME Inv, HandleFinished
  PROVE  Inv'
<1>1. /\ active' = "no" /\ UNCHANGED <<rows, options, timer, moves>>
  BY DEF HandleFinished
<1>2. /\ rows' \in Seq(Rows) /\ delete_after' \in BOOLEAN /\ filters' \subseteq Actions
      /\ sort_col' \in Columns /\ moves' \in Nat /\ timer' \in BOOLEAN
  BY <1>1 DEF Inv, TypeInv
<1>3. PassUnder("complete", delete_after')  BY DEF HandleFinished, Pass
<1>4. AfterPass /\ ToSet(visible') = Asked'  BY <1>2, <1>3, CompletePass DEF Inv
<1> QED  BY <1>1, <1>2, <1>4, InvAfterPass

LEMMA InvUpdateChunk ==
  ASSUME Inv, UpdateChunk
  PROVE  Inv'
<1>1. /\ reported' = Min({reported + Chunk, Len(visible)})
      /\ idle' = (reported < Len(visible))
      /\ UNCHANGED <<rows, options, timer, cache, capacity, visible, label, under, active, trapped>>
      /\ moves' = moves
  BY DEF UpdateChunk
<1>2. reported \in Nat /\ Len(visible) \in Nat /\ reported <= Len(visible)
  BY DEF Inv, TypeInv, CacheInv, ToldInv
<1>3. reported' \in Nat /\ reported <= reported' /\ reported' <= Len(visible)
  BY <1>1, <1>2, ListAssumption DEF Min
<1>4. idle' \in BOOLEAN
  <2> DEFINE behind == reported < Len(visible)
  <2>1. behind \in BOOLEAN  BY <1>2
  <2>2. idle' = behind  BY <1>1
  <2> HIDE DEF behind
  <2> QED  BY <2>1, <2>2
<1>5. TypeInv'  BY <1>1, <1>3, <1>4 DEF Inv, TypeInv
<1>6. CacheInv' /\ WorkInv' /\ AskedInv'
  BY <1>1 DEF Inv, CacheInv, WorkInv, AskedInv, Asked
<1>7. ShownInOrder'  BY <1>1 DEF Inv, ShownInOrder, Earlier
<1>8. ToldInv'
  <2>1. reported' < Len(visible) => reported < Len(visible)  BY <1>2, <1>3
  <2>2. reported' < Len(visible) => idle'  BY <1>1, <2>1, Zenon
  <2> QED  BY <1>1, <1>3, <2>2 DEF ToldInv
<1> QED  BY <1>5, <1>6, <1>7, <1>8 DEF Inv

LEMMA InvNext == Inv /\ [Next]_vars => Inv'
<1> SUFFICES ASSUME Inv, [Next]_vars PROVE Inv'  OBVIOUS
<1>1. CASE UNCHANGED vars
  <2>1. /\ UNCHANGED <<rows, delete_after, filters, query, sort_col, timer, cache, capacity>>
        /\ UNCHANGED <<visible, reported, idle, label, under, active, trapped, moves>>
    BY <1>1 DEF vars
  <2>2. TypeInv'  BY <2>1 DEF Inv, TypeInv
  <2>3. rows \in Seq(Rows)  BY DEF Inv, TypeInv
  <2> QED  BY <2>1, <2>2, <2>3, InvSameKinds
<1>2. CASE User
  BY <1>2, InvSearch, InvToggleFilter, InvSort, InvToggle, InvUnselectAll, InvSelectVisible,
     InvToggleDeleteAfter, InvRename, InvReset, InvStartAnalysis, InvStartTransfer DEF User
<1>3. CASE SearchTimeout  BY <1>3, InvSearchTimeout
<1>4. CASE UpdateChunk  BY <1>4, InvUpdateChunk
<1>5. CASE \E f \in Found : AddRow(f)  BY <1>5, InvAddRow
<1>6. CASE \E r \in DOMAIN rows : HandleRow(r)  BY <1>6, InvHandleRow
<1>7. CASE HandleFinished  BY <1>7, InvHandleFinished
<1> QED  BY <1>1, <1>2, <1>3, <1>4, <1>5, <1>6, <1>7 DEF Next

LEMMA InvAlways == Spec => []Inv
<1>1. Init => Inv  BY InvInit
<1>2. Inv /\ [Next]_vars => Inv'  BY InvNext
<1> QED  BY <1>1, <1>2, PTL DEF Spec

-----------------------------------------------------------------------------
(* The theorems.                                                           *)

(* The arrays that GTK and the row menu are answered from are about the    *)
(* rows there are, each once, and what GTK has not been told yet a         *)
(* callback will tell (update_list_from_rows, list_model.c), whatever the  *)
(* user, the work thread and the timer do.                                 *)
THEOREM ViewConsistentAlways == Spec => []ViewConsistent
<1>1. Inv => ViewConsistent
  <2> SUFFICES ASSUME Inv PROVE ViewConsistent  OBVIOUS
  <2>1. visible = [i \in DOMAIN cache |-> cache[i].row]  BY DEF Inv, CacheInv
  <2>2. DOMAIN visible = 1..Len(cache) /\ Len(cache) \in Nat  BY <2>1 DEF Inv, TypeInv
  <2>3. ToSet(visible) \subseteq DOMAIN rows  BY <2>1 DEF Inv, CacheInv, ToSet
  <2>4. IsInjective(visible)  BY <2>1 DEF Inv, CacheInv, IsInjective
  <2>5. Len(visible) \in Nat  BY <2>2
  <2> QED  BY <2>1, <2>3, <2>4, <2>5 DEF ViewConsistent, Inv, TypeInv, ToldInv
<1>2. Spec => []Inv  BY InvAlways
<1> QED  BY <1>1, <1>2, PTL

(* Whenever no thread works and no search is about to take effect, the     *)
(* rows on show are those that the filters and the query ask for.          *)
THEOREM ShownIsAskedAlways == Spec => []ShownIsAsked
<1>1. Inv => ShownIsAsked  BY DEF Inv, AskedInv, ShownIsAsked
<1>2. Spec => []Inv  BY InvAlways
<1> QED  BY <1>1, <1>2, PTL

(* The rows on show are always in the order of the column that was clicked *)
(* last, although no pass but SELECT keeps the order of the cache.         *)
THEOREM ShownInOrderAlways == Spec => []ShownInOrder
<1>1. Inv => ShownInOrder  BY DEF Inv
<1>2. Spec => []Inv  BY InvAlways
<1> QED  BY <1>1, <1>2, PTL
=============================================================================
