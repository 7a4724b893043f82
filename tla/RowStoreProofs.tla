---------------------------- MODULE RowStoreProofs ----------------------------
(***************************************************************************)
(* Proofs about RowStore: after every message the rows, the listings and   *)
(* the maps are one table by path, and at rest the rows are what the disks *)
(* hold, for all trees that were read to the end, and the groups of hard   *)
(* links of the source are those of its disk; and RowStore implements      *)
(* RowTable. All of it until a rename goes untold: then nothing is said.    *)
(*                                                                         *)
(* Sound is about the arrays alone. What a renamed entry needs, that its   *)
(* new name is free when the message is handled, and that no row is left   *)
(* behind, is about the messages still to come: FreeAt and HeldAt say what *)
(* the map will hold after the first n of them.                            *)
(***************************************************************************)
EXTENDS RowStore, FiniteSetTheorems, TLAPS

\* The analysis read every directory.
ReadAll == \A s \in Side : Unread[s] = {}

-----------------------------------------------------------------------------
(* The arrays                                                              *)

Ino == Inodes \cup {0}
Entries == [path : Paths, ino : Ino, linked : BOOLEAN, ignored : BOOLEAN, row : Nat]
RowsType == [L : Nat, R : Nat, selected : BOOLEAN]

ArraysOK(lst, mp, rws) ==
    /\ lst \in [Side -> Seq(Entries)]
    /\ mp \in [Side -> [Paths -> Nat]]
    /\ rws \in Seq(RowsType)

\* What a row shows is an entry that names the row.
RowsPoint(lst, rws, dead) ==
    \A r \in (1..Len(rws)) \ dead, s \in Side :
        rws[r][s] # 0 => rws[r][s] \in 1..Len(lst[s]) /\ lst[s][rws[r][s]].row = r

\* An entry with a row is shown by it and is in the map.
EntriesPoint(lst, mp, rws, dead) ==
    \A s \in Side : \A i \in 1..Len(lst[s]) :
        lst[s][i].row # 0 =>
            /\ lst[s][i].row \in (1..Len(rws)) \ dead
            /\ rws[lst[s][i].row][s] = i
            /\ mp[s][lst[s][i].path] = i

\* What is in the map is an entry of that path with a row.
MapPoints(lst, mp) ==
    \A s \in Side, p \in Paths :
        mp[s][p] # 0 => /\ mp[s][p] \in 1..Len(lst[s])
                        /\ lst[s][mp[s][p]].path = p
                        /\ lst[s][mp[s][p]].row # 0

NoEmptyRow(rws, dead) ==
    \A r \in (1..Len(rws)) \ dead : rws[r]["L"] # 0 \/ rws[r]["R"] # 0

\* One path for a row, and one row for a path.
OneRowPerPath(lst, rws, dead) ==
    \A r, x \in (1..Len(rws)) \ dead, s, t \in Side :
        rws[r][s] # 0 /\ rws[x][t] # 0 =>
            (r = x <=> lst[s][rws[r][s]].path = lst[t][rws[x][t]].path)

\* The arrays are consistent but for the rows in dead, which are about to be dropped.
Sound(lst, mp, rws, dead) ==
    /\ ArraysOK(lst, mp, rws)
    /\ RowsPoint(lst, rws, dead)
    /\ EntriesPoint(lst, mp, rws, dead)
    /\ MapPoints(lst, mp)
    /\ NoEmptyRow(rws, dead)
    /\ OneRowPerPath(lst, rws, dead)

TablesSound == Sound(list, map, rows, {})

-----------------------------------------------------------------------------
(* The disks and the messages                                              *)

DiskOK ==
    /\ disk = [s \in Side |-> disk[s]]
    /\ \A s \in Side :
          /\ DOMAIN disk[s] \subseteq Paths
          /\ \A p \in DOMAIN disk[s] : disk[s][p] \in Ino
          /\ \A p \in DOMAIN disk[s] : \A n \in 1..Len(p) : SubSeq(p, 1, n) \in DOMAIN disk[s]

RowMessages == {"remove", "transfer", "rename"}
Messages ==
    [type : {"ignore", "finished"}, side : Side, path : {<<>>}, to : {<<>>}, more : BOOLEAN]
    \cup [type : RowMessages, side : Side, path : Paths, to : Paths, more : BOOLEAN]

Phases == {"idle", "delete", "copy", "report", "flush", "ended"}
CopiesLeft == Tasks("copy") # {} \/ again # {} \/ done # {}

ThreadOK ==
    /\ queue \in Seq(Messages) /\ batch \in Seq(Messages)
    /\ work \in Phases /\ side \in Side
    /\ \A t \in Tasks("delete") : t.path \in Paths
    /\ done \subseteq DOMAIN disk["R"]
    /\ backend # "rsync" => done = {}
    /\ work \in {"idle", "ended", "delete"} => done = {}
    /\ work \in {"idle", "ended"} => batch = <<>>

\* A batch is of one type, and of the one side that its messages are meant for.
BatchOK ==
    /\ \A k, l \in 1..Len(batch) : batch[k].type = batch[l].type
    /\ work = "delete" => \A k \in 1..Len(batch) : batch[k].type = "remove" /\ batch[k].side = side
    /\ CopiesLeft /\ side = "L" =>
          Tasks("delete") = {} /\ (work = "delete" => batch = <<>>)
    /\ CopiesLeft /\ work \in {"copy", "report"} => \A k \in 1..Len(batch) : batch[k].side = "R"

\* Message m takes x out of the map of s; it may put it in.
Vacates(m, s, x) == m.type \in {"remove", "rename"} /\ m.side = s /\ m.path = x
Fills(m, s, x) ==
    \/ m.type = "rename" /\ m.side = s /\ m.to = x
    \/ m.type = "transfer" /\ s = "R" /\ m.path = x

\* After the first n messages of q the map of s cannot hold x.
FreeAt(mp, q, n, s, x) ==
    /\ mp[s][x] = 0 \/ \E j \in 1..n : Vacates(q[j], s, x)
    /\ \A j \in 1..n : Fills(q[j], s, x) => \E k \in (j + 1)..n : Vacates(q[k], s, x)

\* A new name is free when its message is handled; what is gone will be out of the map.
NamesFree(mp, q) ==
    \A k \in 1..Len(q) : q[k].type = "rename" =>
        q[k].path # q[k].to /\ FreeAt(mp, q, k - 1, q[k].side, q[k].to)
GoneFree(mp, q, dk) ==
    \A s \in Side : \A x \in Paths \ DOMAIN dk[s] : FreeAt(mp, q, Len(q), s, x)

Posted == queue \o batch
MessagesOK == NamesFree(map, Posted) /\ GoneFree(map, Posted, disk)

\* The verdict is the last message; no transfer is pending without a work.
VerdictLast ==
    /\ \A k \in 1..Len(Posted) : Posted[k].type = "finished" => k = Len(Posted) /\ work = "ended"
    /\ work = "idle" => \A k \in 1..Len(queue) : queue[k].type # "transfer"

Inv == TablesSound /\ DiskOK /\ ThreadOK /\ BatchOK /\ VerdictLast /\ MessagesOK

-----------------------------------------------------------------------------
(* Nothing is left behind                                                  *)

\* After the first n messages of q the map of s holds x.
HeldAt(mp, q, n, s, x) ==
    \/ mp[s][x] # 0 /\ \A j \in 1..n : ~Vacates(q[j], s, x)
    \/ \E j \in 1..n : Fills(q[j], s, x) /\ \A k \in (j + 1)..n : ~Vacates(q[k], s, x)

\* A message that is to put a file in will find the row it needs.
FindsRow(mp, q) ==
    \A k \in 1..Len(q) :
        /\ q[k].type = "rename" =>
              /\ q[k].path \in Dirs <=> q[k].to \in Dirs
              /\ q[k].path \notin Dirs => HeldAt(mp, q, k - 1, q[k].side, q[k].path)
              /\ \A j \in 1..k : q[j].type # "transfer"
        /\ q[k].type = "transfer" /\ q[k].path \notin Dirs => HeldAt(mp, q, k - 1, "L", q[k].path)

\* A file is in the map, or a message or a report to come puts it in.
FilesHeld(mp, q, dk, dn) ==
    \A s \in Side : \A x \in DOMAIN dk[s] \ Dirs :
        HeldAt(mp, q, Len(q), s, x) \/ (s = "R" /\ x \in dn)

ReportsOK ==
    /\ done \subseteq DOMAIN disk["L"]
    /\ work = "flush" => done = {} \/ lost

HeldInv ==
    /\ ReportsOK
    /\ ~lost => FindsRow(map, Posted) /\ FilesHeld(map, Posted, disk, done)

-----------------------------------------------------------------------------
(* Entries, rows and lists of them                                         *)

LEMMA SideIs == Side = {"L", "R"} /\ \A s \in Side : Other(s) \in Side /\ Other(s) # s
                /\ Other(Other(s)) = s /\ \A t \in Side : t = s \/ t = Other(s)
BY DEF Side, Other

\* The fields of an entry, and an entry put into another row.
LEMMA EntryFields ==
    ASSUME NEW e \in Entries, NEW n \in Nat
    PROVE  /\ e.path \in Paths /\ e.row \in Nat /\ e.linked \in BOOLEAN /\ e.ino \in Ino
           /\ [e EXCEPT !.row = n] \in Entries
           /\ [e EXCEPT !.row = n].path = e.path
           /\ [e EXCEPT !.row = n].row = n
BY DEF Entries

\* The cells of a row, and a row with another cell.
LEMMA RowCells ==
    ASSUME NEW row \in RowsType, NEW s \in Side, NEW n \in Nat
    PROVE  /\ row[s] \in Nat /\ row.selected \in BOOLEAN
           /\ [row EXCEPT ![s] = n] \in RowsType
           /\ \A t \in Side : [row EXCEPT ![s] = n][t] = IF t = s THEN n ELSE row[t]
           /\ [row EXCEPT ![s] = n].selected = row.selected
<1>1. CASE s = "L" BY <1>1 DEF RowsType, Side
<1>2. CASE s = "R" BY <1>2 DEF RowsType, Side
<1> QED BY <1>1, <1>2 DEF Side

\* One entry is put into another row; one cell of a row is changed.
WithRow(lst, s, i, n) == [lst EXCEPT ![s][i].row = n]
WithCell(rws, r, s, n) == [rws EXCEPT ![r][s] = n]

\* new is lst but for the row of entry i of s.
OnlyRow(new, lst, s, i, n) ==
    /\ new \in [Side -> Seq(Entries)]
    /\ \A t \in Side : Len(new[t]) = Len(lst[t])
    /\ \A t \in Side : \A j \in 1..Len(lst[t]) :
          /\ new[t][j].path = lst[t][j].path
          /\ new[t][j].row = IF t = s /\ j = i THEN n ELSE lst[t][j].row

LEMMA SetRow ==
    ASSUME NEW lst, lst \in [Side -> Seq(Entries)], NEW s \in Side,
           NEW i, i \in 1..Len(lst[s]), NEW n \in Nat
    PROVE  OnlyRow(WithRow(lst, s, i, n), lst, s, i, n)
<1> DEFINE new == WithRow(lst, s, i, n)
           e == [lst[s][i] EXCEPT !.row = n]
<1>1. lst[s] \in Seq(Entries) /\ lst[s][i] \in Entries OBVIOUS
<1>2. e \in Entries /\ e.path = lst[s][i].path /\ e.row = n BY <1>1, EntryFields
<1>3. new = [lst EXCEPT ![s] = [lst[s] EXCEPT ![i] = e]] BY DEF WithRow
<1> HIDE DEF e, new
<1>4. [lst[s] EXCEPT ![i] = e] \in Seq(Entries) /\ Len([lst[s] EXCEPT ![i] = e]) = Len(lst[s])
  BY <1>1, <1>2
<1> QED BY <1>1, <1>2, <1>3, <1>4 DEF OnlyRow, new

LEMMA SetCell ==
    ASSUME NEW rws \in Seq(RowsType), NEW r \in 1..Len(rws), NEW s \in Side, NEW n \in Nat
    PROVE  /\ WithCell(rws, r, s, n) \in Seq(RowsType)
           /\ Len(WithCell(rws, r, s, n)) = Len(rws)
           /\ \A x \in 1..Len(rws), t \in Side :
                 WithCell(rws, r, s, n)[x][t] = IF x = r /\ t = s THEN n ELSE rws[x][t]
           /\ \A x \in 1..Len(rws) : WithCell(rws, r, s, n)[x].selected = rws[x].selected
<1> DEFINE new == WithCell(rws, r, s, n)
           row == [rws[r] EXCEPT ![s] = n]
<1>1. rws[r] \in RowsType OBVIOUS
<1>2. row \in RowsType /\ row.selected = rws[r].selected
      /\ \A t \in Side : row[t] = IF t = s THEN n ELSE rws[r][t] BY <1>1, RowCells
<1>3. new = [rws EXCEPT ![r] = row] BY DEF WithCell
<1> HIDE DEF row, new
<1>4. new \in Seq(RowsType) /\ Len(new) = Len(rws) BY <1>2, <1>3
<1>5. \A x \in 1..Len(rws) : new[x] = IF x = r THEN row ELSE rws[x] BY <1>2, <1>3
<1>6. ASSUME NEW x \in 1..Len(rws), NEW t \in Side
      PROVE  new[x][t] = IF x = r /\ t = s THEN n ELSE rws[x][t]
  <2>1. CASE x = r BY <2>1, <1>2, <1>5
  <2>2. CASE x # r BY <2>2, <1>5
  <2> QED BY <2>1, <2>2
<1>7. ASSUME NEW x \in 1..Len(rws) PROVE new[x].selected = rws[x].selected
  <2>1. CASE x = r BY <2>1, <1>2, <1>5
  <2>2. CASE x # r BY <2>2, <1>5
  <2> QED BY <2>1, <2>2
<1> QED BY <1>4, <1>6, <1>7 DEF new

-----------------------------------------------------------------------------
(* A row is dropped                                                        *)

\* Where row x is when row r is gone.
Up(x, r) == IF x < r THEN x ELSE x - 1

LEMMA ShiftedIs ==
    ASSUME NEW rws \in Seq(RowsType), NEW r \in 1..Len(rws)
    PROVE  /\ Shifted(rws, r) \in Seq(RowsType)
           /\ Len(Shifted(rws, r)) = Len(rws) - 1
           /\ \A j \in 1..(Len(rws) - 1) : Shifted(rws, r)[j] = IF j < r THEN rws[j] ELSE rws[j + 1]
           /\ \A x \in (1..Len(rws)) \ {r} :
                 Up(x, r) \in 1..(Len(rws) - 1) /\ Shifted(rws, r)[Up(x, r)] = rws[x]
           /\ \A j \in 1..(Len(rws) - 1) :
                 \E x \in (1..Len(rws)) \ {r} : j = Up(x, r) /\ Shifted(rws, r)[j] = rws[x]
<1>1. /\ Shifted(rws, r) \in Seq(RowsType)
      /\ Len(Shifted(rws, r)) = Len(rws) - 1
      /\ \A j \in 1..(Len(rws) - 1) : Shifted(rws, r)[j] = IF j < r THEN rws[j] ELSE rws[j + 1]
  BY DEF Shifted
<1>2. \A x \in (1..Len(rws)) \ {r} :
         Up(x, r) \in 1..(Len(rws) - 1) /\ Shifted(rws, r)[Up(x, r)] = rws[x]
  BY <1>1 DEF Up
<1>3. ASSUME NEW j \in 1..(Len(rws) - 1)
      PROVE  \E x \in (1..Len(rws)) \ {r} : j = Up(x, r) /\ Shifted(rws, r)[j] = rws[x]
  <2>1. CASE j < r
    <3>1. j \in (1..Len(rws)) \ {r} /\ j = Up(j, r) BY <2>1 DEF Up
    <3> QED BY <3>1, <2>1, <1>1
  <2>2. CASE j >= r
    <3>1. j + 1 \in (1..Len(rws)) \ {r} /\ j = Up(j + 1, r) BY <2>2 DEF Up
    <3> QED BY <3>1, <2>2, <1>1
  <2> QED BY <2>1, <2>2
<1> QED BY <1>1, <1>2, <1>3

\* The entries of the rows behind it follow.
LEMMA FollowingIs ==
    ASSUME NEW lst, NEW mp, NEW rws, NEW r \in 1..Len(rws), Sound(lst, mp, rws, {r}), NEW s \in Side
    PROVE  /\ Following(lst[s], s, Shifted(rws, r), r) \in Seq(Entries)
           /\ Len(Following(lst[s], s, Shifted(rws, r), r)) = Len(lst[s])
           /\ \A i \in 1..Len(lst[s]) :
                 /\ Following(lst[s], s, Shifted(rws, r), r)[i].path = lst[s][i].path
                 /\ Following(lst[s], s, Shifted(rws, r), r)[i].row =
                       IF lst[s][i].row = 0 THEN 0 ELSE Up(lst[s][i].row, r)
<1> DEFINE sh == Shifted(rws, r)
           at(i) == {j \in r..Len(sh) : sh[j][s] = i}
           new(i) == IF at(i) = {} THEN lst[s][i]
                     ELSE [lst[s][i] EXCEPT !.row = CHOOSE j \in at(i) : \A k \in at(i) : k <= j]
           F == Following(lst[s], s, sh, r)
<1>1. /\ lst[s] \in Seq(Entries) /\ rws \in Seq(RowsType) BY DEF Sound, ArraysOK
<1>2. /\ sh \in Seq(RowsType) /\ Len(sh) = Len(rws) - 1 /\ Len(sh) \in Nat
      /\ \A j \in r..Len(sh) : sh[j] = rws[j + 1]
  <2>1. /\ sh \in Seq(RowsType) /\ Len(sh) = Len(rws) - 1
        /\ \A j \in 1..(Len(rws) - 1) : sh[j] = IF j < r THEN rws[j] ELSE rws[j + 1]
    BY <1>1, ShiftedIs
  <2> HIDE DEF sh
  <2> QED BY <2>1, <1>1
<1>3. F = [i \in 1..Len(lst[s]) |-> new(i)] BY <1>1 DEF Following
<1>4. ASSUME NEW i \in 1..Len(lst[s])
      PROVE  /\ new(i) \in Entries /\ new(i).path = lst[s][i].path
             /\ new(i).row = IF lst[s][i].row = 0 THEN 0 ELSE Up(lst[s][i].row, r)
  <2>1. lst[s][i] \in Entries /\ lst[s][i].row \in Nat
    <3>1. lst[s][i] \in Entries BY <1>1
    <3> QED BY <3>1 DEF Entries
  <2>2. \A j \in at(i) : j \in Nat /\ j >= r /\ lst[s][i].row = j + 1
    <3> SUFFICES ASSUME NEW j \in at(i) PROVE j \in Nat /\ j >= r /\ lst[s][i].row = j + 1
      OBVIOUS
    <3>1. j \in r..Len(sh) /\ rws[j + 1][s] = i BY <1>2
    <3>2. j + 1 \in (1..Len(rws)) \ {r} BY <3>1, <1>2, <1>1
    <3> QED BY <3>1, <3>2, <1>2 DEF Sound, RowsPoint
  <2>3. CASE at(i) = {}
    <3>1. new(i) = lst[s][i] BY <2>3
    <3>2. ASSUME lst[s][i].row # 0 PROVE lst[s][i].row < r
      <4>1. lst[s][i].row \in (1..Len(rws)) \ {r} /\ rws[lst[s][i].row][s] = i
        BY <3>2 DEF Sound, EntriesPoint
      <4>2. SUFFICES ASSUME lst[s][i].row > r PROVE FALSE BY <4>1, <1>1, <2>1
      <4>3. lst[s][i].row - 1 \in r..Len(sh) /\ (lst[s][i].row - 1) + 1 = lst[s][i].row
        BY <4>1, <4>2, <1>1, <1>2, <2>1
      <4>4. sh[lst[s][i].row - 1][s] = i BY <4>1, <4>3, <1>2
      <4> QED BY <4>3, <4>4, <2>3
    <3> QED BY <3>1, <3>2, <2>1 DEF Up
  <2>4. CASE at(i) # {}
    <3>1. PICK j \in at(i) : TRUE BY <2>4
    <3>2. at(i) = {j} BY <2>2, <3>1, <2>1
    <3>3. (CHOOSE y \in at(i) : \A k \in at(i) : k <= y) = j BY <3>2, <2>2
    <3>4. new(i) = [lst[s][i] EXCEPT !.row = j] BY <3>3, <2>4
    <3>5. j \in Nat /\ lst[s][i].row = j + 1 /\ j >= r BY <2>2
    <3> HIDE DEF new, at
    <3> QED BY <3>4, <3>5, <2>1, EntryFields DEF Up
  <2> QED BY <2>3, <2>4
<1> HIDE DEF new
<1>5. F \in Seq(Entries) /\ Len(F) = Len(lst[s]) /\ \A i \in 1..Len(lst[s]) : F[i] = new(i)
  BY <1>3, <1>4, <1>1
<1> QED BY <1>4, <1>5

LEMMA UpInjective ==
    ASSUME NEW r \in Nat, NEW x \in Nat, NEW y \in Nat, x # r, y # r, Up(x, r) = Up(y, r)
    PROVE  x = y
BY DEF Up

\* A row whose entries are gone is dropped.
LEMMA DropSound ==
    ASSUME NEW lst, NEW mp, NEW rws, NEW r \in 1..Len(rws), Sound(lst, mp, rws, {r})
    PROVE  Sound([s \in Side |-> Following(lst[s], s, Shifted(rws, r), r)], mp, Shifted(rws, r), {})
<1> DEFINE sh == Shifted(rws, r)
           nl == [s \in Side |-> Following(lst[s], s, sh, r)]
<1>1. /\ rws \in Seq(RowsType) /\ lst \in [Side -> Seq(Entries)] /\ mp \in [Side -> [Paths -> Nat]]
      /\ Len(rws) \in Nat /\ r \in Nat
  BY DEF Sound, ArraysOK
<1>2. /\ sh \in Seq(RowsType) /\ Len(sh) = Len(rws) - 1
      /\ \A x \in (1..Len(rws)) \ {r} : Up(x, r) \in 1..Len(sh) /\ sh[Up(x, r)] = rws[x]
      /\ \A j \in 1..Len(sh) : \E x \in (1..Len(rws)) \ {r} : j = Up(x, r) /\ sh[j] = rws[x]
  <2>1. /\ sh \in Seq(RowsType) /\ Len(sh) = Len(rws) - 1
        /\ \A x \in (1..Len(rws)) \ {r} : Up(x, r) \in 1..(Len(rws) - 1) /\ sh[Up(x, r)] = rws[x]
        /\ \A j \in 1..(Len(rws) - 1) : \E x \in (1..Len(rws)) \ {r} : j = Up(x, r) /\ sh[j] = rws[x]
    BY <1>1, ShiftedIs
  <2> HIDE DEF sh
  <2> QED BY <2>1
<1>3. /\ nl \in [Side -> Seq(Entries)]
      /\ \A s \in Side : Len(nl[s]) = Len(lst[s])
      /\ \A s \in Side : \A i \in 1..Len(lst[s]) :
            /\ nl[s][i].path = lst[s][i].path
            /\ nl[s][i].row = IF lst[s][i].row = 0 THEN 0 ELSE Up(lst[s][i].row, r)
  BY FollowingIs
<1> HIDE DEF sh, nl
<1>4. ArraysOK(nl, mp, sh) BY <1>1, <1>2, <1>3 DEF ArraysOK
<1>5. RowsPoint(nl, sh, {})
  <2> SUFFICES ASSUME NEW j \in 1..Len(sh), NEW s \in Side, sh[j][s] # 0
               PROVE  sh[j][s] \in 1..Len(nl[s]) /\ nl[s][sh[j][s]].row = j
    BY DEF RowsPoint
  <2>1. PICK x \in (1..Len(rws)) \ {r} : j = Up(x, r) /\ sh[j] = rws[x] BY <1>2
  <2>2. rws[x][s] \in 1..Len(lst[s]) /\ lst[s][rws[x][s]].row = x BY <2>1 DEF Sound, RowsPoint
  <2>3. x # 0 /\ x \in Nat BY <1>1
  <2> QED BY <2>1, <2>2, <2>3, <1>3
<1>6. EntriesPoint(nl, mp, sh, {})
  <2> SUFFICES ASSUME NEW s \in Side, NEW i \in 1..Len(nl[s]), nl[s][i].row # 0
               PROVE  /\ nl[s][i].row \in 1..Len(sh)
                      /\ sh[nl[s][i].row][s] = i /\ mp[s][nl[s][i].path] = i
    BY DEF EntriesPoint
  <2>1. i \in 1..Len(lst[s]) /\ lst[s][i].row # 0 /\ nl[s][i].row = Up(lst[s][i].row, r) BY <1>3
  <2>2. /\ lst[s][i].row \in (1..Len(rws)) \ {r} /\ rws[lst[s][i].row][s] = i
        /\ mp[s][lst[s][i].path] = i
    BY <2>1 DEF Sound, EntriesPoint
  <2> QED BY <2>1, <2>2, <1>2, <1>3
<1>7. MapPoints(nl, mp)
  <2> SUFFICES ASSUME NEW s \in Side, NEW p \in Paths, mp[s][p] # 0
               PROVE  /\ mp[s][p] \in 1..Len(nl[s]) /\ nl[s][mp[s][p]].path = p
                      /\ nl[s][mp[s][p]].row # 0
    BY DEF MapPoints
  <2> DEFINE i == mp[s][p]
  <2>1. i \in 1..Len(lst[s]) /\ lst[s][i].path = p /\ lst[s][i].row # 0 BY DEF Sound, MapPoints
  <2>2. lst[s][i].row \in (1..Len(rws)) \ {r} BY <2>1 DEF Sound, EntriesPoint
  <2>3. Up(lst[s][i].row, r) # 0 BY <2>2, <1>1 DEF Up
  <2> QED BY <2>1, <2>3, <1>3
<1>8. NoEmptyRow(sh, {}) BY <1>2 DEF Sound, NoEmptyRow
<1>9. OneRowPerPath(nl, sh, {})
  <2> SUFFICES ASSUME NEW j \in 1..Len(sh), NEW k \in 1..Len(sh), NEW s \in Side, NEW t \in Side,
                      sh[j][s] # 0, sh[k][t] # 0
               PROVE  j = k <=> nl[s][sh[j][s]].path = nl[t][sh[k][t]].path
    BY DEF OneRowPerPath
  <2>1. PICK x \in (1..Len(rws)) \ {r} : j = Up(x, r) /\ sh[j] = rws[x] BY <1>2
  <2>2. PICK y \in (1..Len(rws)) \ {r} : k = Up(y, r) /\ sh[k] = rws[y] BY <1>2
  <2>3. x = y <=> lst[s][rws[x][s]].path = lst[t][rws[y][t]].path
    BY <2>1, <2>2 DEF Sound, OneRowPerPath
  <2>4. j = k <=> x = y
    <3>1. x \in Nat /\ y \in Nat /\ x # r /\ y # r BY <1>1
    <3> QED BY <3>1, <2>1, <2>2, <1>1, UpInjective
  <2>5. rws[x][s] \in 1..Len(lst[s]) /\ rws[y][t] \in 1..Len(lst[t])
    BY <2>1, <2>2 DEF Sound, RowsPoint
  <2> QED BY <2>1, <2>2, <2>3, <2>4, <2>5, <1>3, ZenonT(60)
<1> QED BY <1>4, <1>5, <1>6, <1>7, <1>8, <1>9 DEF Sound, sh, nl

-----------------------------------------------------------------------------
(* update_row_remove                                                       *)

\* The row that shows p on s shows p alone.
LEMMA RowOf ==
    ASSUME NEW lst, NEW mp, NEW rws, Sound(lst, mp, rws, {}),
           NEW s \in Side, NEW p \in Paths, mp[s][p] # 0
    PROVE  /\ mp[s][p] \in 1..Len(lst[s]) /\ lst[s][mp[s][p]].path = p
           /\ lst[s][mp[s][p]].row \in 1..Len(rws)
           /\ rws[lst[s][mp[s][p]].row][s] = mp[s][p]
           /\ \A x \in 1..Len(rws), t \in Side :
                 rws[x][t] # 0 => (x = lst[s][mp[s][p]].row <=> lst[t][rws[x][t]].path = p)
<1> DEFINE i == mp[s][p]
<1>1. i \in 1..Len(lst[s]) /\ lst[s][i].path = p /\ lst[s][i].row # 0 BY DEF Sound, MapPoints
<1>2. lst[s][i].row \in 1..Len(rws) /\ rws[lst[s][i].row][s] = i
  BY <1>1 DEF Sound, EntriesPoint
<1>3. ASSUME NEW x \in 1..Len(rws), NEW t \in Side, rws[x][t] # 0
      PROVE  x = lst[s][i].row <=> lst[t][rws[x][t]].path = p
  <2> DEFINE r == lst[s][i].row
  <2>1. r \in 1..Len(rws) /\ rws[r][s] # 0 /\ rws[r][s] = i BY <1>1, <1>2
  <2>2. x = r <=> lst[t][rws[x][t]].path = lst[s][rws[r][s]].path
    BY <2>1, <1>3 DEF Sound, OneRowPerPath
  <2> QED BY <2>1, <2>2, <1>1
<1> QED BY <1>1, <1>2, <1>3

\* An entry is taken out of its row and out of the map: a row that shows nothing else
\* is dead.
LEMMA DetachSound ==
    ASSUME NEW lst, NEW mp, NEW rws, Sound(lst, mp, rws, {}),
           NEW s \in Side, NEW p \in Paths, mp[s][p] # 0
    PROVE  LET i == mp[s][p]
               r == lst[s][i].row
           IN  Sound(WithRow(lst, s, i, 0), [mp EXCEPT ![s][p] = 0], WithCell(rws, r, s, 0),
                     IF rws[r][Other(s)] = 0 THEN {r} ELSE {})
<1> DEFINE i == mp[s][p]
           r == lst[s][i].row
           nl == WithRow(lst, s, i, 0)
           nm == [mp EXCEPT ![s][p] = 0]
           nr == WithCell(rws, r, s, 0)
<1>1. /\ rws \in Seq(RowsType) /\ lst \in [Side -> Seq(Entries)] /\ mp \in [Side -> [Paths -> Nat]]
  BY DEF Sound, ArraysOK
<1>2. /\ i \in 1..Len(lst[s]) /\ lst[s][i].path = p /\ r \in 1..Len(rws) /\ rws[r][s] = i
      /\ \A x \in 1..Len(rws), t \in Side : rws[x][t] # 0 => (x = r <=> lst[t][rws[x][t]].path = p)
  BY RowOf
<1>3. /\ nl \in [Side -> Seq(Entries)]
      /\ \A t \in Side : Len(nl[t]) = Len(lst[t])
      /\ \A t \in Side : \A j \in 1..Len(lst[t]) :
            /\ nl[t][j].path = lst[t][j].path
            /\ nl[t][j].row = IF t = s /\ j = i THEN 0 ELSE lst[t][j].row
  <2> HIDE DEF i
  <2>1. OnlyRow(nl, lst, s, i, 0) BY <1>1, <1>2, SetRow
  <2> HIDE DEF nl
  <2> QED BY <2>1 DEF OnlyRow
<1>4. /\ nr \in Seq(RowsType) /\ Len(nr) = Len(rws)
      /\ \A x \in 1..Len(rws), t \in Side : nr[x][t] = IF x = r /\ t = s THEN 0 ELSE rws[x][t]
  <2> HIDE DEF i, r
  <2> QED BY <1>1, <1>2, SetCell, 0 \in Nat
<1>5. /\ nm \in [Side -> [Paths -> Nat]]
      /\ \A t \in Side, q \in Paths : nm[t][q] = IF t = s /\ q = p THEN 0 ELSE mp[t][q]
  BY <1>1
<1>0. mp[s][p] = i /\ lst[s][i].row = r OBVIOUS
<1> HIDE DEF nl, nm, nr, i, r
\* An entry of another row has a place of its own in the map.
<1>6. \A t \in Side : \A j \in 1..Len(lst[t]) :
         nl[t][j].row # 0 => /\ lst[t][j].row # 0 /\ nl[t][j].row = lst[t][j].row
                             /\ lst[t][j].row \in 1..Len(rws) /\ rws[lst[t][j].row][t] = j
                             /\ ~(t = s /\ j = i) /\ mp[t][lst[t][j].path] = j
  BY <1>3 DEF Sound, EntriesPoint
<1>7. \A t \in Side : \A j \in 1..Len(lst[t]) :
         nl[t][j].row # 0 => nm[t][nl[t][j].path] = j /\ (nl[t][j].row = r => t # s)
  <2> SUFFICES ASSUME NEW t \in Side, NEW j \in 1..Len(lst[t]), nl[t][j].row # 0
               PROVE  nm[t][nl[t][j].path] = j /\ (nl[t][j].row = r => t # s)
    OBVIOUS
  <2>1. lst[t][j].path \in Paths
    <3>1. lst[t][j] \in Entries BY <1>1
    <3> QED BY <3>1 DEF Entries
  <2>2. nm[t][lst[t][j].path] = IF t = s /\ lst[t][j].path = p THEN 0 ELSE mp[t][lst[t][j].path]
    BY <2>1, <1>5
  <2>3. mp[t][lst[t][j].path] = j /\ ~(t = s /\ j = i) /\ rws[lst[t][j].row][t] = j
        /\ nl[t][j].row = lst[t][j].row
    BY <1>6
  <2> QED BY <2>2, <2>3, <1>0, <1>2, <1>3
<1>8. MapPoints(nl, nm)
  <2> SUFFICES ASSUME NEW t \in Side, NEW q \in Paths, nm[t][q] # 0
               PROVE  /\ nm[t][q] \in 1..Len(nl[t]) /\ nl[t][nm[t][q]].path = q
                      /\ nl[t][nm[t][q]].row # 0
    BY DEF MapPoints
  <2>1. nm[t][q] = mp[t][q] /\ ~(t = s /\ q = p) BY <1>5
  <2>2. mp[t][q] \in 1..Len(lst[t]) /\ lst[t][mp[t][q]].path = q /\ lst[t][mp[t][q]].row # 0
    BY <2>1 DEF Sound, MapPoints
  <2>3. ~(t = s /\ mp[t][q] = i) BY <2>1, <2>2, <1>2
  <2> QED BY <2>1, <2>2, <2>3, <1>3
\* What a row shows beside (s, i), and the rows of two paths.
<1>9. \A x \in 1..Len(rws), t \in Side :
         rws[x][t] # 0 /\ ~(x = r /\ t = s) =>
            /\ rws[x][t] \in 1..Len(nl[t]) /\ nl[t][rws[x][t]].row = x
            /\ nl[t][rws[x][t]].path = lst[t][rws[x][t]].path
  <2> SUFFICES ASSUME NEW x \in 1..Len(rws), NEW t \in Side, rws[x][t] # 0, ~(x = r /\ t = s)
               PROVE  /\ rws[x][t] \in 1..Len(nl[t]) /\ nl[t][rws[x][t]].row = x
                      /\ nl[t][rws[x][t]].path = lst[t][rws[x][t]].path
    OBVIOUS
  <2>1. rws[x][t] \in 1..Len(lst[t]) /\ lst[t][rws[x][t]].row = x BY DEF Sound, RowsPoint
  <2> QED BY <2>1, <1>0, <1>3
<1>10. \A x, y \in 1..Len(rws), t, u \in Side :
          rws[x][t] # 0 /\ rws[y][u] # 0 /\ ~(x = r /\ t = s) /\ ~(y = r /\ u = s) =>
             (x = y <=> nl[t][rws[x][t]].path = nl[u][rws[y][u]].path)
  BY <1>9 DEF Sound, OneRowPerPath
<1>11. \A x \in 1..Len(rws), t \in Side :
          nr[x][t] # 0 => rws[x][t] # 0 /\ nr[x][t] = rws[x][t] /\ ~(x = r /\ t = s)
  BY <1>4
<1>12. ArraysOK(nl, nm, nr) BY <1>1, <1>3, <1>4, <1>5 DEF ArraysOK
<1>13. RowsPoint(nl, nr, {}) BY <1>11, <1>4, <1>9 DEF RowsPoint
<1>14. EntriesPoint(nl, nm, nr, {})
  <2> SUFFICES ASSUME NEW t \in Side, NEW j \in 1..Len(lst[t]), nl[t][j].row # 0
               PROVE  /\ nl[t][j].row \in 1..Len(nr) /\ nr[nl[t][j].row][t] = j
                      /\ nm[t][nl[t][j].path] = j
    BY <1>3 DEF EntriesPoint
  <2>1. nl[t][j].row \in 1..Len(rws) /\ rws[nl[t][j].row][t] = j BY <1>6
  <2>2. nm[t][nl[t][j].path] = j /\ (nl[t][j].row = r => t # s) BY <1>7
  <2> QED BY <2>1, <2>2, <1>4
<1>15. OneRowPerPath(nl, nr, {}) BY <1>11, <1>4, <1>10 DEF OneRowPerPath
<1>16. ASSUME NEW x \in 1..Len(rws), x # r PROVE nr[x]["L"] # 0 \/ nr[x]["R"] # 0
  <2>1. nr[x]["L"] = rws[x]["L"] /\ nr[x]["R"] = rws[x]["R"] BY <1>16, <1>4, SideIs
  <2> QED BY <2>1 DEF Sound, NoEmptyRow
<1>17. CASE rws[r][Other(s)] = 0
  <2>1. Other(s) \in Side /\ \A t \in Side : t = s \/ t = Other(s) BY SideIs
  <2>2. \A t \in Side : nr[r][t] = 0 BY <2>1, <1>17, <1>2, <1>4
  <2>3. EntriesPoint(nl, nm, nr, {r})
    <3> SUFFICES ASSUME NEW t \in Side, NEW j \in 1..Len(nl[t]), nl[t][j].row # 0
                 PROVE  /\ nl[t][j].row \in (1..Len(nr)) \ {r} /\ nr[nl[t][j].row][t] = j
                        /\ nm[t][nl[t][j].path] = j
      BY DEF EntriesPoint
    <3> QED BY <1>14, <2>2 DEF EntriesPoint
  <2>4. NoEmptyRow(nr, {r}) BY <1>16, <1>4 DEF NoEmptyRow
  <2>5. RowsPoint(nl, nr, {r}) /\ OneRowPerPath(nl, nr, {r})
    BY <1>13, <1>15 DEF RowsPoint, OneRowPerPath
  <2>6. Sound(nl, nm, nr, {r}) BY <2>3, <2>4, <2>5, <1>8, <1>12 DEF Sound
  <2> QED BY <2>6, <1>17 DEF nl, nm, nr, i, r
<1>18. CASE rws[r][Other(s)] # 0
  <2>1. Other(s) \in Side /\ Other(s) # s BY SideIs
  <2>2. nr[r][Other(s)] # 0 BY <2>1, <1>18, <1>2, <1>4
  <2>3. nr[r]["L"] # 0 \/ nr[r]["R"] # 0 BY <2>2 DEF Other
  <2>4. NoEmptyRow(nr, {}) BY <2>3, <1>16, <1>4 DEF NoEmptyRow
  <2>5. Sound(nl, nm, nr, {}) BY <2>4, <1>8, <1>12, <1>13, <1>14, <1>15 DEF Sound
  <2> QED BY <2>5, <1>18 DEF nl, nm, nr, i, r
<1> QED BY <1>17, <1>18

-----------------------------------------------------------------------------
(* An entry is appended to a list and put into a row                       *)

WithEntry(lst, s, e) == [lst EXCEPT ![s] = Append(@, e)]

\* new is lst with e at the end of s.
OneMore(new, lst, s, e) ==
    /\ new \in [Side -> Seq(Entries)]
    /\ \A t \in Side : Len(new[t]) = IF t = s THEN Len(lst[t]) + 1 ELSE Len(lst[t])
    /\ \A t \in Side : \A j \in 1..Len(lst[t]) : new[t][j] = lst[t][j]
    /\ new[s][Len(lst[s]) + 1] = e

LEMMA AppendEntry ==
    ASSUME NEW lst, lst \in [Side -> Seq(Entries)], NEW s \in Side, NEW e \in Entries
    PROVE  OneMore(WithEntry(lst, s, e), lst, s, e)
<1>1. lst[s] \in Seq(Entries) OBVIOUS
<1>2. /\ Append(lst[s], e) \in Seq(Entries) /\ Len(Append(lst[s], e)) = Len(lst[s]) + 1
      /\ \A j \in 1..Len(lst[s]) : Append(lst[s], e)[j] = lst[s][j]
      /\ Append(lst[s], e)[Len(lst[s]) + 1] = e
  BY <1>1
<1>3. /\ WithEntry(lst, s, e)[s] = Append(lst[s], e)
      /\ \A t \in Side : t # s => WithEntry(lst, s, e)[t] = lst[t]
      /\ WithEntry(lst, s, e) \in [Side -> Seq(Entries)]
  BY <1>2 DEF WithEntry
<1> QED BY <1>2, <1>3 DEF OneMore

\* A new entry is shown by a row that lacks its side: a row of that path, or a dead one
\* when no row has the path.
Free(lst, mp, rws, dead, s, q, r) ==
    /\ mp[s][q] = 0 /\ rws[r][s] = 0 /\ r \in 1..Len(rws)
    /\ \/ /\ r \notin dead /\ rws[r][Other(s)] # 0
          /\ lst[Other(s)][rws[r][Other(s)]].path = q
       \/ /\ r \in dead /\ rws[r][Other(s)] = 0 /\ mp[Other(s)][q] = 0
WithName(mp, s, q, i) == [mp EXCEPT ![s][q] = i]

LEMMA AttachSound ==
    ASSUME NEW lst, NEW mp, NEW rws, NEW dead, Sound(lst, mp, rws, dead),
           NEW s \in Side, NEW e \in Entries, NEW r, e.row = r, NEW q, e.path = q,
           Free(lst, mp, rws, dead, s, q, r), NEW new, new = Len(lst[s]) + 1
    PROVE  Sound(WithEntry(lst, s, e), WithName(mp, s, q, new), WithCell(rws, r, s, new), dead \ {r})
<1> USE DEF Free
<1> DEFINE nl == WithEntry(lst, s, e)
           nm == WithName(mp, s, q, new)
           nr == WithCell(rws, r, s, new)
           live == (1..Len(rws)) \ dead
<1>1. /\ rws \in Seq(RowsType) /\ lst \in [Side -> Seq(Entries)] /\ mp \in [Side -> [Paths -> Nat]]
      /\ new \in Nat /\ new # 0 /\ q \in Paths
  <2>1. rws \in Seq(RowsType) /\ lst \in [Side -> Seq(Entries)] /\ mp \in [Side -> [Paths -> Nat]]
    BY DEF Sound, ArraysOK
  <2>2. Len(lst[s]) \in Nat BY <2>1
  <2>3. q \in Paths BY DEF Entries
  <2> QED BY <2>1, <2>2, <2>3
<1>2. /\ nl \in [Side -> Seq(Entries)]
      /\ \A t \in Side : Len(nl[t]) = IF t = s THEN new ELSE Len(lst[t])
      /\ \A t \in Side : \A j \in 1..Len(lst[t]) : nl[t][j] = lst[t][j]
      /\ nl[s][new] = e
      /\ \A t \in Side : Len(lst[t]) \in Nat
  <2>1. \A t \in Side : Len(lst[t]) \in Nat BY <1>1
  <2>2. OneMore(nl, lst, s, e) BY <1>1, AppendEntry
  <2> HIDE DEF nl
  <2> QED BY <2>1, <2>2 DEF OneMore
<1>3. /\ nr \in Seq(RowsType) /\ Len(nr) = Len(rws)
      /\ \A x \in 1..Len(rws), t \in Side : nr[x][t] = IF x = r /\ t = s THEN new ELSE rws[x][t]
  BY <1>1, SetCell
<1>4. /\ nm \in [Side -> [Paths -> Nat]]
      /\ \A t \in Side, p \in Paths : nm[t][p] = IF t = s /\ p = q THEN new ELSE mp[t][p]
  BY <1>1 DEF WithName
<1>5. /\ \A t \in Side : t = s \/ t = Other(s)
      /\ Other(s) \in Side /\ Other(s) # s
  BY SideIs
<1>6. new = Len(lst[s]) + 1 /\ q = e.path OBVIOUS
<1> HIDE DEF nl, nm, nr
\* No entry that has a row shows q on s.
<1>7. ASSUME NEW t \in Side, NEW j \in 1..Len(lst[t]), lst[t][j].row # 0
      PROVE  /\ lst[t][j].row \in live /\ rws[lst[t][j].row][t] = j
             /\ mp[t][lst[t][j].path] = j /\ ~(t = s /\ lst[t][j].path = q)
             /\ lst[t][j].path \in Paths /\ j # 0
  <2>1. /\ lst[t][j].row \in live /\ rws[lst[t][j].row][t] = j /\ mp[t][lst[t][j].path] = j
    BY <1>7 DEF Sound, EntriesPoint
  <2>2. lst[t][j] \in Entries BY <1>1
  <2>3. lst[t][j].path \in Paths BY <2>2 DEF Entries
  <2> QED BY <2>1, <2>3, <1>6
\* A row shows q in the end just when it is r.
<1>8. ASSUME NEW x \in live, NEW t \in Side, rws[x][t] # 0
      PROVE  /\ rws[x][t] \in 1..Len(lst[t]) /\ lst[t][rws[x][t]].row = x
             /\ nl[t][rws[x][t]] = lst[t][rws[x][t]]
             /\ x = r <=> lst[t][rws[x][t]].path = q
  <2>1. rws[x][t] \in 1..Len(lst[t]) /\ lst[t][rws[x][t]].row = x
    BY <1>8 DEF Sound, RowsPoint
  <2>2. x # 0 BY <1>1
  <2>3. /\ mp[t][lst[t][rws[x][t]].path] = rws[x][t]
        /\ ~(t = s /\ lst[t][rws[x][t]].path = q)
    BY <2>1, <2>2, <1>7
  <2>4. CASE r \in live /\ rws[r][Other(s)] # 0 /\ lst[Other(s)][rws[r][Other(s)]].path = q
    <3>1. r = x <=> lst[Other(s)][rws[r][Other(s)]].path = lst[t][rws[x][t]].path
      BY <2>4, <1>5, <1>8 DEF Sound, OneRowPerPath
    <3> QED BY <3>1, <2>1, <2>4, <1>2
  <2>5. CASE r \in dead /\ mp[Other(s)][q] = 0
    <3>1. lst[t][rws[x][t]].path # q BY <2>3, <2>5, <1>5, <1>8
    <3> QED BY <3>1, <2>1, <2>5, <1>2
  <2> QED BY <2>4, <2>5, <1>6
<1>9. \A x \in (1..Len(nr)) \ (dead \ {r}), t \in Side :
         nr[x][t] # 0 => \/ x = r /\ t = s /\ nr[x][t] = new
                         \/ ~(x = r /\ t = s) /\ x \in live /\ nr[x][t] = rws[x][t] /\ rws[x][t] # 0
  BY <1>3, <1>5
<1>10. RowsPoint(nl, nr, dead \ {r})
  <2> SUFFICES ASSUME NEW x \in (1..Len(nr)) \ (dead \ {r}), NEW t \in Side, nr[x][t] # 0
               PROVE  nr[x][t] \in 1..Len(nl[t]) /\ nl[t][nr[x][t]].row = x
    BY DEF RowsPoint
  <2>1. CASE x = r /\ t = s /\ nr[x][t] = new BY <2>1, <1>2, <1>1
  <2>2. CASE x \in live /\ nr[x][t] = rws[x][t] /\ rws[x][t] # 0
    <3>1. /\ rws[x][t] \in 1..Len(lst[t]) /\ lst[t][rws[x][t]].row = x
          /\ nl[t][rws[x][t]] = lst[t][rws[x][t]]
      BY <2>2, <1>8
    <3>2. 1..Len(lst[t]) \subseteq 1..Len(nl[t]) BY <1>2, <1>6
    <3> QED BY <3>1, <3>2, <2>2
  <2> QED BY <2>1, <2>2, <1>9
<1>11. EntriesPoint(nl, nm, nr, dead \ {r})
  <2> SUFFICES ASSUME NEW t \in Side, NEW j \in 1..Len(nl[t]), nl[t][j].row # 0
               PROVE  /\ nl[t][j].row \in (1..Len(nr)) \ (dead \ {r}) /\ nr[nl[t][j].row][t] = j
                      /\ nm[t][nl[t][j].path] = j
    BY DEF EntriesPoint
  <2>1. CASE t = s /\ j = new BY <2>1, <1>1, <1>2, <1>3, <1>4, <1>6
  <2>2. CASE ~(t = s /\ j = new)
    <3>1. j \in 1..Len(lst[t]) BY <2>2, <1>2, <1>6
    <3>2. nl[t][j] = lst[t][j] BY <3>1, <1>2
    <3>3. /\ lst[t][j].row \in live /\ rws[lst[t][j].row][t] = j
          /\ mp[t][lst[t][j].path] = j /\ ~(t = s /\ lst[t][j].path = q)
          /\ lst[t][j].path \in Paths /\ j # 0
      BY <3>1, <3>2, <1>7
    <3>4. ~(lst[t][j].row = r /\ t = s) BY <3>3
    <3> QED BY <3>2, <3>3, <3>4, <1>3, <1>4
  <2> QED BY <2>1, <2>2
<1>12. MapPoints(nl, nm)
  <2> SUFFICES ASSUME NEW t \in Side, NEW p \in Paths, nm[t][p] # 0
               PROVE  /\ nm[t][p] \in 1..Len(nl[t]) /\ nl[t][nm[t][p]].path = p
                      /\ nl[t][nm[t][p]].row # 0
    BY DEF MapPoints
  <2>1. CASE t = s /\ p = q
    <3>1. r # 0 BY <1>1
    <3> QED BY <2>1, <3>1, <1>1, <1>2, <1>4, <1>6
  <2>2. CASE ~(t = s /\ p = q)
    <3>1. nm[t][p] = mp[t][p] BY <2>2, <1>4
    <3>2. mp[t][p] \in 1..Len(lst[t]) /\ lst[t][mp[t][p]].path = p /\ lst[t][mp[t][p]].row # 0
      BY <3>1 DEF Sound, MapPoints
    <3>3. 1..Len(lst[t]) \subseteq 1..Len(nl[t]) BY <1>2, <1>6
    <3> QED BY <3>1, <3>2, <3>3, <1>2
  <2> QED BY <2>1, <2>2
<1>13. NoEmptyRow(nr, dead \ {r})
  <2> SUFFICES ASSUME NEW x \in (1..Len(rws)) \ (dead \ {r}) PROVE nr[x]["L"] # 0 \/ nr[x]["R"] # 0
    BY <1>3 DEF NoEmptyRow
  <2>1. CASE x = r
    <3>1. nr[x][s] = new /\ new # 0 BY <2>1, <1>1, <1>3
    <3> QED BY <3>1 DEF Side
  <2>2. CASE x # r
    <3>1. nr[x]["L"] = rws[x]["L"] /\ nr[x]["R"] = rws[x]["R"] BY <2>2, <1>3, SideIs
    <3> QED BY <3>1, <2>2 DEF Sound, NoEmptyRow
  <2> QED BY <2>1, <2>2
<1>14. \A x \in (1..Len(nr)) \ (dead \ {r}), t \in Side :
          nr[x][t] # 0 => (x = r <=> nl[t][nr[x][t]].path = q)
  <2> SUFFICES ASSUME NEW x \in (1..Len(nr)) \ (dead \ {r}), NEW t \in Side, nr[x][t] # 0
               PROVE  x = r <=> nl[t][nr[x][t]].path = q
    OBVIOUS
  <2>1. CASE x = r /\ t = s /\ nr[x][t] = new BY <2>1, <1>2, <1>6
  <2>2. CASE x \in live /\ nr[x][t] = rws[x][t] /\ rws[x][t] # 0 BY <2>2, <1>8
  <2> QED BY <2>1, <2>2, <1>9
<1>15. OneRowPerPath(nl, nr, dead \ {r})
  <2> SUFFICES ASSUME NEW x \in (1..Len(nr)) \ (dead \ {r}), NEW y \in (1..Len(nr)) \ (dead \ {r}),
                      NEW t \in Side, NEW u \in Side, nr[x][t] # 0, nr[y][u] # 0
               PROVE  x = y <=> nl[t][nr[x][t]].path = nl[u][nr[y][u]].path
    BY DEF OneRowPerPath
  <2>1. CASE x = r \/ y = r BY <2>1, <1>14
  <2>2. CASE x # r /\ y # r
    <3>1. /\ x \in live /\ nr[x][t] = rws[x][t] /\ rws[x][t] # 0
          /\ y \in live /\ nr[y][u] = rws[y][u] /\ rws[y][u] # 0
      BY <2>2, <1>9
    <3>2. x = y <=> lst[t][rws[x][t]].path = lst[u][rws[y][u]].path
      BY <3>1 DEF Sound, OneRowPerPath
    <3>3. nl[t][rws[x][t]] = lst[t][rws[x][t]] /\ nl[u][rws[y][u]] = lst[u][rws[y][u]]
      BY <3>1, <1>8
    <3> QED BY <3>1, <3>2, <3>3
  <2> QED BY <2>1, <2>2
<1>16. ArraysOK(nl, nm, nr) BY <1>2, <1>3, <1>4 DEF ArraysOK
<1>17. Sound(nl, nm, nr, dead \ {r}) BY <1>10, <1>11, <1>12, <1>13, <1>15, <1>16 DEF Sound
<1> QED BY <1>17 DEF nl, nm, nr

-----------------------------------------------------------------------------
(* A row moves to the end; rows and entries change in what is not an index *)

LEMMA AppendRow ==
    ASSUME NEW rws, rws \in Seq(RowsType), NEW row \in RowsType
    PROVE  /\ Append(rws, row) \in Seq(RowsType)
           /\ Len(Append(rws, row)) = Len(rws) + 1
           /\ \A x \in 1..Len(rws) : Append(rws, row)[x] = rws[x]
           /\ Append(rws, row)[Len(rws) + 1] = row
OBVIOUS

\* What row r shows on u, its only side, is shown by a new row; row r is dead.
LEMMA MoveSound ==
    ASSUME NEW lst, NEW mp, NEW rws, Sound(lst, mp, rws, {}),
           NEW u \in Side, NEW r \in 1..Len(rws), rws[r][u] # 0, rws[r][Other(u)] = 0,
           NEW row \in RowsType, row[u] = rws[r][u], row[Other(u)] = 0
    PROVE  Sound(WithRow(lst, u, rws[r][u], Len(rws) + 1), mp,
                 Append(WithCell(rws, r, u, 0), row), {r})
<1> DEFINE o == rws[r][u]
           n == Len(rws) + 1
           nl == WithRow(lst, u, o, n)
           mid == WithCell(rws, r, u, 0)
           nr == Append(mid, row)
<1>1. /\ rws \in Seq(RowsType) /\ lst \in [Side -> Seq(Entries)] /\ mp \in [Side -> [Paths -> Nat]]
      /\ Len(rws) \in Nat /\ n \in Nat /\ r \in Nat
  BY DEF Sound, ArraysOK
<1>2. o \in 1..Len(lst[u]) /\ lst[u][o].row = r BY DEF Sound, RowsPoint
<1>3. OnlyRow(nl, lst, u, o, n)
  <2> HIDE DEF n, o
  <2> QED BY <1>1, <1>2, SetRow
<1>4. /\ mid \in Seq(RowsType) /\ Len(mid) = Len(rws)
      /\ \A x \in 1..Len(rws), t \in Side : mid[x][t] = IF x = r /\ t = u THEN 0 ELSE rws[x][t]
  BY <1>1, SetCell, 0 \in Nat
<1>5. /\ nr \in Seq(RowsType) /\ Len(nr) = n /\ nr[n] = row
      /\ \A x \in 1..Len(rws) : nr[x] = mid[x]
  <2> HIDE DEF mid
  <2> QED BY <1>4, AppendRow
<1>6. o = rws[r][u] /\ n = Len(rws) + 1 /\ \A t \in Side : t = u \/ t = Other(u) BY SideIs
<1> HIDE DEF nl, mid, nr, n, o
<1>7. \A x \in (1..n) \ {r}, t \in Side :
         nr[x][t] # 0 => \/ x = n /\ t = u /\ nr[x][t] = o
                         \/ x \in 1..Len(rws) /\ x # n /\ rws[x][t] # 0 /\ nr[x][t] = rws[x][t]
  <2> SUFFICES ASSUME NEW x \in (1..n) \ {r}, NEW t \in Side, nr[x][t] # 0
               PROVE  \/ x = n /\ t = u /\ nr[x][t] = o
                      \/ x \in 1..Len(rws) /\ x # n /\ rws[x][t] # 0 /\ nr[x][t] = rws[x][t]
    OBVIOUS
  <2>1. CASE x = n BY <2>1, <1>5, <1>6
  <2>2. CASE x # n
    <3>1. x \in Nat /\ x \in 1..(Len(rws) + 1) BY <1>1, <1>6
    <3>2. x \in 1..Len(rws) BY <3>1, <2>2, <1>1, <1>6
    <3> QED BY <3>2, <2>2, <1>4, <1>5
  <2> QED BY <2>1, <2>2
<1>8. ASSUME NEW x \in (1..Len(rws)) \ {r}, NEW t \in Side, rws[x][t] # 0
      PROVE  /\ rws[x][t] \in 1..Len(lst[t]) /\ ~(t = u /\ rws[x][t] = o)
             /\ nl[t][rws[x][t]].row = x /\ nl[t][rws[x][t]].path = lst[t][rws[x][t]].path
             /\ lst[t][rws[x][t]].path # lst[u][o].path
  <2>1. rws[x][t] \in 1..Len(lst[t]) /\ lst[t][rws[x][t]].row = x
    BY <1>8 DEF Sound, RowsPoint
  <2>2. lst[t][rws[x][t]].path # lst[u][o].path BY <1>8, <1>6 DEF Sound, OneRowPerPath
  <2>3. ~(t = u /\ rws[x][t] = o) BY <2>2
  <2> QED BY <2>1, <2>2, <2>3, <1>3 DEF OnlyRow
<1>9. ArraysOK(nl, mp, nr) BY <1>1, <1>3, <1>5 DEF ArraysOK, OnlyRow
<1>10. RowsPoint(nl, nr, {r})
  <2> SUFFICES ASSUME NEW x \in (1..n) \ {r}, NEW t \in Side, nr[x][t] # 0
               PROVE  nr[x][t] \in 1..Len(nl[t]) /\ nl[t][nr[x][t]].row = x
    BY <1>5 DEF RowsPoint
  <2>1. CASE x = n /\ t = u /\ nr[x][t] = o BY <2>1, <1>2, <1>3 DEF OnlyRow
  <2>2. CASE x \in 1..Len(rws) /\ rws[x][t] # 0 /\ nr[x][t] = rws[x][t]
    BY <2>2, <1>3, <1>8 DEF OnlyRow
  <2> QED BY <2>1, <2>2, <1>7
<1>11. EntriesPoint(nl, mp, nr, {r})
  <2> SUFFICES ASSUME NEW t \in Side, NEW j \in 1..Len(lst[t]), nl[t][j].row # 0
               PROVE  /\ nl[t][j].row \in (1..n) \ {r} /\ nr[nl[t][j].row][t] = j
                      /\ mp[t][nl[t][j].path] = j
    BY <1>3, <1>5 DEF EntriesPoint, OnlyRow
  <2>1. CASE t = u /\ j = o
    <3>1. nl[t][j].row = n /\ nl[t][j].path = lst[u][o].path BY <2>1, <1>3 DEF OnlyRow
    <3>2. mp[u][lst[u][o].path] = o
      <4>1. lst[u][o].row # 0 BY <1>1, <1>2
      <4> QED BY <4>1, <1>2 DEF Sound, EntriesPoint
    <3> QED BY <2>1, <3>1, <3>2, <1>1, <1>5, <1>6
  <2>2. CASE ~(t = u /\ j = o)
    <3>1. nl[t][j].row = lst[t][j].row /\ nl[t][j].path = lst[t][j].path
      BY <2>2, <1>3 DEF OnlyRow
    <3>2. /\ lst[t][j].row \in 1..Len(rws) /\ rws[lst[t][j].row][t] = j
          /\ mp[t][lst[t][j].path] = j /\ j # 0
      BY <3>1 DEF Sound, EntriesPoint
    <3>3. lst[t][j].row # r BY <2>2, <3>2, <1>6
    <3>4. nr[lst[t][j].row][t] = j BY <3>2, <3>3, <1>4, <1>5
    <3> QED BY <3>1, <3>2, <3>3, <3>4, <1>1, <1>6
  <2> QED BY <2>1, <2>2
<1>12. MapPoints(nl, mp)
  <2> SUFFICES ASSUME NEW t \in Side, NEW p \in Paths, mp[t][p] # 0
               PROVE  /\ mp[t][p] \in 1..Len(nl[t]) /\ nl[t][mp[t][p]].path = p
                      /\ nl[t][mp[t][p]].row # 0
    BY DEF MapPoints
  <2>1. mp[t][p] \in 1..Len(lst[t]) /\ lst[t][mp[t][p]].path = p /\ lst[t][mp[t][p]].row # 0
    BY DEF Sound, MapPoints
  <2>2. n # 0 BY <1>1, <1>6
  <2> QED BY <2>1, <2>2, <1>3 DEF OnlyRow
<1>13. NoEmptyRow(nr, {r})
  <2> SUFFICES ASSUME NEW x \in (1..n) \ {r} PROVE nr[x]["L"] # 0 \/ nr[x]["R"] # 0
    BY <1>5 DEF NoEmptyRow
  <2>1. CASE x = n BY <2>1, <1>5, <1>6 DEF Side
  <2>2. CASE x # n
    <3>1. x \in 1..Len(rws) BY <2>2, <1>1, <1>6
    <3>2. nr[x]["L"] = rws[x]["L"] /\ nr[x]["R"] = rws[x]["R"] BY <3>1, <1>4, <1>5, SideIs
    <3> QED BY <3>1, <3>2 DEF Sound, NoEmptyRow
  <2> QED BY <2>1, <2>2
<1>14. OneRowPerPath(nl, nr, {r})
  <2> SUFFICES ASSUME NEW x \in (1..n) \ {r}, NEW y \in (1..n) \ {r},
                      NEW t \in Side, NEW v \in Side, nr[x][t] # 0, nr[y][v] # 0
               PROVE  x = y <=> nl[t][nr[x][t]].path = nl[v][nr[y][v]].path
    BY <1>5 DEF OneRowPerPath
  <2>1. nl[u][o].path = lst[u][o].path BY <1>2, <1>3 DEF OnlyRow
  <2>2. \A z \in (1..n) \ {r}, w \in Side :
           nr[z][w] # 0 => (z = n <=> nl[w][nr[z][w]].path = nl[u][o].path)
    <3> SUFFICES ASSUME NEW z \in (1..n) \ {r}, NEW w \in Side, nr[z][w] # 0
                 PROVE  z = n <=> nl[w][nr[z][w]].path = nl[u][o].path
      OBVIOUS
    <3>1. CASE z = n /\ w = u /\ nr[z][w] = o BY <3>1
    <3>2. CASE z \in 1..Len(rws) /\ z # n /\ rws[z][w] # 0 /\ nr[z][w] = rws[z][w]
      BY <3>2, <2>1, <1>8
    <3> QED BY <3>1, <3>2, <1>7
  <2>4. CASE x = n \/ y = n BY <2>4, <2>2
  <2>3. CASE x # n /\ y # n
    <3>1. /\ x \in 1..Len(rws) /\ rws[x][t] # 0 /\ nr[x][t] = rws[x][t]
          /\ y \in 1..Len(rws) /\ rws[y][v] # 0 /\ nr[y][v] = rws[y][v]
      BY <2>3, <1>7
    <3>2. x = y <=> lst[t][rws[x][t]].path = lst[v][rws[y][v]].path
      BY <3>1 DEF Sound, OneRowPerPath
    <3>3. nl[t][rws[x][t]].path = lst[t][rws[x][t]].path BY <3>1, <1>8
    <3>4. nl[v][rws[y][v]].path = lst[v][rws[y][v]].path BY <3>1, <1>8
    <3> QED BY <3>1, <3>2, <3>3, <3>4
  <2> QED BY <2>3, <2>4
<1>15. Sound(nl, mp, nr, {r}) BY <1>9, <1>10, <1>11, <1>12, <1>13, <1>14 DEF Sound
<1> QED BY <1>15 DEF nl, nr, mid, n, o

\* Paths, rows and cells are all that counts.
LEMMA SameIndices ==
    ASSUME NEW lst, NEW mp, NEW rws, NEW dead, Sound(lst, mp, rws, dead),
           NEW nl, nl \in [Side -> Seq(Entries)],
           \A t \in Side : Len(nl[t]) = Len(lst[t]),
           \A t \in Side : \A j \in 1..Len(lst[t]) :
              nl[t][j].path = lst[t][j].path /\ nl[t][j].row = lst[t][j].row,
           NEW nr, nr \in Seq(RowsType), Len(nr) = Len(rws),
           \A x \in 1..Len(rws), t \in Side : nr[x][t] = rws[x][t]
    PROVE  Sound(nl, mp, nr, dead)
<1>1. ArraysOK(nl, mp, nr) BY DEF Sound, ArraysOK
<1>2. RowsPoint(nl, nr, dead) BY DEF Sound, RowsPoint
<1>3. EntriesPoint(nl, mp, nr, dead) BY DEF Sound, EntriesPoint
<1>4. MapPoints(nl, mp)
  <2> SUFFICES ASSUME NEW s \in Side, NEW p \in Paths, mp[s][p] # 0
               PROVE  /\ mp[s][p] \in 1..Len(nl[s]) /\ nl[s][mp[s][p]].path = p
                      /\ nl[s][mp[s][p]].row # 0
    BY DEF MapPoints
  <2>1. /\ mp[s][p] \in 1..Len(lst[s]) /\ lst[s][mp[s][p]].path = p
        /\ lst[s][mp[s][p]].row # 0
    BY DEF Sound, MapPoints
  <2> QED BY <2>1
<1>5. NoEmptyRow(nr, dead) BY SideIs DEF Sound, NoEmptyRow
<1>6. OneRowPerPath(nl, nr, dead)
  <2> SUFFICES \A x, y \in (1..Len(nr)) \ dead, t, u \in Side :
                  nr[x][t] # 0 /\ nr[y][u] # 0 =>
                      (x = y <=> nl[t][nr[x][t]].path = nl[u][nr[y][u]].path)
    BY DEF OneRowPerPath
  <2> SUFFICES ASSUME NEW x \in (1..Len(nr)) \ dead, NEW y \in (1..Len(nr)) \ dead,
                      NEW t \in Side, NEW u \in Side, nr[x][t] # 0, nr[y][u] # 0
               PROVE  x = y <=> nl[t][nr[x][t]].path = nl[u][nr[y][u]].path
    OBVIOUS
  <2>0. rws[x][t] # 0 /\ rws[y][u] # 0 /\ nr[x][t] = rws[x][t] /\ nr[y][u] = rws[y][u] OBVIOUS
  <2>1. rws[x][t] \in 1..Len(lst[t]) /\ rws[y][u] \in 1..Len(lst[u])
    BY <2>0 DEF Sound, RowsPoint
  <2>2. x = y <=> lst[t][rws[x][t]].path = lst[u][rws[y][u]].path
    BY <2>0 DEF Sound, OneRowPerPath
  <2>3. nl[t][rws[x][t]].path = lst[t][rws[x][t]].path BY <2>1
  <2>4. nl[u][rws[y][u]].path = lst[u][rws[y][u]].path BY <2>1
  <2> QED BY <2>0, <2>2, <2>3, <2>4
<1> QED BY <1>1, <1>2, <1>3, <1>4, <1>5, <1>6 DEF Sound

-----------------------------------------------------------------------------
(* The messages leave the arrays consistent                                *)

\* The map without x, with it, or as it was: what a message makes of one path.
MapIs(new, old, s, out, in) ==
    \A t \in Side, x \in Paths :
        IF t = s /\ x \in out THEN new[t][x] = 0
        ELSE IF t = s /\ x \in in THEN new[t][x] # 0
        ELSE new[t][x] = old[t][x]

LEMMA ShiftedSame ==
    ASSUME NEW rws, rws \in Seq(RowsType), NEW r \in 1..Len(rws), NEW s \in Side, NEW n \in Nat
    PROVE  Shifted(WithCell(rws, r, s, n), r) = Shifted(rws, r)
<1> DEFINE nr == WithCell(rws, r, s, n)
<1>1. Len(nr) = Len(rws) /\ Len(rws) \in Nat BY SetCell
<1>2. \A x \in 1..Len(rws) : x # r => nr[x] = rws[x] BY DEF WithCell
<1> HIDE DEF nr
<1>3. \A j \in 1..(Len(rws) - 1) :
         (IF j < r THEN nr[j] ELSE nr[j + 1]) = IF j < r THEN rws[j] ELSE rws[j + 1]
  <2> SUFFICES ASSUME NEW j \in 1..(Len(rws) - 1)
               PROVE  (IF j < r THEN nr[j] ELSE nr[j + 1]) = IF j < r THEN rws[j] ELSE rws[j + 1]
    OBVIOUS
  <2>1. CASE j < r
    <3>1. j \in 1..Len(rws) /\ j # r BY <2>1, <1>1
    <3> QED BY <2>1, <3>1, <1>2
  <2>2. CASE ~(j < r)
    <3>1. j + 1 \in 1..Len(rws) /\ j + 1 # r BY <2>2, <1>1
    <3> QED BY <2>2, <3>1, <1>2
  <2> QED BY <2>1, <2>2
<1>4. Shifted(nr, r) = Shifted(rws, r) BY <1>1, <1>3 DEF Shifted
<1> QED BY <1>4 DEF nr

LEMMA TablesTypes ==
    ASSUME TablesSound
    PROVE  /\ list \in [Side -> Seq(Entries)] /\ map \in [Side -> [Paths -> Nat]]
           /\ rows \in Seq(RowsType)
BY DEF TablesSound, Sound, ArraysOK

LEMMA RemoveRowSound ==
    ASSUME TablesSound, NEW s \in Side, NEW p \in Paths, RemoveRow(s, p)
    PROVE  TablesSound' /\ MapIs(map', map, s, {p}, {})
<1> DEFINE i == map[s][p]
           r == list[s][i].row
           lists == WithRow(list, s, i, 0)
<1>1. map \in [Side -> [Paths -> Nat]] /\ rows \in Seq(RowsType) BY TablesTypes
<1>2. CASE i = 0
  <2>1. UNCHANGED tables BY <1>2 DEF RemoveRow
  <2> QED BY <2>1, <1>2 DEF tables, TablesSound, MapIs
<1>3. CASE i # 0
  <2>1. r \in 1..Len(rows) /\ r # 0
    <3>1. r \in 1..Len(rows) BY <1>3, RowOf DEF TablesSound
    <3> QED BY <3>1, <1>1
  <2>2. /\ map' = [map EXCEPT ![s][p] = 0]
        /\ IF rows[r][Other(s)] = 0 THEN DropRow(lists, rows, r)
           ELSE list' = lists /\ rows' = WithCell(rows, r, s, 0)
    BY <1>3, <2>1 DEF RemoveRow, WithRow, WithCell
  <2>3. Sound(lists, map', WithCell(rows, r, s, 0), IF rows[r][Other(s)] = 0 THEN {r} ELSE {})
    BY <1>3, <2>2, DetachSound DEF TablesSound
  <2>4. MapIs(map', map, s, {p}, {}) BY <2>2, <1>1 DEF MapIs
  <2> HIDE DEF i, r, lists
  <2>5. CASE rows[r][Other(s)] = 0
    <3>1. /\ rows' = Shifted(rows, r)
          /\ list' = [t \in Side |-> Following(lists[t], t, Shifted(rows, r), r)]
      BY <2>2, <2>5 DEF DropRow
    <3>2. Shifted(WithCell(rows, r, s, 0), r) = Shifted(rows, r) BY <1>1, <2>1, ShiftedSame
    <3>3. r \in 1..Len(WithCell(rows, r, s, 0)) BY <1>1, <2>1, SetCell
    <3>4. Sound(lists, map', WithCell(rows, r, s, 0), {r}) BY <2>3, <2>5
    <3>5. Sound([t \in Side |-> Following(lists[t], t, Shifted(WithCell(rows, r, s, 0), r), r)], map',
                Shifted(WithCell(rows, r, s, 0), r), {})
      BY <3>3, <3>4, DropSound
    <3>6. Sound(list', map', rows', {}) BY <3>1, <3>2, <3>5
    <3> QED BY <3>6, <2>4 DEF TablesSound
  <2>6. CASE rows[r][Other(s)] # 0
    <3>1. Sound(list', map', rows', {}) BY <2>2, <2>3, <2>6
    <3> QED BY <3>1, <2>4 DEF TablesSound
  <2> QED BY <2>5, <2>6
<1> QED BY <1>2, <1>3

\* A message of a copied path puts the path in, if the file is there and its source shown.
LEMMA TransferRowSound ==
    ASSUME TablesSound, DiskOK, NEW p \in Paths, TransferRow(p)
    PROVE  /\ TablesSound'
           /\ MapIs(map', map, "R", {}, {}) \/ MapIs(map', map, "R", {}, {p})
           /\ map["L"][p] # 0 /\ Exists("R", p) => map'["R"][p] # 0
<1> DEFINE i == map["L"][p]
           r == list["L"][i].row
           old == rows[r]["R"]
           stat == Entry("R", p, r)
<1>1. /\ map \in [Side -> [Paths -> Nat]] /\ rows \in Seq(RowsType)
      /\ list \in [Side -> Seq(Entries)] /\ "L" \in Side /\ "R" \in Side
      /\ Other("R") = "L"
  BY TablesTypes DEF Side, Other
<1>2. CASE i = 0 \/ ~Exists("R", p)
  <2>1. UNCHANGED tables BY <1>2 DEF TransferRow
  <2> QED BY <2>1, <1>2 DEF tables, TablesSound, MapIs
<1>3. CASE i # 0 /\ Exists("R", p)
  <2>1. /\ i \in 1..Len(list["L"]) /\ list["L"][i].path = p
        /\ r \in 1..Len(rows) /\ rows[r]["L"] = i
        /\ \A x \in 1..Len(rows), t \in Side :
              rows[x][t] # 0 => (x = r <=> list[t][rows[x][t]].path = p)
    BY <1>1, <1>3, RowOf DEF TablesSound
  <2>2. r # 0 /\ r \in Nat BY <2>1, <1>1
  <2>3. stat \in Entries /\ stat.path = p /\ stat.row = r
    <3>1. disk["R"][p] \in Ino BY <1>1, <1>3 DEF DiskOK, Exists
    <3>2. Linked("R", p) \in BOOLEAN BY DEF Linked
    <3> HIDE DEF r
    <3> QED BY <3>1, <3>2, <2>2 DEF Entry, Entries
  <2>4. list["L"][i] \in Entries /\ list["L"][i].ignored \in BOOLEAN
    <3>1. list["L"][i] \in Entries BY <2>1, <1>1
    <3> QED BY <3>1 DEF Entries
  <2>5. CASE old # 0
    <3> DEFINE e == [stat EXCEPT !.ignored = list["R"][old].ignored]
    <3>1. /\ list' = [list EXCEPT !["R"][old] = e]
          /\ map' = map /\ rows' = rows
      BY <1>3, <2>2, <2>5 DEF TransferRow
    <3>2. /\ old \in 1..Len(list["R"]) /\ list["R"][old].row = r /\ list["R"][old].path = p
      BY <1>1, <2>1, <2>5 DEF TablesSound, Sound, RowsPoint
    <3>3. map["R"][p] = old
      <4>1. list["R"][old].row # 0 BY <3>2, <2>2
      <4>2. EntriesPoint(list, map, rows, {}) BY DEF TablesSound, Sound
      <4> HIDE DEF old
      <4>3. map["R"][list["R"][old].path] = old BY <4>1, <4>2, <3>2, <1>1 DEF EntriesPoint
      <4> QED BY <4>3, <3>2
    <3>0. list["R"] \in Seq(Entries) BY <1>1
    <3>4. list["R"][old] \in Entries
      <4> HIDE DEF old
      <4> QED BY <3>0, <3>2
    <3>5. e \in Entries /\ e.path = list["R"][old].path /\ e.row = list["R"][old].row
      <4> HIDE DEF stat, old, r
      <4> QED BY <2>3, <3>2, <3>4 DEF Entries
    <3> HIDE DEF e, old, r, i, stat
    <3>6. /\ list' \in [Side -> Seq(Entries)]
          /\ \A t \in Side : Len(list'[t]) = Len(list[t])
          /\ \A t \in Side : \A j \in 1..Len(list[t]) :
                list'[t][j].path = list[t][j].path /\ list'[t][j].row = list[t][j].row
      <4>1. [list["R"] EXCEPT ![old] = e] \in Seq(Entries) BY <3>0, <3>5, <3>2
      <4>2. list' = [list EXCEPT !["R"] = [list["R"] EXCEPT ![old] = e]] BY <3>1
      <4>3. list' \in [Side -> Seq(Entries)] BY <4>1, <4>2, <1>1
      <4>4. \A t \in Side : t # "R" => list'[t] = list[t] BY <4>2, <1>1
      <4>5. /\ Len(list'["R"]) = Len(list["R"])
            /\ \A j \in 1..Len(list["R"]) : list'["R"][j] = IF j = old THEN e ELSE list["R"][j]
        BY <4>2, <1>1
      <4> QED BY <3>5, <4>3, <4>4, <4>5
    <3>7. Sound(list', map, rows, {})
      BY <3>6, <1>1, SameIndices DEF TablesSound
    <3>8. TablesSound' BY <3>7, <3>1 DEF TablesSound
    <3>9. MapIs(map', map, "R", {}, {}) BY <3>1 DEF MapIs
    <3> QED BY <3>1, <3>3, <3>8, <3>9, <2>5 DEF old
  <2>6. CASE old = 0
    \* A listed path of the backup has a row, and no other row has this path.
    <3>1. map["R"][p] = 0
      <4> SUFFICES ASSUME map["R"][p] # 0 PROVE FALSE OBVIOUS
      <4> DEFINE k == map["R"][p]
      <4>1. /\ k \in 1..Len(list["R"]) /\ list["R"][k].path = p
            /\ list["R"][k].row \in 1..Len(rows) /\ rows[list["R"][k].row]["R"] = k
        BY <1>1, RowOf DEF TablesSound
      <4>2. list["R"][k].row = r BY <2>1, <4>1, <1>1
      <4> QED BY <4>1, <4>2, <2>6
    <3> DEFINE e == [stat EXCEPT !.ignored = list["L"][i].ignored]
               new == Len(list["R"]) + 1
    <3>2. /\ list' = WithEntry(list, "R", e)
          /\ map' = WithName(map, "R", p, new)
          /\ rows' = WithCell(rows, r, "R", new)
      BY <1>3, <2>2, <2>6, <3>1 DEF TransferRow, WithEntry, WithCell, WithName
    <3>3. e \in Entries /\ e.path = p /\ e.row = r
      <4> HIDE DEF stat, r, i
      <4> QED BY <2>3, <2>4 DEF Entries
    <3>4. rows[r][Other("R")] # 0 /\ list["L"][rows[r]["L"]].path = p BY <2>1, <1>1, <1>3
    <3> HIDE DEF e, stat, r, i
    <3>5. Sound(list', map', rows', {} \ {r})
      <4>1. Free(list, map, rows, {}, "R", p, r) BY <3>1, <3>4, <2>1, <2>6, <1>1 DEF Free, old, r
      <4> HIDE DEF new
      <4>2. new = Len(list["R"]) + 1 BY DEF new
      <4> QED BY <4>1, <4>2, <3>2, <3>3, <1>1, AttachSound DEF TablesSound
    <3>6. TablesSound'
      <4>1. {} \ {r} = {} OBVIOUS
      <4> QED BY <3>5, <4>1 DEF TablesSound
    <3>7. new # 0
      <4>1. Len(list["R"]) \in Nat BY <1>1
      <4> QED BY <4>1
    <3>8. map'["R"][p] # 0 /\ MapIs(map', map, "R", {}, {p}) BY <3>2, <3>7, <1>1 DEF MapIs, WithName
    <3> QED BY <3>6, <3>8
  <2> QED BY <2>5, <2>6
<1> QED BY <1>2, <1>3

\* Two cells of one row, and of two rows.
LEMMA CellTwice ==
    ASSUME NEW rws, rws \in Seq(RowsType), NEW r \in 1..Len(rws), NEW s \in Side, NEW a \in Nat, NEW b \in Nat
    PROVE  WithCell(WithCell(rws, r, s, a), r, s, b) = WithCell(rws, r, s, b)
<1>1. DOMAIN rws = 1..Len(rws) OBVIOUS
<1>2. rws[r] \in RowsType OBVIOUS
<1>3. [[rws[r] EXCEPT ![s] = a] EXCEPT ![s] = b] = [rws[r] EXCEPT ![s] = b] OBVIOUS
<1>4. WithCell(rws, r, s, a)[r] = [rws[r] EXCEPT ![s] = a] BY <1>1 DEF WithCell
<1>5. WithCell(WithCell(rws, r, s, a), r, s, b) =
         [WithCell(rws, r, s, a) EXCEPT ![r] = [[rws[r] EXCEPT ![s] = a] EXCEPT ![s] = b]]
  BY <1>4 DEF WithCell
<1>6. [WithCell(rws, r, s, a) EXCEPT ![r] = [rws[r] EXCEPT ![s] = b]] =
         [rws EXCEPT ![r] = [rws[r] EXCEPT ![s] = b]]
  BY <1>1 DEF WithCell
<1> QED BY <1>3, <1>5, <1>6 DEF WithCell

LEMMA CellsCommute ==
    ASSUME NEW rws, rws \in Seq(RowsType), NEW r \in 1..Len(rws), NEW m \in 1..Len(rws), r # m,
           NEW s \in Side, NEW a \in Nat, NEW b \in Nat
    PROVE  WithCell(WithCell(rws, r, s, a), m, s, b) = WithCell(WithCell(rws, m, s, b), r, s, a)
<1>1. DOMAIN rws = 1..Len(rws) OBVIOUS
<1> DEFINE rm == [rws[m] EXCEPT ![s] = b]
           rr == [rws[r] EXCEPT ![s] = a]
<1>2. WithCell(WithCell(rws, r, s, a), m, s, b) = [[rws EXCEPT ![r] = rr] EXCEPT ![m] = rm]
  BY <1>1 DEF WithCell
<1>3. WithCell(WithCell(rws, m, s, b), r, s, a) = [[rws EXCEPT ![m] = rm] EXCEPT ![r] = rr]
  BY <1>1 DEF WithCell
<1> HIDE DEF rm, rr
<1>4. [[rws EXCEPT ![r] = rr] EXCEPT ![m] = rm] = [[rws EXCEPT ![m] = rm] EXCEPT ![r] = rr]
  BY <1>1
<1> QED BY <1>2, <1>3, <1>4

LEMMA SplitRow ==
    ASSUME NEW rws, rws \in Seq(RowsType), NEW r \in 1..Len(rws), NEW s \in Side, NEW u \in Side, u # s,
           NEW n \in Nat, NEW row \in RowsType
    PROVE  WithCell(Append(WithCell(WithCell(rws, r, s, 0), r, u, 0), row), r, s, n) =
           Append(WithCell(WithCell(rws, r, s, n), r, u, 0), row)
<1> DEFINE mid == WithCell(WithCell(rws, r, s, 0), r, u, 0)
           end == WithCell(WithCell(rws, r, s, n), r, u, 0)
           old == rws[r]
           two == [[[old EXCEPT ![s] = 0] EXCEPT ![u] = 0] EXCEPT ![s] = n]
           one == [[old EXCEPT ![s] = n] EXCEPT ![u] = 0]
<1>1. DOMAIN rws = 1..Len(rws) /\ Len(rws) \in Nat OBVIOUS
<1>2. old \in RowsType OBVIOUS
<1>3. mid = [rws EXCEPT ![r] = [[old EXCEPT ![s] = 0] EXCEPT ![u] = 0]] BY <1>1 DEF WithCell
<1>4. end = [rws EXCEPT ![r] = one] BY <1>1 DEF WithCell
<1>5. two = one
  <2> HIDE DEF old
  <2> QED BY <1>2
<1>6. [[old EXCEPT ![s] = 0] EXCEPT ![u] = 0] \in RowsType /\ one \in RowsType
  <2> HIDE DEF old
  <2>1. \A x \in RowsType, t \in Side, k \in Nat : [x EXCEPT ![t] = k] \in RowsType BY RowCells
  <2> QED BY <2>1, <1>2
<1> DEFINE a == [[old EXCEPT ![s] = 0] EXCEPT ![u] = 0]
<1>7. two = [a EXCEPT ![s] = n] OBVIOUS
<1> HIDE DEF old, one, two, a, end, mid
<1>8. mid = [rws EXCEPT ![r] = a] BY <1>3 DEF a
<1>9. mid \in Seq(RowsType) /\ Len(mid) = Len(rws) /\ mid[r] = a
      /\ \A x \in 1..Len(rws) : x # r => mid[x] = rws[x]
  BY <1>1, <1>6, <1>8 DEF a
<1>10. end \in Seq(RowsType) /\ Len(end) = Len(rws) /\ end[r] = one
       /\ \A x \in 1..Len(rws) : x # r => end[x] = rws[x]
  BY <1>1, <1>4, <1>6
<1> DEFINE am == Append(mid, row)
           ae == Append(end, row)
<1>11. /\ am \in Seq(RowsType) /\ Len(am) = Len(rws) + 1 /\ am[Len(rws) + 1] = row
       /\ \A x \in 1..Len(rws) : am[x] = mid[x]
  BY <1>9, AppendRow
<1>12. /\ ae \in Seq(RowsType) /\ Len(ae) = Len(rws) + 1 /\ ae[Len(rws) + 1] = row
       /\ \A x \in 1..Len(rws) : ae[x] = end[x]
  BY <1>10, AppendRow
<1> HIDE DEF am, ae
<1>13. WithCell(am, r, s, n) = [am EXCEPT ![r] = one] BY <1>5, <1>7, <1>9, <1>11 DEF WithCell
<1> DEFINE w == [am EXCEPT ![r] = one]
<1>14. w \in Seq(RowsType) /\ Len(w) = Len(rws) + 1
       /\ \A x \in 1..(Len(rws) + 1) : w[x] = IF x = r THEN one ELSE am[x]
  BY <1>1, <1>6, <1>11
<1> HIDE DEF w
<1>15. \A x \in 1..(Len(rws) + 1) : w[x] = ae[x]
  <2> SUFFICES ASSUME NEW x \in 1..(Len(rws) + 1) PROVE w[x] = ae[x] OBVIOUS
  <2>1. CASE x = Len(rws) + 1 BY <2>1, <1>1, <1>11, <1>12, <1>14
  <2>2. CASE x # Len(rws) + 1
    <3>1. x \in 1..Len(rws) BY <2>2, <1>1
    <3> QED BY <3>1, <1>9, <1>10, <1>11, <1>12, <1>14
  <2> QED BY <2>1, <2>2
<1>16. w = ae BY <1>12, <1>14, <1>15
<1> QED BY <1>13, <1>16 DEF w, am, ae, mid, end

LEMMA EntryThenRow ==
    ASSUME NEW lst, lst \in [Side -> Seq(Entries)], NEW s \in Side, NEW u \in Side, u # s,
           NEW i, NEW n \in Nat, NEW e
    PROVE  WithRow(WithEntry(lst, s, e), u, i, n) = WithEntry(WithRow(lst, u, i, n), s, e)
BY DEF WithEntry, WithRow

\* The row of the other side that has the new name, if there is one, lacks this side.
LEMMA PartnerIs ==
    ASSUME TablesSound, NEW s \in Side, NEW p \in Paths, NEW q \in Paths, p # q,
           map[s][p] # 0, map[s][q] = 0
    PROVE  LET r == list[s][map[s][p]].row
               m == Partner(s, q)
           IN  /\ r \in 1..Len(rows) /\ r # 0 /\ rows[r][s] = map[s][p]
               /\ m = 0 <=> map[Other(s)][q] = 0
               /\ m # 0 => /\ m \in 1..Len(rows) /\ m # r /\ rows[m][s] = 0
                           /\ rows[m][Other(s)] # 0
                           /\ list[Other(s)][rows[m][Other(s)]].path = q
<1> DEFINE r == list[s][map[s][p]].row
           m == Partner(s, q)
           k == map[Other(s)][q]
<1>1. rows \in Seq(RowsType) /\ Other(s) \in Side /\ Other(s) # s BY SideIs, TablesTypes
<1>2. /\ r \in 1..Len(rows) /\ rows[r][s] = map[s][p]
      /\ \A x \in 1..Len(rows), t \in Side :
            rows[x][t] # 0 => (x = r <=> list[t][rows[x][t]].path = p)
  BY RowOf DEF TablesSound
<1>3. CASE k = 0
  <2>1. m = 0 BY <1>3 DEF Partner
  <2> QED BY <1>1, <1>2, <1>3, <2>1
<1>4. CASE k # 0
  <2>1. m = list[Other(s)][k].row BY <1>4 DEF Partner
  <2>2. /\ list[Other(s)][k].path = q
        /\ m \in 1..Len(rows) /\ rows[m][Other(s)] = k
        /\ \A x \in 1..Len(rows), t \in Side :
              rows[x][t] # 0 => (x = m <=> list[t][rows[x][t]].path = q)
    BY <1>1, <1>4, <2>1, RowOf DEF TablesSound
  <2> HIDE DEF m, k, r
  <2>3. m # r BY <1>1, <1>2, <1>4, <2>2
  <2>4. rows[m][s] = 0
    <3> SUFFICES ASSUME rows[m][s] # 0 PROVE FALSE OBVIOUS
    <3> DEFINE j == rows[m][s]
    <3>1. list[s][j].path = q BY <2>2
    <3>2. j \in 1..Len(list[s]) /\ list[s][j].row = m
      BY <2>2 DEF TablesSound, Sound, RowsPoint
    <3>3. list[s][j].row # 0 BY <3>2, <2>2, <1>1
    <3>4. map[s][q] = j BY <3>1, <3>2, <3>3 DEF TablesSound, Sound, EntriesPoint
    <3> QED BY <3>4
  <2> QED BY <1>1, <1>2, <1>4, <2>2, <2>3, <2>4 DEF m, k, r
<1> QED BY <1>3, <1>4

\* An entry gets a new name that is free, with the row of that name if the other side has
\* one.
LEMMA RenameRowSound ==
    ASSUME TablesSound, NEW s \in Side, NEW p \in Paths, NEW q \in Paths, p # q,
           map[s][q] = 0, RenameRow(s, p, q)
    PROVE  /\ TablesSound'
           /\ map[s][p] = 0 => MapIs(map', map, s, {}, {})
           /\ map[s][p] # 0 => MapIs(map', map, s, {p}, {q})
<1> DEFINE i == map[s][p]
           r == list[s][i].row
           O == Other(s)
           o == rows[r][O]
           m == Partner(s, q)
           new == Len(list[s]) + 1
           nl == WithRow(list, s, i, 0)
           nm == [map EXCEPT ![s][p] = 0]
           nr == WithCell(rows, r, s, 0)
           e(row) == [list[s][i] EXCEPT !.path = q, !.ignored = Matched(q), !.row = row]
           to(row) == WithEntry(nl, s, e(row))
<1>1. /\ map \in [Side -> [Paths -> Nat]] /\ rows \in Seq(RowsType)
      /\ list \in [Side -> Seq(Entries)] /\ O \in Side /\ O # s /\ Other(O) = s
      /\ Len(rows) \in Nat
  <2>1. rows \in Seq(RowsType) BY TablesTypes
  <2> QED BY <2>1, TablesTypes, SideIs
<1>2. CASE i = 0
  <2>1. UNCHANGED tables BY <1>2 DEF RenameRow
  <2> QED BY <2>1, <1>2 DEF tables, TablesSound, MapIs
<1>3. CASE i # 0
  <2>1. /\ r \in 1..Len(rows) /\ r # 0 /\ rows[r][s] = i
        /\ m = 0 <=> map[O][q] = 0
        /\ m # 0 => /\ m \in 1..Len(rows) /\ m # r /\ rows[m][s] = 0 /\ rows[m][O] # 0
                    /\ list[O][rows[m][O]].path = q
    BY <1>3, PartnerIs
  <2>2. /\ i \in 1..Len(list[s]) /\ new \in Nat /\ new # 0
        /\ list[s][i] \in Entries
    <3>1. i \in 1..Len(list[s]) BY <1>3, RowOf DEF TablesSound
    <3>2. list[s] \in Seq(Entries) BY <1>1
    <3>3. Len(list[s]) \in Nat BY <3>2
    <3> HIDE DEF i
    <3> QED BY <3>1, <3>2, <3>3
  <2>3. \A row \in Nat : e(row) \in Entries /\ e(row).path = q /\ e(row).row = row
    <3>1. Matched(q) \in BOOLEAN BY DEF Matched
    <3> HIDE DEF i
    <3> QED BY <2>2, <3>1 DEF Entries
  <2>4. Sound(nl, nm, nr, IF o = 0 THEN {r} ELSE {})
    BY <1>3, DetachSound DEF TablesSound
  <2>5. /\ nl \in [Side -> Seq(Entries)] /\ Len(nl[s]) + 1 = new
        /\ \A t \in Side : Len(nl[t]) = Len(list[t])
        /\ \A t \in Side : \A j \in 1..Len(list[t]) : nl[t][j].path = list[t][j].path
    <3> HIDE DEF i
    <3>1. OnlyRow(nl, list, s, i, 0) BY <2>2, <1>1, SetRow
    <3> HIDE DEF nl
    <3> QED BY <3>1 DEF OnlyRow
  <2>6. /\ nr \in Seq(RowsType) /\ Len(nr) = Len(rows)
        /\ \A x \in 1..Len(rows), t \in Side : nr[x][t] = IF x = r /\ t = s THEN 0 ELSE rows[x][t]
    <3> HIDE DEF r
    <3> QED BY <2>1, <1>1, SetCell, 0 \in Nat
  <2>7. /\ map' = WithName(nm, s, q, new)
        /\ nm[s][q] = 0 /\ nm[O][q] = map[O][q]
    <3>1. map' = [map EXCEPT ![s][p] = 0, ![s][q] = IF map[s][q] = 0 THEN new ELSE map[s][q]]
      BY <1>3, <2>1 DEF RenameRow
    <3> HIDE DEF new, i
    <3>2. map' = [map EXCEPT ![s][p] = 0, ![s][q] = new] BY <3>1
    <3>3. [map EXCEPT ![s][p] = 0, ![s][q] = new] = [nm EXCEPT ![s][q] = new] BY <1>1
    <3> QED BY <3>2, <3>3, <1>1 DEF WithName
  <2>8. MapIs(map', map, s, {p}, {q})
    <3> HIDE DEF new
    <3> QED BY <2>7, <2>2, <1>1 DEF MapIs, WithName
  <2>9. IF m # 0 /\ o # 0
        THEN rows' = WithCell(WithCell(rows, m, s, new), r, s, 0) /\ list' = to(m)
        ELSE IF m # 0
        THEN DropRow(to(m), WithCell(rows, m, s, new), r)
        ELSE IF o # 0
        THEN /\ rows' = Append(WithCell(WithCell(rows, r, s, new), r, O, 0),
                               [rows[r] EXCEPT ![s] = 0, !.selected = FALSE])
             /\ list' = WithRow(to(r), O, o, Len(rows) + 1)
        ELSE rows' = WithCell(rows, r, s, new) /\ list' = to(r)
    <3>1. \A row : to(row) = [list EXCEPT ![s] = Append([list[s] EXCEPT ![i].row = 0], e(row))]
      BY <1>1 DEF WithEntry, WithRow
    <3> HIDE DEF to, e, nl, nm, nr
    <3> QED BY <1>3, <2>1, <3>1 DEF RenameRow, WithCell, WithRow, e
  <2> HIDE DEF i, r, O, o, m, new, nl, nm, nr, e, to
  <2>10. /\ \A row \in Nat : to(row) = WithEntry(nl, s, e(row))
         /\ O = Other(s) /\ o = rows[r][O] /\ nr = WithCell(rows, r, s, 0)
    BY DEF to, O, o, nr
  <2>11. CASE m # 0
    <3>1. /\ m \in 1..Len(nr) /\ e(m) \in Entries /\ e(m).path = q /\ e(m).row = m
          /\ nr[m][s] = 0 /\ nr[m][O] = rows[m][O] /\ nr[m][O] # 0
      BY <2>11, <2>1, <2>3, <2>6, <1>1
    <3>2. nl[O][nr[m][O]].path = q
      <4>1. rows[m][O] \in 1..Len(list[O])
        BY <2>11, <2>1, <1>1 DEF TablesSound, Sound, RowsPoint
      <4> QED BY <4>1, <3>1, <2>1, <2>5, <2>11, <1>1
    <3>3. WithCell(WithCell(rows, r, s, 0), m, s, new) = WithCell(WithCell(rows, m, s, new), r, s, 0)
      BY <2>1, <2>2, <2>11, <1>1, CellsCommute, 0 \in Nat
    <3>6. to(m) = WithEntry(nl, s, e(m))
      <4>1. m \in Nat BY <2>1, <2>11, <1>1
      <4> QED BY <4>1, <2>10
    <3>4. CASE o # 0
      <4>1. Sound(nl, nm, nr, {}) BY <2>4, <3>4
      <4>2. Sound(to(m), map', WithCell(nr, m, s, new), {} \ {m})
        <5>1. Free(nl, nm, nr, {}, s, q, m) BY <3>1, <3>2, <2>7, <2>10 DEF Free
        <5>2. Sound(WithEntry(nl, s, e(m)), WithName(nm, s, q, new), WithCell(nr, m, s, new), {} \ {m})
          BY <5>1, <4>1, <3>1, <2>5, AttachSound
        <5> QED BY <5>2, <3>6, <2>7
      <4>3. {} \ {m} = {} OBVIOUS
      <4>4. rows' = WithCell(nr, m, s, new) /\ list' = to(m)
        BY <2>9, <2>10, <2>11, <3>3, <3>4
      <4> QED BY <4>2, <4>3, <4>4, <2>8, <1>3 DEF TablesSound, i
    <3>5. CASE o = 0
      <4>1. Sound(nl, nm, nr, {r}) BY <2>4, <3>5
      <4>2. m \notin {r} BY <2>1, <2>11
      <4>3. Sound(to(m), map', WithCell(nr, m, s, new), {r} \ {m})
        <5>1. Free(nl, nm, nr, {r}, s, q, m) BY <4>2, <3>1, <3>2, <2>7, <2>10 DEF Free
        <5>2. Sound(WithEntry(nl, s, e(m)), WithName(nm, s, q, new), WithCell(nr, m, s, new), {r} \ {m})
          BY <5>1, <4>1, <3>1, <2>5, AttachSound
        <5> QED BY <5>2, <3>6, <2>7
      <4>4. {r} \ {m} = {r} BY <4>2
      <4> DEFINE wr == WithCell(nr, m, s, new)
      <4>5. r \in 1..Len(wr) BY <3>1, <2>1, <2>2, <2>6, SetCell
      <4>6. Sound([t \in Side |-> Following(to(m)[t], t, Shifted(wr, r), r)], map', Shifted(wr, r), {})
        <5> HIDE DEF wr
        <5>1. Sound(to(m), map', wr, {r}) BY <4>3, <4>4 DEF wr
        <5> QED BY <5>1, <4>5, DropSound
      <4>7. Shifted(wr, r) = Shifted(WithCell(rows, m, s, new), r)
        <5>1. wr = WithCell(WithCell(rows, m, s, new), r, s, 0) BY <3>3, <2>10
        <5>2. WithCell(rows, m, s, new) \in Seq(RowsType) /\ r \in 1..Len(WithCell(rows, m, s, new))
          BY <2>1, <2>2, <2>11, <1>1, SetCell
        <5> HIDE DEF wr
        <5> QED BY <5>1, <5>2, ShiftedSame, 0 \in Nat
      <4>8. /\ rows' = Shifted(WithCell(rows, m, s, new), r)
            /\ list' = [t \in Side |-> Following(to(m)[t], t, Shifted(WithCell(rows, m, s, new), r), r)]
        BY <2>9, <2>11, <3>5 DEF DropRow
      <4> HIDE DEF wr
      <4>9. Sound(list', map', rows', {}) BY <4>6, <4>7, <4>8
      <4> QED BY <4>9, <2>8, <1>3 DEF TablesSound, i
    <3> QED BY <3>4, <3>5
  <2>12. CASE m = 0 /\ o # 0
    <3> DEFINE row == [rows[r] EXCEPT ![s] = 0, !.selected = FALSE]
               n == Len(rows) + 1
               ml == WithRow(nl, O, o, n)
               mr == Append(WithCell(nr, r, O, 0), row)
    <3>1. Sound(nl, nm, nr, {}) BY <2>4, <2>12
    <3>2. row \in RowsType /\ row[O] = o /\ row[s] = 0
      <4>1. rows[r] \in RowsType BY <2>1, <1>1
      <4>2. CASE s = "L" BY <4>1, <4>2, <2>10 DEF RowsType, Other
      <4>3. CASE s = "R" BY <4>1, <4>3, <2>10 DEF RowsType, Other
      <4> QED BY <4>2, <4>3 DEF Side
    <3>3. nr[r][O] = o /\ nr[r][s] = 0 /\ r \in 1..Len(nr) BY <2>1, <2>6, <2>10, <1>1
    <3> HIDE DEF row
    <3>4. Sound(ml, nm, mr, {r})
      BY <3>1, <3>2, <3>3, <2>6, <2>12, <1>1, MoveSound
    <3>5. /\ e(r) \in Entries /\ e(r).path = q /\ e(r).row = r
          /\ nm[s][q] = 0 /\ nm[O][q] = 0
      BY <2>1, <2>3, <2>7, <2>12, <1>1
    <3>6. /\ r \in 1..Len(mr) /\ mr[r][s] = 0 /\ mr[r][O] = 0 /\ Len(ml[s]) + 1 = new
      <4>1. /\ WithCell(nr, r, O, 0) \in Seq(RowsType) /\ Len(WithCell(nr, r, O, 0)) = Len(rows)
            /\ WithCell(nr, r, O, 0)[r][s] = 0 /\ WithCell(nr, r, O, 0)[r][O] = 0
        BY <3>3, <2>6, <1>1, SetCell, 0 \in Nat
      <4>2. /\ Len(mr) = Len(rows) + 1
            /\ mr[r] = WithCell(nr, r, O, 0)[r]
        BY <4>1, <3>2, <2>1, AppendRow
      <4>3. o \in 1..Len(nl[O]) BY <3>1, <3>3, <2>12, <1>1 DEF Sound, RowsPoint
      <4>4. OnlyRow(ml, nl, O, o, n)
        <5>1. n \in Nat BY <1>1
        <5> HIDE DEF n
        <5> QED BY <5>1, <4>3, <2>5, <1>1, SetRow
      <4>5. Len(ml[s]) = Len(nl[s]) BY <4>4 DEF OnlyRow
      <4> HIDE DEF mr, ml
      <4> QED BY <4>1, <4>2, <4>5, <2>1, <2>5, <1>1
    <3> HIDE DEF ml, mr, n
    <3>7. Sound(WithEntry(ml, s, e(r)), map', WithCell(mr, r, s, new), {r} \ {r})
      <4>1. Free(ml, nm, mr, {r}, s, q, r) BY <3>5, <3>6, <2>10 DEF Free
      <4> QED BY <4>1, <3>4, <3>5, <3>6, <2>7, AttachSound
    <3>8. {r} \ {r} = {} OBVIOUS
    <3>9. list' = WithEntry(ml, s, e(r))
      <4>0. r \in Nat BY <2>1, <1>1
      <4>1. list' = WithRow(WithEntry(nl, s, e(r)), O, o, n)
        BY <4>0, <2>9, <2>10, <2>12 DEF n
      <4>2. n \in Nat BY <1>1 DEF n
      <4>3. WithRow(WithEntry(nl, s, e(r)), O, o, n) = WithEntry(WithRow(nl, O, o, n), s, e(r))
        <5>1. nl \in [Side -> Seq(Entries)] /\ O \in Side /\ O # s BY <2>5, <1>1
        <5> QED BY ONLY <5>1, <4>2, s \in Side, EntryThenRow
      <4> QED BY <4>1, <4>3 DEF ml
    <3>10. rows' = WithCell(mr, r, s, new)
      <4>1. rows' = Append(WithCell(WithCell(rows, r, s, new), r, O, 0), row)
        BY <2>9, <2>12 DEF row
      <4> QED BY <4>1, <3>2, <2>1, <2>2, <2>10, <1>1, SplitRow, SMTT(30) DEF mr
    <3>11. Sound(list', map', rows', {}) BY <3>7, <3>8, <3>9, <3>10
    <3> QED BY <3>11, <2>8, <1>3 DEF TablesSound, i
  <2>13. CASE m = 0 /\ o = 0
    <3>1. Sound(nl, nm, nr, {r}) BY <2>4, <2>13
    <3>2. /\ e(r) \in Entries /\ e(r).path = q /\ e(r).row = r
          /\ nm[s][q] = 0 /\ nm[O][q] = 0
          /\ to(r) = WithEntry(nl, s, e(r))
      <4>1. r \in Nat BY <2>1, <1>1
      <4> QED BY <4>1, <2>1, <2>3, <2>7, <2>10, <2>13
    <3>3. Sound(to(r), map', WithCell(nr, r, s, new), {r} \ {r})
      <4>1. r \in 1..Len(nr) /\ nr[r][s] = 0 /\ nr[r][O] = 0
        BY <2>1, <2>6, <2>10, <2>13, <1>1
      <4>2. Free(nl, nm, nr, {r}, s, q, r) BY <4>1, <3>2, <2>10 DEF Free
      <4>3. Sound(WithEntry(nl, s, e(r)), WithName(nm, s, q, new), WithCell(nr, r, s, new), {r} \ {r})
        BY <4>2, <3>1, <3>2, <2>5, AttachSound
      <4> QED BY <4>3, <3>2, <2>7
    <3>4. {r} \ {r} = {} OBVIOUS
    <3>5. WithCell(nr, r, s, new) = WithCell(rows, r, s, new)
      BY <2>1, <2>2, <2>10, <1>1, CellTwice, 0 \in Nat
    <3>6. Sound(list', map', rows', {}) BY <3>3, <3>4, <3>5, <2>9, <2>13
    <3> QED BY <3>6, <2>8, <1>3 DEF TablesSound, i
  <2> QED BY <2>11, <2>12, <2>13
<1> QED BY <1>2, <1>3

-----------------------------------------------------------------------------
(* Patterns and the selection change no index                              *)

LEMMA IgnoreRowsSound ==
    ASSUME TablesSound, IgnoreRows
    PROVE  TablesSound' /\ map' = map
<1> DEFINE hit == {r \in DOMAIN rows : PathOf(r) \in rules[Len(rules)]}
           kept(s) == [i \in DOMAIN list[s] |->
               IF list[s][i].row \in hit THEN [list[s][i] EXCEPT !.ignored = TRUE] ELSE list[s][i]]
<1>1. list' = [s \in Side |-> kept(s)] /\ map' = map /\ rows' = rows BY DEF IgnoreRows
<1>2. /\ list \in [Side -> Seq(Entries)] /\ rows \in Seq(RowsType) BY TablesTypes
<1> HIDE DEF hit
<1>3. ASSUME NEW s \in Side
      PROVE  /\ kept(s) \in Seq(Entries) /\ Len(kept(s)) = Len(list[s])
             /\ \A i \in 1..Len(list[s]) :
                   kept(s)[i].path = list[s][i].path /\ kept(s)[i].row = list[s][i].row
  <2>1. list[s] \in Seq(Entries) BY <1>2
  <2>2. \A i \in 1..Len(list[s]) : list[s][i] \in Entries BY <2>1
  <2>3. \A i \in 1..Len(list[s]) : [list[s][i] EXCEPT !.ignored = TRUE] \in Entries
    BY <2>2 DEF Entries
  <2>4. DOMAIN list[s] = 1..Len(list[s]) /\ Len(list[s]) \in Nat BY <2>1
  <2>5. \A i \in 1..Len(list[s]) : kept(s)[i] \in Entries BY <2>2, <2>3, <2>4
  <2>6. kept(s) \in [1..Len(list[s]) -> Entries] BY <2>4, <2>5
  <2>7. kept(s) \in Seq(Entries) /\ Len(kept(s)) = Len(list[s]) BY <2>4, <2>6
  <2>8. \A i \in 1..Len(list[s]) :
           kept(s)[i].path = list[s][i].path /\ kept(s)[i].row = list[s][i].row
    BY <2>2, <2>4 DEF Entries
  <2> QED BY <2>7, <2>8
<1> HIDE DEF kept
<1>4. Sound(list', map, rows', {}) BY <1>1, <1>2, <1>3, SameIndices DEF TablesSound
<1> QED BY <1>1, <1>4 DEF TablesSound

LEMMA SelectSound ==
    ASSUME TablesSound, NEW r \in DOMAIN rows, Select(r)
    PROVE  TablesSound'
<1> DEFINE takes(x) == x = r \/ (PathOf(r) \in Dirs /\ In(PathOf(x), PathOf(r)))
           drops(x) == rows[r].selected /\ In(PathOf(r), PathOf(x))
<1>1. /\ rows' = [x \in DOMAIN rows |->
             IF takes(x) THEN [rows[x] EXCEPT !.selected = ~rows[r].selected]
             ELSE IF drops(x) THEN [rows[x] EXCEPT !.selected = FALSE] ELSE rows[x]]
      /\ list' = list /\ map' = map
  BY DEF Select
<1>2. list \in [Side -> Seq(Entries)] /\ rows \in Seq(RowsType) BY TablesTypes
<1>3. DOMAIN rows = 1..Len(rows) /\ Len(rows) \in Nat BY <1>2
<1>4. ASSUME NEW x \in 1..Len(rows), NEW b \in BOOLEAN
      PROVE  /\ [rows[x] EXCEPT !.selected = b] \in RowsType
             /\ \A s \in Side : [rows[x] EXCEPT !.selected = b][s] = rows[x][s]
  <2>1. rows[x] \in RowsType BY <1>2
  <2> QED BY <2>1 DEF RowsType, Side
<1>5. (~rows[r].selected) \in BOOLEAN
  <2>1. rows[r] \in RowsType BY <1>2, <1>3
  <2> QED BY <2>1 DEF RowsType
<1> HIDE DEF takes, drops
<1>6. \A x \in 1..Len(rows) :
         /\ rows'[x] \in RowsType
         /\ \A s \in Side : rows'[x][s] = rows[x][s]
  <2> SUFFICES ASSUME NEW x \in 1..Len(rows)
               PROVE  rows'[x] \in RowsType /\ \A s \in Side : rows'[x][s] = rows[x][s]
    OBVIOUS
  <2>1. CASE takes(x) BY <2>1, <1>1, <1>3, <1>4, <1>5
  <2>2. CASE ~takes(x) /\ drops(x) BY <2>2, <1>1, <1>3, <1>4
  <2>3. CASE ~takes(x) /\ ~drops(x)
    <3>1. rows'[x] = rows[x] BY <2>3, <1>1, <1>3
    <3> QED BY <3>1, <1>2
  <2> QED BY <2>1, <2>2, <2>3
<1>7. rows' \in Seq(RowsType) /\ Len(rows') = Len(rows)
  <2>1. DOMAIN rows' = 1..Len(rows) BY <1>1, <1>3
  <2>2. rows' \in [1..Len(rows) -> RowsType] BY <1>1, <1>3, <1>6
  <2> QED BY <2>1, <2>2, <1>3
<1>8. Sound(list, map, rows', {}) BY <1>2, <1>6, <1>7, SameIndices DEF TablesSound
<1> QED BY <1>1, <1>8 DEF TablesSound

-----------------------------------------------------------------------------
(* What the analysis leaves is consistent                                  *)

LEMMA EnumerationIs ==
    ASSUME NEW S, IsFiniteSet(S)
    PROVE  /\ Cardinality(S) \in Nat
           /\ Enumeration(S) \in [1..Cardinality(S) -> S]
           /\ \A i, j \in 1..Cardinality(S) : Enumeration(S)[i] = Enumeration(S)[j] => i = j
           /\ \A x \in S : \E i \in 1..Cardinality(S) : Enumeration(S)[i] = x
<1> DEFINE n == Cardinality(S)
           P(f) == \A i, j \in DOMAIN f : f[i] = f[j] => i = j
           E == Enumeration(S)
<1>1. n \in Nat /\ ExistsBijection(1..n, S) BY FS_CardinalityType
<1>2. PICK b \in Bijection(1..n, S) : TRUE BY <1>1 DEF ExistsBijection
<1>3. b \in [1..n -> S] /\ P(b)
  BY <1>2 DEF Bijection, Injection, IsInjective
<1>4. E \in [1..n -> S] /\ P(E)
  BY <1>3 DEF Enumeration
<1> HIDE DEF E
<1>5. E \in Injection(1..n, S) BY <1>4 DEF Injection, IsInjective
<1>6. ASSUME NEW x \in S PROVE \E i \in 1..n : E[i] = x
  <2>1. IsFiniteSet(1..n) /\ Cardinality(1..n) = n BY <1>1, FS_Interval
  <2>2. E \in Surjection(1..n, S) BY <2>1, <1>5, FS_Injection
  <2> QED BY <2>2 DEF Surjection
<1>7. \A i, j \in 1..n : E[i] = E[j] => i = j BY <1>4
<1> QED BY <1>1, <1>4, <1>6, <1>7 DEF E

\* f lists every member of S once.
Indexed(f, S) ==
    /\ Cardinality(S) \in Nat /\ f \in [1..Cardinality(S) -> S]
    /\ \A i, j \in 1..Cardinality(S) : f[i] = f[j] => i = j
    /\ \A x \in S : \E i \in 1..Cardinality(S) : f[i] = x

LEMMA IndexOfIs ==
    ASSUME NEW S, NEW f, Indexed(f, S)
    PROVE  /\ \A p : IndexOf(f, p) \in Nat
           /\ \A p : IndexOf(f, p) # 0 => p \in S
           /\ \A p \in S : IndexOf(f, p) \in 1..Cardinality(S) /\ f[IndexOf(f, p)] = p
           /\ \A p \in S : IndexOf(f, p) # 0
           /\ \A i \in 1..Cardinality(S) : f[i] \in S /\ IndexOf(f, f[i]) = i
<1>1. DOMAIN f = 1..Cardinality(S) /\ Cardinality(S) \in Nat /\ \A i \in DOMAIN f : f[i] \in S
  BY DEF Indexed
<1>2. ASSUME NEW p \in S PROVE IndexOf(f, p) \in 1..Cardinality(S) /\ f[IndexOf(f, p)] = p
  <2>1. \E i \in DOMAIN f : f[i] = p BY <1>1 DEF Indexed
  <2> QED BY <2>1, <1>1 DEF IndexOf
<1>3. ASSUME NEW p, p \notin S PROVE IndexOf(f, p) = 0
  BY <1>1, <1>3 DEF IndexOf
<1>4. ASSUME NEW i \in 1..Cardinality(S) PROVE f[i] \in S /\ IndexOf(f, f[i]) = i
  <2>1. f[i] \in S BY <1>1
  <2>2. IndexOf(f, f[i]) \in 1..Cardinality(S) /\ f[IndexOf(f, f[i])] = f[i] BY <2>1, <1>2
  <2> QED BY <2>1, <2>2 DEF Indexed
<1>5. \A i \in 1..Cardinality(S) : i \in Nat /\ i # 0 BY <1>1
<1> QED BY <1>2, <1>3, <1>4, <1>5

LEMMA TreesAre ==
    ASSUME NEW t \in Trees
    PROVE  /\ t = [s \in Side |-> t[s]]
           /\ \A s \in Side :
                 /\ DOMAIN t[s] \subseteq Paths /\ IsFiniteSet(DOMAIN t[s])
                 /\ \A p \in DOMAIN t[s] : t[s][p] \in Ino
                 /\ \A p \in DOMAIN t[s] : \A n \in 1..Len(p) : SubSeq(p, 1, n) \in DOMAIN t[s]
<1>1. \A s \in Side : DOMAIN t[s] \subseteq Paths BY RowAssumption
<1>2. IsFiniteSet(Paths) BY RowAssumption
<1>3. \A s \in Side : IsFiniteSet(DOMAIN t[s]) BY <1>1, <1>2, FS_Subset
<1>4. \A s \in Side : \A p \in DOMAIN t[s] : t[s][p] \in Ino BY RowAssumption DEF Ino
<1>5. t = [s \in Side |-> t[s]]
  <2>1. t = [s \in Side |-> [p \in DOMAIN t[s] |-> t[s][p]]] BY RowAssumption
  <2>2. DOMAIN t = Side BY <2>1
  <2>3. \A s \in Side : t[s] = [p \in DOMAIN t[s] |-> t[s][p]] BY <2>1
  <2> QED BY <2>1, <2>3
<1>6. \A s \in Side : \A p \in DOMAIN t[s] : \A n \in 1..Len(p) : SubSeq(p, 1, n) \in DOMAIN t[s]
  BY RowAssumption
<1> QED BY <1>1, <1>3, <1>4, <1>5, <1>6

LEMMA InitTables ==
    ASSUME Init, ReadAll
    PROVE  /\ DiskOK
           /\ \E at, row :
                 /\ \A s \in Side : Indexed(at[s], DOMAIN disk[s])
                 /\ Indexed(row, DOMAIN disk["L"] \cup DOMAIN disk["R"])
                 /\ list = [s \in Side |-> [i \in DOMAIN at[s] |->
                                Entry(s, at[s][i], IndexOf(row, at[s][i]))]]
                 /\ map = [s \in Side |-> [p \in Paths |-> IndexOf(at[s], p)]]
                 /\ rows = [r \in DOMAIN row |->
                       [L |-> IndexOf(at["L"], row[r]), R |-> IndexOf(at["R"], row[r]),
                        selected |-> FALSE]]
<1> DEFINE at == [s \in Side |-> Enumeration(Listed(s))]
           row == Enumeration(RowPaths)
           has(s, p) == IF s = "L" THEN p \in Known("L") ELSE p \in Listed("R")
           idx(s, p) == IF has(s, p) THEN IndexOf(at[s], p) ELSE 0
<1>1. PICK t \in Trees :
         /\ disk = t
         /\ list = [s \in Side |-> [i \in DOMAIN at[s] |->
                Entry(s, at[s][i], IF has(s, at[s][i]) THEN IndexOf(row, at[s][i]) ELSE 0)]]
         /\ map = [s \in Side |-> [p \in Paths |-> IndexOf(at[s], p)]]
         /\ rows = [r \in DOMAIN row |->
                [L |-> idx("L", row[r]), R |-> idx("R", row[r]), selected |-> FALSE]]
  BY DEF Init
<1>2. DiskOK BY <1>1, TreesAre DEF DiskOK
<1>3. "L" \in Side /\ "R" \in Side BY SideIs
<1>4. \A s \in Side : Listed(s) = DOMAIN disk[s] BY <1>3 DEF Listed, ReadAll
<1>5. Known("L") = DOMAIN disk["L"] BY <1>3, <1>4 DEF Known, ReadAll
<1>6. \A p : ~IsUnknown(p) BY <1>3 DEF IsUnknown, ReadAll
<1>7. RowPaths = DOMAIN disk["L"] \cup DOMAIN disk["R"] BY <1>3, <1>4, <1>5, <1>6 DEF RowPaths
<1>8. \A s \in Side : Indexed(at[s], DOMAIN disk[s])
  <2> SUFFICES ASSUME NEW s \in Side PROVE Indexed(at[s], DOMAIN disk[s]) OBVIOUS
  <2>1. IsFiniteSet(DOMAIN disk[s]) BY <1>1, TreesAre
  <2>2. at[s] = Enumeration(DOMAIN disk[s]) BY <1>4
  <2> HIDE DEF at
  <2> QED BY <2>1, <2>2, EnumerationIs DEF Indexed
<1>9. Indexed(row, DOMAIN disk["L"] \cup DOMAIN disk["R"])
  <2>1. IsFiniteSet(DOMAIN disk["L"]) /\ IsFiniteSet(DOMAIN disk["R"]) BY <1>1, <1>3, TreesAre
  <2>2. IsFiniteSet(DOMAIN disk["L"] \cup DOMAIN disk["R"]) BY <2>1, FS_Union
  <2> QED BY <2>2, <1>7, EnumerationIs DEF Indexed
<1>10. \A s \in Side : \A p : has(s, p) <=> p \in DOMAIN disk[s] BY <1>3, <1>4, <1>5, SideIs
<1> HIDE DEF at, row, has
<1>11. \A s \in Side : \A p : idx(s, p) = IndexOf(at[s], p)
  <2> SUFFICES ASSUME NEW s \in Side, NEW p PROVE idx(s, p) = IndexOf(at[s], p) OBVIOUS
  <2>1. CASE p \in DOMAIN disk[s] BY <2>1, <1>10
  <2>2. CASE p \notin DOMAIN disk[s]
    <3>1. IndexOf(at[s], p) = 0 BY <2>2, <1>8, IndexOfIs
    <3> QED BY <3>1, <2>2, <1>10
  <2> QED BY <2>1, <2>2
<1>12. \A s \in Side : \A i \in DOMAIN at[s] : has(s, at[s][i])
  <2> SUFFICES ASSUME NEW s \in Side, NEW i \in DOMAIN at[s] PROVE has(s, at[s][i]) OBVIOUS
  <2>1. at[s][i] \in DOMAIN disk[s] BY <1>8 DEF Indexed
  <2> QED BY <2>1, <1>10
<1> HIDE DEF idx
<1>13. list = [s \in Side |-> [i \in DOMAIN at[s] |-> Entry(s, at[s][i], IndexOf(row, at[s][i]))]]
  BY <1>1, <1>12
<1>14. rows = [r \in DOMAIN row |->
          [L |-> IndexOf(at["L"], row[r]), R |-> IndexOf(at["R"], row[r]), selected |-> FALSE]]
  BY <1>1, <1>3, <1>11
<1> DEFINE fits(a, b) ==
              /\ \A s \in Side : Indexed(a[s], DOMAIN disk[s])
              /\ Indexed(b, DOMAIN disk["L"] \cup DOMAIN disk["R"])
              /\ list = [s \in Side |-> [i \in DOMAIN a[s] |-> Entry(s, a[s][i], IndexOf(b, a[s][i]))]]
              /\ map = [s \in Side |-> [p \in Paths |-> IndexOf(a[s], p)]]
              /\ rows = [r \in DOMAIN b |->
                    [L |-> IndexOf(a["L"], b[r]), R |-> IndexOf(a["R"], b[r]), selected |-> FALSE]]
<1>15. fits(at, row) BY <1>1, <1>8, <1>9, <1>13, <1>14
<1>16. \E a, b : fits(a, b)
  <2> HIDE DEF fits
  <2> QED BY <1>15
<1> QED BY <1>2, <1>16

LEMMA InitSound ==
    ASSUME Init, ReadAll
    PROVE  TablesSound /\ \A s \in Side, p \in Paths : map[s][p] # 0 <=> p \in DOMAIN disk[s]
<1>1. PICK at, row :
         /\ \A s \in Side : Indexed(at[s], DOMAIN disk[s])
         /\ Indexed(row, DOMAIN disk["L"] \cup DOMAIN disk["R"])
         /\ list = [s \in Side |-> [i \in DOMAIN at[s] |->
                        Entry(s, at[s][i], IndexOf(row, at[s][i]))]]
         /\ map = [s \in Side |-> [p \in Paths |-> IndexOf(at[s], p)]]
         /\ rows = [r \in DOMAIN row |->
               [L |-> IndexOf(at["L"], row[r]), R |-> IndexOf(at["R"], row[r]), selected |-> FALSE]]
  BY InitTables
<1> DEFINE n(s) == Cardinality(DOMAIN disk[s])
           all == DOMAIN disk["L"] \cup DOMAIN disk["R"]
           N == Cardinality(all)
<1>2. "L" \in Side /\ "R" \in Side /\ \A s \in Side : s = "L" \/ s = "R" BY SideIs
<1>3. ASSUME NEW s \in Side
      PROVE  /\ n(s) \in Nat /\ DOMAIN at[s] = 1..n(s) /\ DOMAIN disk[s] \subseteq all
             /\ \A p : IndexOf(at[s], p) \in Nat
             /\ \A p : IndexOf(at[s], p) # 0 => p \in DOMAIN disk[s]
             /\ \A p \in DOMAIN disk[s] : /\ IndexOf(at[s], p) \in 1..n(s) /\ IndexOf(at[s], p) # 0
                                          /\ at[s][IndexOf(at[s], p)] = p
             /\ \A i \in 1..n(s) : at[s][i] \in DOMAIN disk[s] /\ IndexOf(at[s], at[s][i]) = i
  <2>1. Indexed(at[s], DOMAIN disk[s]) BY <1>1
  <2>2. n(s) \in Nat /\ DOMAIN at[s] = 1..n(s) BY <2>1 DEF Indexed
  <2>3. DOMAIN disk[s] \subseteq all BY <1>2
  <2> QED BY <2>1, <2>2, <2>3, IndexOfIs
<1>4. /\ N \in Nat /\ DOMAIN row = 1..N
      /\ \A p : IndexOf(row, p) \in Nat
      /\ \A p \in all : /\ IndexOf(row, p) \in 1..N /\ IndexOf(row, p) # 0 /\ row[IndexOf(row, p)] = p
      /\ \A r \in 1..N : row[r] \in all /\ IndexOf(row, row[r]) = r
  <2>1. Indexed(row, all) BY <1>1
  <2>2. N \in Nat /\ DOMAIN row = 1..N BY <2>1 DEF Indexed
  <2> HIDE DEF all
  <2> QED BY <2>1, <2>2, IndexOfIs
<1>5. /\ \A s \in Side : DOMAIN disk[s] \subseteq Paths
      /\ \A s \in Side : \A p \in DOMAIN disk[s] : disk[s][p] \in Ino
  BY InitTables DEF DiskOK
<1>6. all = DOMAIN disk["L"] \cup DOMAIN disk["R"] OBVIOUS
<1> HIDE DEF all, n, N
<1>7. ASSUME NEW s \in Side
      PROVE  /\ list[s] \in Seq(Entries) /\ Len(list[s]) = n(s)
             /\ \A i \in 1..n(s) : /\ list[s][i].path = at[s][i]
                                     /\ list[s][i].row = IndexOf(row, at[s][i])
  <2>1. list[s] = [i \in 1..n(s) |-> Entry(s, at[s][i], IndexOf(row, at[s][i]))] BY <1>1, <1>3
  <2>2. \A i \in 1..n(s) : at[s][i] \in Paths /\ disk[s][at[s][i]] \in Ino BY <1>3, <1>5
  <2>3. \A i \in 1..n(s) : Entry(s, at[s][i], IndexOf(row, at[s][i])) \in Entries
    <3>1. \A p : Linked(s, p) \in BOOLEAN BY DEF Linked
    <3> QED BY <3>1, <2>2, <1>4 DEF Entry, Entries
  <2>4. list[s] \in [1..n(s) -> Entries] BY <2>1, <2>3
  <2>5. list[s] \in Seq(Entries) /\ Len(list[s]) = n(s) BY <2>4, <1>3
  <2>6. \A i \in 1..n(s) : list[s][i].path = at[s][i] /\ list[s][i].row = IndexOf(row, at[s][i])
    BY <2>1 DEF Entry
  <2> QED BY <2>5, <2>6
<1>8. /\ rows \in Seq(RowsType) /\ Len(rows) = N
      /\ \A r \in 1..N, s \in Side : rows[r][s] = IndexOf(at[s], row[r])
  <2>1. rows = [r \in 1..N |->
           [L |-> IndexOf(at["L"], row[r]), R |-> IndexOf(at["R"], row[r]), selected |-> FALSE]]
    BY <1>1, <1>4
  <2>2. \A p : IndexOf(at["L"], p) \in Nat /\ IndexOf(at["R"], p) \in Nat BY <1>2, <1>3
  <2>3. \A r \in 1..N : rows[r] \in RowsType BY <2>1, <2>2 DEF RowsType
  <2>4. rows \in [1..N -> RowsType] BY <2>1, <2>3
  <2>5. rows \in Seq(RowsType) /\ Len(rows) = N BY <2>4, <1>4
  <2>6. \A r \in 1..N : rows[r]["L"] = IndexOf(at["L"], row[r]) /\ rows[r]["R"] = IndexOf(at["R"], row[r])
    BY <2>1
  <2> QED BY <2>5, <2>6, <1>2
<1>9. \A s \in Side, p \in Paths : map[s][p] = IndexOf(at[s], p) BY <1>1
<1>10. ArraysOK(list, map, rows)
  <2>1. list \in [Side -> Seq(Entries)]
    <3>1. list = [s \in Side |-> list[s]] BY <1>1
    <3> QED BY <3>1, <1>7
  <2>2. map \in [Side -> [Paths -> Nat]] BY <1>1, <1>3
  <2> QED BY <2>1, <2>2, <1>8 DEF ArraysOK
<1>11. RowsPoint(list, rows, {})
  <2> SUFFICES ASSUME NEW r \in 1..N, NEW s \in Side, rows[r][s] # 0
               PROVE  rows[r][s] \in 1..Len(list[s]) /\ list[s][rows[r][s]].row = r
    BY <1>8 DEF RowsPoint
  <2>1. /\ row[r] \in DOMAIN disk[s] /\ rows[r][s] = IndexOf(at[s], row[r]) BY <1>3, <1>8
  <2>2. rows[r][s] \in 1..n(s) /\ at[s][rows[r][s]] = row[r] BY <2>1, <1>3
  <2> QED BY <2>2, <1>4, <1>7
<1>12. EntriesPoint(list, map, rows, {})
  <2> SUFFICES ASSUME NEW s \in Side, NEW i \in 1..n(s)
               PROVE  /\ list[s][i].row \in 1..N /\ rows[list[s][i].row][s] = i
                      /\ map[s][list[s][i].path] = i
    BY <1>7, <1>8 DEF EntriesPoint
  <2>1. /\ at[s][i] \in DOMAIN disk[s] /\ at[s][i] \in all /\ at[s][i] \in Paths
        /\ IndexOf(at[s], at[s][i]) = i
    BY <1>3, <1>5
  <2>2. /\ IndexOf(row, at[s][i]) \in 1..N /\ row[IndexOf(row, at[s][i])] = at[s][i] BY <2>1, <1>4
  <2> QED BY <2>1, <2>2, <1>7, <1>8, <1>9
<1>13. MapPoints(list, map)
  <2> SUFFICES ASSUME NEW s \in Side, NEW p \in Paths, map[s][p] # 0
               PROVE  /\ map[s][p] \in 1..Len(list[s]) /\ list[s][map[s][p]].path = p
                      /\ list[s][map[s][p]].row # 0
    BY DEF MapPoints
  <2>1. p \in DOMAIN disk[s] /\ map[s][p] = IndexOf(at[s], p) BY <1>3, <1>9
  <2>2. p \in all BY <2>1, <1>3
  <2>3. map[s][p] \in 1..n(s) /\ at[s][map[s][p]] = p BY <2>1, <1>3
  <2> QED BY <2>2, <2>3, <1>4, <1>7, ZenonT(60)
<1>14. NoEmptyRow(rows, {})
  <2> SUFFICES ASSUME NEW r \in 1..N PROVE rows[r]["L"] # 0 \/ rows[r]["R"] # 0
    BY <1>8 DEF NoEmptyRow
  <2>1. row[r] \in DOMAIN disk["L"] \/ row[r] \in DOMAIN disk["R"] BY <1>4, <1>6
  <2> QED BY <2>1, <1>2, <1>3, <1>8
<1>15. OneRowPerPath(list, rows, {})
  <2> SUFFICES ASSUME NEW r \in 1..N, NEW x \in 1..N, NEW s \in Side, NEW t \in Side,
                      rows[r][s] # 0, rows[x][t] # 0
               PROVE  r = x <=> list[s][rows[r][s]].path = list[t][rows[x][t]].path
    BY <1>8 DEF OneRowPerPath
  <2>1. /\ row[r] \in DOMAIN disk[s] /\ rows[r][s] = IndexOf(at[s], row[r])
        /\ row[x] \in DOMAIN disk[t] /\ rows[x][t] = IndexOf(at[t], row[x])
    BY <1>3, <1>8
  <2>2. list[s][rows[r][s]].path = row[r] /\ list[t][rows[x][t]].path = row[x]
    BY <2>1, <1>3, <1>7
  <2> QED BY <2>2, <1>4
<1>16. \A s \in Side, p \in Paths : map[s][p] # 0 <=> p \in DOMAIN disk[s] BY <1>3, <1>9
<1> QED BY <1>10, <1>11, <1>12, <1>13, <1>14, <1>15, <1>16 DEF TablesSound, Sound

-----------------------------------------------------------------------------
(* The map after the messages still to come                                *)

LEMMA TailIs ==
    ASSUME NEW M, NEW q \in Seq(M), q # <<>>
    PROVE  /\ Tail(q) \in Seq(M) /\ Len(q) \in Nat /\ Len(q) >= 1 /\ Len(Tail(q)) = Len(q) - 1
           /\ \A k \in 1..(Len(q) - 1) : Tail(q)[k] = q[k + 1]
           /\ Head(q) = q[1] /\ q[1] \in M
OBVIOUS

LEMMA BothIs ==
    ASSUME NEW M, NEW q \in Seq(M), NEW ms \in Seq(M)
    PROVE  /\ q \o ms \in Seq(M) /\ Len(q) \in Nat /\ Len(ms) \in Nat
           /\ Len(q \o ms) = Len(q) + Len(ms)
           /\ \A k \in 1..Len(q) : (q \o ms)[k] = q[k]
           /\ \A k \in 1..Len(ms) : (q \o ms)[Len(q) + k] = ms[k]
OBVIOUS

\* What handling the first message makes of FreeAt; np is the map afterwards.
LEMMA TailFree ==
    ASSUME NEW q \in Seq(Messages), q # <<>>, NEW n \in 1..Len(q), NEW s, NEW x, NEW mp, NEW np,
           Vacates(q[1], s, x) /\ ~Fills(q[1], s, x) => np[s][x] = 0,
           ~Vacates(q[1], s, x) /\ ~Fills(q[1], s, x) => np[s][x] = mp[s][x],
           FreeAt(mp, q, n, s, x)
    PROVE  FreeAt(np, Tail(q), n - 1, s, x)
<1> DEFINE V(m) == Vacates(m, s, x)
           F(m) == Fills(m, s, x)
           t == Tail(q)
<1>1. /\ Len(q) \in Nat /\ Len(t) = Len(q) - 1 /\ \A k \in 1..(Len(q) - 1) : t[k] = q[k + 1]
  BY TailIs
<1>2. /\ mp[s][x] = 0 \/ \E j \in 1..n : V(q[j])
      /\ \A j \in 1..n : F(q[j]) => \E k \in (j + 1)..n : V(q[k])
  BY DEF FreeAt
<1>3. V(q[1]) /\ ~F(q[1]) => np[s][x] = 0 OBVIOUS
<1>4. ~V(q[1]) /\ ~F(q[1]) => np[s][x] = mp[s][x] OBVIOUS
<1> HIDE DEF V, F, t
<1>5. ASSUME NEW k \in 2..n, V(q[k]) PROVE (k - 1) \in 1..(n - 1) /\ V(t[k - 1])
  <2>1. (k - 1) \in 1..(Len(q) - 1) /\ (k - 1) + 1 = k /\ (k - 1) \in 1..(n - 1) BY <1>1
  <2> QED BY <2>1, <1>1, <1>5
<1>6. np[s][x] = 0 \/ \E j \in 1..(n - 1) : V(t[j])
  <2>1. CASE F(q[1])
    <3>1. PICK k \in 2..n : V(q[k]) BY <2>1, <1>2
    <3> QED BY <3>1, <1>5
  <2>2. CASE ~F(q[1]) /\ V(q[1]) BY <2>2, <1>3
  <2>3. CASE ~F(q[1]) /\ ~V(q[1])
    <3>1. CASE mp[s][x] = 0 BY <2>3, <3>1, <1>4
    <3>2. CASE mp[s][x] # 0
      <4>1. PICK j \in 1..n : V(q[j]) BY <3>2, <1>2
      <4>2. j \in 2..n BY <4>1, <2>3
      <4> QED BY <4>1, <4>2, <1>5
    <3> QED BY <3>1, <3>2
  <2> QED BY <2>1, <2>2, <2>3
<1>7. ASSUME NEW j \in 1..(n - 1), F(t[j]) PROVE \E k \in (j + 1)..(n - 1) : V(t[k])
  <2>1. j \in 1..(Len(q) - 1) /\ j + 1 \in 1..n BY <1>1
  <2>2. F(q[j + 1]) BY <2>1, <1>1, <1>7
  <2>3. PICK k \in ((j + 1) + 1)..n : V(q[k]) BY <2>1, <2>2, <1>2
  <2>4. k \in 2..n /\ (k - 1) \in (j + 1)..(n - 1) BY <2>1
  <2> QED BY <2>3, <2>4, <1>5
<1> QED BY <1>6, <1>7 DEF FreeAt, V, F, t

LEMMA TailHeld ==
    ASSUME NEW q \in Seq(Messages), q # <<>>, NEW n \in 1..Len(q), NEW s, NEW x, NEW mp, NEW np,
           ~Vacates(q[1], s, x) /\ mp[s][x] # 0 => np[s][x] # 0,
           Fills(q[1], s, x) /\ (\A k \in 2..n : ~Vacates(q[k], s, x)) => np[s][x] # 0,
           HeldAt(mp, q, n, s, x)
    PROVE  HeldAt(np, Tail(q), n - 1, s, x)
<1> DEFINE V(m) == Vacates(m, s, x)
           F(m) == Fills(m, s, x)
           t == Tail(q)
<1>1. /\ Len(q) \in Nat /\ Len(t) = Len(q) - 1 /\ \A k \in 1..(Len(q) - 1) : t[k] = q[k + 1]
  BY TailIs
<1>2. \/ mp[s][x] # 0 /\ \A j \in 1..n : ~V(q[j])
      \/ \E j \in 1..n : F(q[j]) /\ \A k \in (j + 1)..n : ~V(q[k])
  BY DEF HeldAt
<1>3. ~V(q[1]) /\ mp[s][x] # 0 => np[s][x] # 0 OBVIOUS
<1>4. F(q[1]) /\ (\A k \in 2..n : ~V(q[k])) => np[s][x] # 0 OBVIOUS
<1> HIDE DEF V, F, t
<1>5. ASSUME NEW k \in 1..(n - 1) PROVE t[k] = q[k + 1] /\ k + 1 \in 2..n
  <2>1. k \in 1..(Len(q) - 1) /\ k + 1 \in 2..n BY <1>1
  <2> QED BY <2>1, <1>1
<1>6. \/ np[s][x] # 0 /\ \A j \in 1..(n - 1) : ~V(t[j])
      \/ \E j \in 1..(n - 1) : F(t[j]) /\ \A k \in (j + 1)..(n - 1) : ~V(t[k])
  <2>1. CASE mp[s][x] # 0 /\ \A j \in 1..n : ~V(q[j])
    <3>1. 1 \in 1..n /\ \A k \in 2..n : k \in 1..n BY <1>1
    <3> QED BY <2>1, <3>1, <1>3, <1>5
  <2>2. CASE \E j \in 1..n : F(q[j]) /\ \A k \in (j + 1)..n : ~V(q[k])
    <3>1. PICK j \in 1..n : F(q[j]) /\ \A k \in (j + 1)..n : ~V(q[k]) BY <2>2
    <3>2. CASE j = 1 BY <3>1, <3>2, <1>4, <1>5
    <3>3. CASE j # 1
      <4>1. (j - 1) \in 1..(n - 1) /\ (j - 1) + 1 = j BY <3>3, <1>1
      <4>2. F(t[j - 1]) BY <4>1, <3>1, <1>5
      <4>3. ASSUME NEW k \in ((j - 1) + 1)..(n - 1) PROVE ~V(t[k])
        <5>1. k \in 1..(n - 1) /\ k + 1 \in (j + 1)..n BY <4>1, <1>1
        <5> QED BY <5>1, <3>1, <1>5
      <4> QED BY <4>1, <4>2, <4>3
    <3> QED BY <3>2, <3>3
  <2> QED BY <2>1, <2>2, <1>2
<1> QED BY <1>6 DEF HeldAt, V, F, t

\* More messages do not change what the first ones do.
LEMMA SamePrefix ==
    ASSUME NEW q \in Seq(Messages), NEW ms \in Seq(Messages), NEW n \in 0..Len(q),
           NEW s, NEW x, NEW mp
    PROVE  /\ FreeAt(mp, q \o ms, n, s, x) <=> FreeAt(mp, q, n, s, x)
           /\ HeldAt(mp, q \o ms, n, s, x) <=> HeldAt(mp, q, n, s, x)
<1> DEFINE V(m) == Vacates(m, s, x)
           F(m) == Fills(m, s, x)
           b == q \o ms
<1>1. Len(q) \in Nat /\ \A k \in 1..Len(q) : b[k] = q[k] BY BothIs
<1> HIDE DEF V, F, b
<1>2. \A k \in 1..n : b[k] = q[k] BY <1>1
<1>3. \A j \in 1..n : \A k \in (j + 1)..n : k \in 1..n BY <1>1
<1>4. /\ (\E j \in 1..n : V(b[j])) <=> (\E j \in 1..n : V(q[j]))
      /\ (\A j \in 1..n : F(b[j]) => \E k \in (j + 1)..n : V(b[k])) <=>
         (\A j \in 1..n : F(q[j]) => \E k \in (j + 1)..n : V(q[k]))
  BY <1>2, <1>3
<1>5. (\E j \in 1..n : F(b[j]) /\ \A k \in (j + 1)..n : ~V(b[k])) <=>
      (\E j \in 1..n : F(q[j]) /\ \A k \in (j + 1)..n : ~V(q[k]))
  BY <1>2, <1>3
<1> QED BY <1>4, <1>5 DEF FreeAt, HeldAt, V, F, b

LEMMA MoreFree ==
    ASSUME NEW q \in Seq(Messages), NEW ms \in Seq(Messages), NEW n \in 0..Len(ms),
           NEW s, NEW x, NEW mp,
           FreeAt(mp, q, Len(q), s, x) \/ \E j \in 1..n : Vacates(ms[j], s, x),
           \A j \in 1..n : ~Fills(ms[j], s, x)
    PROVE  FreeAt(mp, q \o ms, Len(q) + n, s, x)
<1> DEFINE V(m) == Vacates(m, s, x)
           F(m) == Fills(m, s, x)
           b == q \o ms
           l == Len(q)
           N == l + n
<1>1. /\ l \in Nat /\ Len(ms) \in Nat /\ \A k \in 1..l : b[k] = q[k]
      /\ \A k \in 1..Len(ms) : b[l + k] = ms[k]
  BY BothIs
<1>2. n \in Nat /\ N \in Nat /\ N = l + n BY <1>1
<1>3. \/ /\ mp[s][x] = 0 \/ \E j \in 1..l : V(q[j])
         /\ \A j \in 1..l : F(q[j]) => \E k \in (j + 1)..l : V(q[k])
      \/ \E j \in 1..n : V(ms[j])
  BY DEF FreeAt
<1>4. \A j \in 1..n : ~F(ms[j]) OBVIOUS
<1>9. n <= Len(ms) BY <1>1
<1> HIDE DEF V, F, b, l, N
<1>5. ASSUME NEW j \in 1..N, F(b[j]) PROVE j \in 1..l /\ F(q[j])
  <2>1. CASE j \in 1..l BY <2>1, <1>1, <1>5
  <2>2. CASE j \notin 1..l
    <3>1. (j - l) \in 1..n /\ (j - l) \in 1..Len(ms) /\ l + (j - l) = j BY <2>2, <1>1, <1>2, <1>9
    <3>2. b[j] = ms[j - l] BY <3>1, <1>1
    <3> QED BY <3>1, <3>2, <1>4, <1>5
  <2> QED BY <2>1, <2>2
<1>6. ASSUME NEW j \in 1..n, V(ms[j])
      PROVE  (l + j) \in 1..N /\ V(b[l + j]) /\ \A i \in 1..l : (l + j) \in (i + 1)..N
  <2>1. j \in 1..Len(ms) /\ (l + j) \in 1..N BY <1>1, <1>2, <1>9
  <2>2. \A i \in 1..l : (l + j) \in (i + 1)..N BY <1>1, <1>2
  <2> QED BY <2>1, <2>2, <1>1, <1>6
<1>7. \A k \in 1..l : k \in 1..N /\ b[k] = q[k] BY <1>1, <1>2
<1>8. /\ mp[s][x] = 0 \/ \E j \in 1..N : V(b[j])
      /\ \A j \in 1..N : F(b[j]) => \E k \in (j + 1)..N : V(b[k])
  <2>1. CASE \E j \in 1..n : V(ms[j])
    <3>1. PICK j \in 1..n : V(ms[j]) BY <2>1
    <3>2. (l + j) \in 1..N /\ V(b[l + j]) /\ \A i \in 1..l : (l + j) \in (i + 1)..N BY <3>1, <1>6
    <3> QED BY <3>2, <1>5
  <2>2. CASE /\ mp[s][x] = 0 \/ \E j \in 1..l : V(q[j])
             /\ \A j \in 1..l : F(q[j]) => \E k \in (j + 1)..l : V(q[k])
    <3>1. mp[s][x] = 0 \/ \E j \in 1..N : V(b[j]) BY <2>2, <1>7
    <3>2. ASSUME NEW j \in 1..N, F(b[j]) PROVE \E k \in (j + 1)..N : V(b[k])
      <4>1. j \in 1..l /\ F(q[j]) BY <3>2, <1>5
      <4>2. PICK k \in (j + 1)..l : V(q[k]) BY <4>1, <2>2
      <4>3. k \in 1..l /\ k \in (j + 1)..N BY <4>1, <1>1, <1>2
      <4> QED BY <4>2, <4>3, <1>7
    <3> QED BY <3>1, <3>2
  <2> QED BY <2>1, <2>2, <1>3
<1> QED BY <1>8 DEF FreeAt, V, F, b, l, N

LEMMA MoreHeld ==
    ASSUME NEW q \in Seq(Messages), NEW ms \in Seq(Messages), NEW n \in 0..Len(ms),
           NEW s, NEW x, NEW mp,
           \/ HeldAt(mp, q, Len(q), s, x) /\ \A j \in 1..n : ~Vacates(ms[j], s, x)
           \/ \E j \in 1..n : Fills(ms[j], s, x) /\ \A k \in (j + 1)..n : ~Vacates(ms[k], s, x)
    PROVE  HeldAt(mp, q \o ms, Len(q) + n, s, x)
<1> DEFINE V(m) == Vacates(m, s, x)
           F(m) == Fills(m, s, x)
           b == q \o ms
           l == Len(q)
           N == l + n
<1>1. /\ l \in Nat /\ Len(ms) \in Nat /\ \A k \in 1..l : b[k] = q[k]
      /\ \A k \in 1..Len(ms) : b[l + k] = ms[k]
  BY BothIs
<1>2. n \in Nat /\ N \in Nat /\ N = l + n /\ n <= Len(ms) BY <1>1
<1>3. \/ /\ \/ mp[s][x] # 0 /\ \A j \in 1..l : ~V(q[j])
            \/ \E j \in 1..l : F(q[j]) /\ \A k \in (j + 1)..l : ~V(q[k])
         /\ \A j \in 1..n : ~V(ms[j])
      \/ \E j \in 1..n : F(ms[j]) /\ \A k \in (j + 1)..n : ~V(ms[k])
  BY DEF HeldAt
<1> HIDE DEF V, F, b, l, N
<1>4. \A k \in 1..n : (l + k) \in 1..N /\ b[l + k] = ms[k]
  <2> SUFFICES ASSUME NEW k \in 1..n PROVE (l + k) \in 1..N /\ b[l + k] = ms[k] OBVIOUS
  <2>1. k \in 1..Len(ms) BY <1>1, <1>2
  <2> QED BY <2>1, <1>1, <1>2
<1>5. \A k \in 1..N : k \notin 1..l => (k - l) \in 1..n /\ l + (k - l) = k BY <1>1, <1>2
<1>6. \A k \in 1..l : k \in 1..N /\ b[k] = q[k] BY <1>1, <1>2
<1>7. CASE \E j \in 1..n : F(ms[j]) /\ \A k \in (j + 1)..n : ~V(ms[k])
  <2>1. PICK j \in 1..n : F(ms[j]) /\ \A k \in (j + 1)..n : ~V(ms[k]) BY <1>7
  <2>2. (l + j) \in 1..N /\ F(b[l + j]) BY <2>1, <1>4
  <2>3. ASSUME NEW k \in ((l + j) + 1)..N PROVE ~V(b[k])
    <3>1. k \in 1..N /\ k \notin 1..l /\ (k - l) \in (j + 1)..n BY <2>1, <1>1, <1>2
    <3>2. b[k] = ms[k - l] BY <3>1, <1>4, <1>5
    <3> QED BY <3>1, <3>2, <2>1
  <2> QED BY <2>2, <2>3 DEF HeldAt, V, F, b, l, N
<1>8. CASE /\ mp[s][x] # 0 /\ \A j \in 1..l : ~V(q[j])
           /\ \A j \in 1..n : ~V(ms[j])
  <2>1. ASSUME NEW k \in 1..N PROVE ~V(b[k])
    <3>1. CASE k \in 1..l BY <3>1, <1>6, <1>8
    <3>2. CASE k \notin 1..l
      <4>1. b[k] = ms[k - l] /\ (k - l) \in 1..n BY <3>2, <1>4, <1>5
      <4> QED BY <4>1, <1>8
    <3> QED BY <3>1, <3>2
  <2> QED BY <2>1, <1>8 DEF HeldAt, V, F, b, l, N
<1>9. CASE /\ \E j \in 1..l : F(q[j]) /\ \A k \in (j + 1)..l : ~V(q[k])
           /\ \A j \in 1..n : ~V(ms[j])
  <2>1. PICK j \in 1..l : F(q[j]) /\ \A k \in (j + 1)..l : ~V(q[k]) BY <1>9
  <2>2. j \in 1..N /\ F(b[j]) BY <2>1, <1>6
  <2>3. ASSUME NEW k \in (j + 1)..N PROVE ~V(b[k])
    <3>0. k \in 1..N /\ k >= j + 1 BY <1>1, <1>2
    <3>1. CASE k \in 1..l
      <4>1. k \in (j + 1)..l BY <3>0, <3>1, <1>1
      <4> QED BY <4>1, <2>1, <3>1, <1>6
    <3>2. CASE k \notin 1..l
      <4>1. b[k] = ms[k - l] /\ (k - l) \in 1..n BY <3>0, <3>2, <1>4, <1>5
      <4> QED BY <4>1, <1>9
    <3> QED BY <3>1, <3>2
  <2> QED BY <2>2, <2>3 DEF HeldAt, V, F, b, l, N
<1> QED BY <1>3, <1>7, <1>8, <1>9

-----------------------------------------------------------------------------
(* A message is handled                                                    *)

\* What handling m makes of the map.
Applied(m, mp, np) ==
    \A s \in Side, x \in Paths :
        /\ Vacates(m, s, x) /\ ~Fills(m, s, x) => np[s][x] = 0
        /\ ~Vacates(m, s, x) /\ ~Fills(m, s, x) => np[s][x] = mp[s][x]
        /\ ~Vacates(m, s, x) /\ mp[s][x] # 0 => np[s][x] # 0
        /\ m.type = "rename" /\ Fills(m, s, x) /\ mp[s][m.path] # 0 => np[s][x] # 0
        /\ m.type = "transfer" /\ Fills(m, s, x) /\ mp["L"][x] # 0 /\ Exists("R", x) => np[s][x] # 0

LEMMA MessageIs ==
    ASSUME NEW m \in Messages
    PROVE  /\ m.type \in {"ignore", "finished"} \cup RowMessages /\ m.side \in Side
           /\ m.type \in RowMessages => m.path \in Paths /\ m.to \in Paths
BY DEF Messages, RowMessages

LEMMA PostedIs ==
    ASSUME ThreadOK
    PROVE  /\ queue \in Seq(Messages) /\ batch \in Seq(Messages) /\ Posted \in Seq(Messages)
           /\ Len(queue) \in Nat /\ Len(Posted) \in Nat
           /\ queue # <<>> => /\ Posted # <<>> /\ Head(queue) = Posted[1] /\ 1 \in 1..Len(Posted)
                              /\ Head(queue) \in Messages /\ Tail(queue) \o batch = Tail(Posted)
<1>1. queue \in Seq(Messages) /\ batch \in Seq(Messages) BY DEF ThreadOK
<1>2. Posted \in Seq(Messages) /\ Len(queue) \in Nat /\ Len(Posted) \in Nat
      /\ Len(Posted) = Len(queue) + Len(batch) /\ Len(batch) \in Nat
  BY <1>1, BothIs DEF Posted
<1>3. ASSUME queue # <<>>
      PROVE  /\ Posted # <<>> /\ Head(queue) = Posted[1] /\ 1 \in 1..Len(Posted)
             /\ Head(queue) \in Messages
  <2>1. Len(queue) >= 1 /\ Head(queue) = queue[1] /\ queue[1] \in Messages BY <1>1, <1>3, TailIs
  <2>2. 1 \in 1..Len(queue) BY <2>1, <1>2
  <2>3. Posted[1] = queue[1] BY <2>2, <1>1, BothIs DEF Posted
  <2>4. 1 \in 1..Len(Posted) BY <2>1, <1>2
  <2>5. Posted # <<>> BY <2>4, <1>2
  <2> QED BY <2>1, <2>3, <2>4, <2>5
<1>4. ASSUME queue # <<>> PROVE Tail(queue) \o batch = Tail(queue \o batch)
  BY <1>1, <1>4
<1> QED BY <1>1, <1>2, <1>3, <1>4 DEF Posted

LEMMA HandleSound ==
    ASSUME TablesSound, DiskOK, ThreadOK, MessagesOK, Handle
    PROVE  TablesSound' /\ Applied(Head(queue), map, map')
<1> DEFINE m == Head(queue)
<1>1. m \in Messages /\ m = Posted[1] /\ 1 \in 1..Len(Posted) BY PostedIs DEF Handle
<1>2. /\ m.type \in {"ignore", "finished"} \cup RowMessages /\ m.side \in Side
      /\ m.type \in RowMessages => m.path \in Paths /\ m.to \in Paths
  BY <1>1, MessageIs
<1>3. CASE m.type = "remove" /\ RemoveRow(m.side, m.path)
  <2>1. m.path \in Paths BY <1>2, <1>3 DEF RowMessages
  <2>2. TablesSound' /\ MapIs(map', map, m.side, {m.path}, {}) BY <2>1, <1>2, <1>3, RemoveRowSound
  <2> HIDE DEF m
  <2>3. Applied(m, map, map') BY <2>2, <1>3 DEF Applied, MapIs, Vacates, Fills
  <2> QED BY <2>2, <2>3 DEF m
<1>4. CASE m.type = "transfer" /\ TransferRow(m.path)
  <2>1. m.path \in Paths BY <1>2, <1>4 DEF RowMessages
  <2>2. /\ TablesSound'
        /\ MapIs(map', map, "R", {}, {}) \/ MapIs(map', map, "R", {}, {m.path})
        /\ map["L"][m.path] # 0 /\ Exists("R", m.path) => map'["R"][m.path] # 0
    BY <2>1, <1>4, TransferRowSound
  <2> HIDE DEF m
  <2>3. \A s \in Side, x \in Paths : ~Vacates(m, s, x) /\ (Fills(m, s, x) <=> s = "R" /\ x = m.path)
    BY <1>4 DEF Vacates, Fills
  <2>4. CASE MapIs(map', map, "R", {}, {})
    <3>1. \A s \in Side, x \in Paths : map'[s][x] = map[s][x] BY <2>4 DEF MapIs
    <3> QED BY <3>1, <2>1, <2>2, <2>3, <1>4 DEF Applied, m
  <2>5. CASE MapIs(map', map, "R", {}, {m.path})
    <3>1. \A s \in Side, x \in Paths :
             IF s = "R" /\ x = m.path THEN map'[s][x] # 0 ELSE map'[s][x] = map[s][x]
      BY <2>5 DEF MapIs
    <3> QED BY <3>1, <2>1, <2>2, <2>3, <1>4 DEF Applied, m
  <2> QED BY <2>2, <2>4, <2>5
<1>5. CASE m.type = "rename" /\ RenameRow(m.side, m.path, m.to)
  <2>1. m.path \in Paths /\ m.to \in Paths BY <1>2, <1>5 DEF RowMessages
  <2>2. m.path # m.to /\ map[m.side][m.to] = 0
    <3>1. m.path # m.to /\ FreeAt(map, Posted, 1 - 1, m.side, m.to)
      BY <1>1, <1>5 DEF MessagesOK, NamesFree
    <3>2. \A j \in 1..(1 - 1) : FALSE OBVIOUS
    <3> QED BY <3>1, <3>2 DEF FreeAt
  <2>3. /\ TablesSound'
        /\ map[m.side][m.path] = 0 => MapIs(map', map, m.side, {}, {})
        /\ map[m.side][m.path] # 0 => MapIs(map', map, m.side, {m.path}, {m.to})
    BY <2>1, <2>2, <1>2, <1>5, RenameRowSound
  <2> HIDE DEF m
  <2>4. \A s \in Side, x \in Paths : /\ Vacates(m, s, x) <=> s = m.side /\ x = m.path
                                     /\ Fills(m, s, x) <=> s = m.side /\ x = m.to
    BY <1>5 DEF Vacates, Fills
  <2>5. CASE map[m.side][m.path] = 0
    <3>1. \A s \in Side, x \in Paths : map'[s][x] = map[s][x] BY <2>3, <2>5 DEF MapIs
    <3> QED BY <3>1, <2>1, <2>2, <2>3, <2>4, <2>5, <1>5 DEF Applied, m
  <2>6. CASE map[m.side][m.path] # 0
    <3>1. \A s \in Side, x \in Paths :
             IF s = m.side /\ x = m.path THEN map'[s][x] = 0
             ELSE IF s = m.side /\ x = m.to THEN map'[s][x] # 0 ELSE map'[s][x] = map[s][x]
      BY <2>3, <2>6 DEF MapIs
    <3>2. Applied(m, map, map') BY <3>1, <2>2, <2>4, <2>6, <1>5 DEF Applied
    <3> QED BY <3>2, <2>3 DEF m
  <2> QED BY <2>5, <2>6
<1>6. CASE m.type = "ignore" /\ IgnoreRows
  <2>1. TablesSound' /\ map' = map BY <1>6, IgnoreRowsSound
  <2> HIDE DEF m
  <2>2. Applied(m, map, map') BY <2>1, <1>6 DEF Applied, Vacates, Fills
  <2> QED BY <2>1, <2>2 DEF m
<1>7. CASE m.type = "finished" /\ UNCHANGED tables
  <2>1. TablesSound' /\ map' = map BY <1>7 DEF tables, TablesSound
  <2> HIDE DEF m
  <2>2. Applied(m, map, map') BY <2>1, <1>7 DEF Applied, Vacates, Fills
  <2> QED BY <2>1, <2>2 DEF m
<1>8. CASE m.type = "remove" BY <1>8, <1>3 DEF Handle
<1>9. CASE m.type = "transfer" BY <1>9, <1>4 DEF Handle
<1>10. CASE m.type = "rename" BY <1>10, <1>5 DEF Handle
<1>11. CASE m.type = "ignore" BY <1>11, <1>6 DEF Handle
<1>12. CASE m.type = "finished" BY <1>12, <1>7 DEF Handle
<1> QED BY <1>2, <1>8, <1>9, <1>10, <1>11, <1>12 DEF RowMessages

LEMMA HandleMessages ==
    ASSUME TablesSound, DiskOK, ThreadOK, MessagesOK, Handle
    PROVE  Posted' = Tail(Posted) /\ MessagesOK'
<1> DEFINE t == Tail(Posted)
           N == Len(Posted)
<1>1. /\ Posted \in Seq(Messages) /\ Posted # <<>> /\ Head(queue) = Posted[1]
      /\ Tail(queue) \o batch = Tail(Posted)
  BY PostedIs DEF Handle
<1>2. Posted' = t
  <2>1. queue' = Tail(queue) /\ batch' = batch BY DEF Handle
  <2> QED BY <2>1, <1>1 DEF Posted
<1>3. Applied(Posted[1], map, map') BY <1>1, HandleSound
<1>4. /\ Len(Posted) \in Nat /\ N >= 1 /\ Len(t) = N - 1
      /\ \A k \in 1..(N - 1) : t[k] = Posted[k + 1]
  BY <1>1, TailIs
<1>5. disk' = disk BY DEF Handle
<1>6. \A k \in 1..N : Posted[k] \in Messages BY <1>1
<1> HIDE DEF t
<1>7. ASSUME NEW n \in 1..N, NEW s \in Side, NEW x \in Paths, FreeAt(map, Posted, n, s, x)
      PROVE  FreeAt(map', t, n - 1, s, x)
  <2>1. /\ Vacates(Posted[1], s, x) /\ ~Fills(Posted[1], s, x) => map'[s][x] = 0
        /\ ~Vacates(Posted[1], s, x) /\ ~Fills(Posted[1], s, x) => map'[s][x] = map[s][x]
    BY <1>3 DEF Applied
  <2> QED BY <2>1, <1>1, <1>7, TailFree DEF t
<1>8. NamesFree(map', t)
  <2> SUFFICES ASSUME NEW k \in 1..(N - 1), t[k].type = "rename"
               PROVE  t[k].path # t[k].to /\ FreeAt(map', t, k - 1, t[k].side, t[k].to)
    BY <1>4 DEF NamesFree
  <2>1. t[k] = Posted[k + 1] /\ (k + 1) \in 1..N /\ (k + 1) - 1 = k /\ k \in 1..N BY <1>4
  <2>2. t[k].path # t[k].to /\ FreeAt(map, Posted, k, t[k].side, t[k].to)
    BY <2>1 DEF MessagesOK, NamesFree
  <2>3. t[k].side \in Side /\ t[k].to \in Paths BY <2>1, <1>6, MessageIs DEF RowMessages
  <2> QED BY <2>1, <2>2, <2>3, <1>7
<1>9. GoneFree(map', t, disk)
  <2> SUFFICES ASSUME NEW s \in Side, NEW x \in Paths \ DOMAIN disk[s]
               PROVE  FreeAt(map', t, N - 1, s, x)
    BY <1>4 DEF GoneFree
  <2>1. FreeAt(map, Posted, N, s, x) BY DEF MessagesOK, GoneFree
  <2>2. N \in 1..N BY <1>4
  <2> QED BY <2>1, <2>2, <1>7
<1> QED BY <1>2, <1>5, <1>8, <1>9 DEF MessagesOK, t

-----------------------------------------------------------------------------
(* Messages are posted                                                     *)

\* A rename that is posted leads to a name that was not on the disk, and no two to one.
NewNames(ms, dk) ==
    \A k \in 1..Len(ms) : ms[k].type = "rename" =>
        /\ ms[k].path # ms[k].to /\ ms[k].to \in Paths \ DOMAIN dk[ms[k].side]
        /\ \A j \in 1..(k - 1) : ~Fills(ms[j], ms[k].side, ms[k].to)

\* What is missing on nd was missing on dk or is taken out, and not put in.
ToldGone(ms, dk, nd) ==
    \A s \in Side : \A x \in Paths \ DOMAIN nd[s] :
        /\ x \notin DOMAIN dk[s] \/ \E j \in 1..Len(ms) : Vacates(ms[j], s, x)
        /\ \A j \in 1..Len(ms) : ~Fills(ms[j], s, x)

LEMMA PostMessages ==
    ASSUME NEW q \in Seq(Messages), NEW ms \in Seq(Messages), NEW mp, NEW dk, NEW nd,
           NamesFree(mp, q), GoneFree(mp, q, dk), NewNames(ms, dk), ToldGone(ms, dk, nd)
    PROVE  NamesFree(mp, q \o ms) /\ GoneFree(mp, q \o ms, nd)
<1> DEFINE b == q \o ms
           l == Len(q)
<1>1. /\ l \in Nat /\ Len(ms) \in Nat /\ Len(b) = l + Len(ms)
      /\ \A k \in 1..l : b[k] = q[k]
      /\ \A k \in 1..Len(ms) : b[l + k] = ms[k]
  BY BothIs
<1>2. \A k \in 1..Len(ms) : ms[k] \in Messages OBVIOUS
<1> HIDE DEF b
<1>3. NamesFree(mp, b)
  <2> SUFFICES ASSUME NEW k \in 1..Len(b), b[k].type = "rename"
               PROVE  b[k].path # b[k].to /\ FreeAt(mp, b, k - 1, b[k].side, b[k].to)
    BY DEF NamesFree
  <2>1. CASE k \in 1..l
    <3>1. b[k] = q[k] /\ (k - 1) \in 0..l BY <2>1, <1>1
    <3>2. q[k].path # q[k].to /\ FreeAt(mp, q, k - 1, q[k].side, q[k].to)
      BY <2>1, <3>1 DEF NamesFree
    <3> QED BY <3>1, <3>2, SamePrefix DEF b
  <2>2. CASE k \notin 1..l
    <3> DEFINE n == k - l
    <3>0. n \in 1..Len(ms) /\ l + n = k BY <2>2, <1>1
    <3>1. n \in 1..Len(ms) /\ l + n = k /\ n - 1 \in 0..Len(ms) /\ l + (n - 1) = k - 1
      <4> HIDE DEF n
      <4> QED BY <3>0, <1>1
    <3>2. b[k] = ms[n] BY <3>1, <1>1
    <3>3. /\ ms[n].path # ms[n].to /\ ms[n].to \in Paths \ DOMAIN dk[ms[n].side]
          /\ \A j \in 1..(n - 1) : ~Fills(ms[j], ms[n].side, ms[n].to)
      BY <3>1, <3>2 DEF NewNames
    <3>4. ms[n].side \in Side BY <3>1, <1>2, MessageIs
    <3>5. FreeAt(mp, q, l, ms[n].side, ms[n].to) BY <3>3, <3>4 DEF GoneFree
    <3> HIDE DEF n
    <3>6. FreeAt(mp, b, l + (n - 1), ms[n].side, ms[n].to) BY <3>1, <3>3, <3>5, MoreFree DEF b
    <3> QED BY <3>1, <3>2, <3>3, <3>6
  <2> QED BY <2>1, <2>2
<1>4. GoneFree(mp, b, nd)
  <2> SUFFICES ASSUME NEW s \in Side, NEW x \in Paths \ DOMAIN nd[s]
               PROVE  FreeAt(mp, b, l + Len(ms), s, x)
    BY <1>1 DEF GoneFree
  <2>1. FreeAt(mp, q, Len(q), s, x) \/ \E j \in 1..Len(ms) : Vacates(ms[j], s, x)
    BY DEF GoneFree, ToldGone
  <2>2. \A j \in 1..Len(ms) : ~Fills(ms[j], s, x) BY DEF ToldGone
  <2>3. Len(ms) \in 0..Len(ms) BY <1>1
  <2> QED BY <2>1, <2>2, <2>3, MoreFree DEF b
<1> QED BY <1>3, <1>4 DEF b

\* A posted message that puts a file in finds it on the disk, and no other message that
\* was posted with it took it out before.
WillFind(q, ms, dk, dn) ==
    \A k \in 1..Len(ms) :
        /\ ms[k].type = "rename" =>
              /\ ms[k].path \in Dirs <=> ms[k].to \in Dirs
              /\ ms[k].path \notin Dirs => /\ ms[k].path \in DOMAIN dk[ms[k].side] /\ dn = {}
                                           /\ \A j \in 1..(k - 1) : ~Vacates(ms[j], ms[k].side, ms[k].path)
              /\ \A j \in 1..Len(q) : q[j].type # "transfer"
              /\ \A j \in 1..k : ms[j].type # "transfer"
        /\ ms[k].type = "transfer" /\ ms[k].path \notin Dirs =>
              /\ ms[k].path \in DOMAIN dk["L"]
              /\ \A j \in 1..(k - 1) : ~Vacates(ms[j], "L", ms[k].path)

\* A file of nd was there and is not taken out, or is put in, or is still to be reported.
ToldFiles(ms, dk, dn, nd, nn) ==
    \A s \in Side : \A x \in DOMAIN nd[s] \ Dirs :
        \/ /\ x \in DOMAIN dk[s] /\ ~(s = "R" /\ x \in dn)
           /\ \A j \in 1..Len(ms) : ~Vacates(ms[j], s, x)
        \/ \E j \in 1..Len(ms) : /\ Fills(ms[j], s, x)
                                 /\ \A k \in (j + 1)..Len(ms) : ~Vacates(ms[k], s, x)
        \/ s = "R" /\ x \in nn

LEMMA PostFiles ==
    ASSUME NEW q \in Seq(Messages), NEW ms \in Seq(Messages), NEW mp,
           NEW dk, NEW dn, NEW nd, NEW nn,
           FindsRow(mp, q), FilesHeld(mp, q, dk, dn), WillFind(q, ms, dk, dn),
           ToldFiles(ms, dk, dn, nd, nn)
    PROVE  FindsRow(mp, q \o ms) /\ FilesHeld(mp, q \o ms, nd, nn)
<1> DEFINE b == q \o ms
           l == Len(q)
<1>1. /\ l \in Nat /\ Len(ms) \in Nat /\ Len(b) = l + Len(ms)
      /\ \A k \in 1..l : b[k] = q[k]
      /\ \A k \in 1..Len(ms) : b[l + k] = ms[k]
  BY BothIs
<1>2. \A k \in 1..Len(ms) : ms[k] \in Messages OBVIOUS
<1>0. "L" \in Side BY SideIs
<1> HIDE DEF b
<1>3. ASSUME NEW k \in 1..l
      PROVE  /\ b[k].type = "rename" =>
                  /\ b[k].path \in Dirs <=> b[k].to \in Dirs
                  /\ b[k].path \notin Dirs => HeldAt(mp, b, k - 1, b[k].side, b[k].path)
                  /\ \A j \in 1..k : b[j].type # "transfer"
             /\ b[k].type = "transfer" /\ b[k].path \notin Dirs => HeldAt(mp, b, k - 1, "L", b[k].path)
  <2>1. b[k] = q[k] /\ (k - 1) \in 0..l /\ \A j \in 1..k : b[j] = q[j] BY <1>1
  <2>2. /\ q[k].type = "rename" =>
                  /\ q[k].path \in Dirs <=> q[k].to \in Dirs
                  /\ q[k].path \notin Dirs => HeldAt(mp, q, k - 1, q[k].side, q[k].path)
                  /\ \A j \in 1..k : q[j].type # "transfer"
        /\ q[k].type = "transfer" /\ q[k].path \notin Dirs => HeldAt(mp, q, k - 1, "L", q[k].path)
    BY DEF FindsRow
  <2>3. \A s, x : HeldAt(mp, b, k - 1, s, x) <=> HeldAt(mp, q, k - 1, s, x)
    BY <2>1, SamePrefix DEF b
  <2> QED BY <2>1, <2>2, <2>3
<1>4. ASSUME NEW n \in 1..Len(ms)
      PROVE  /\ ms[n].type = "rename" =>
                  /\ ms[n].path \in Dirs <=> ms[n].to \in Dirs
                  /\ ms[n].path \notin Dirs => HeldAt(mp, b, l + (n - 1), ms[n].side, ms[n].path)
                  /\ \A j \in 1..(l + n) : b[j].type # "transfer"
             /\ ms[n].type = "transfer" /\ ms[n].path \notin Dirs =>
                   HeldAt(mp, b, l + (n - 1), "L", ms[n].path)
  <2>1. (n - 1) \in 0..Len(ms) BY <1>1
  <2>2. ASSUME NEW s, NEW x, HeldAt(mp, q, Len(q), s, x), \A j \in 1..(n - 1) : ~Vacates(ms[j], s, x)
        PROVE  HeldAt(mp, b, l + (n - 1), s, x)
    BY <2>1, <2>2, MoreHeld DEF b
  <2>3. ASSUME ms[n].type = "rename"
        PROVE  /\ ms[n].path \in Dirs <=> ms[n].to \in Dirs
               /\ ms[n].path \notin Dirs => HeldAt(mp, b, l + (n - 1), ms[n].side, ms[n].path)
    <3>1. /\ ms[n].path \in Dirs <=> ms[n].to \in Dirs
          /\ ms[n].path \notin Dirs => /\ ms[n].path \in DOMAIN dk[ms[n].side] /\ dn = {}
                                       /\ \A j \in 1..(n - 1) : ~Vacates(ms[j], ms[n].side, ms[n].path)
      BY <2>3 DEF WillFind
    <3>2. ms[n].side \in Side BY <1>2, MessageIs
    <3>3. ms[n].path \notin Dirs => HeldAt(mp, q, Len(q), ms[n].side, ms[n].path)
      BY <3>1, <3>2 DEF FilesHeld
    <3> QED BY <3>1, <3>3, <2>2
  <2>4. ASSUME ms[n].type = "rename" PROVE \A j \in 1..(l + n) : b[j].type # "transfer"
    <3>1. /\ \A j \in 1..l : q[j].type # "transfer"
          /\ \A j \in 1..n : ms[j].type # "transfer"
      BY <2>4 DEF WillFind
    <3> SUFFICES ASSUME NEW j \in 1..(l + n) PROVE b[j].type # "transfer" OBVIOUS
    <3>2. CASE j \in 1..l BY <3>1, <3>2, <1>1
    <3>3. CASE j \notin 1..l
      <4>1. (j - l) \in 1..n /\ (j - l) \in 1..Len(ms) /\ l + (j - l) = j BY <3>3, <1>1
      <4>2. b[j] = ms[j - l] BY <4>1, <1>1
      <4> QED BY <4>1, <4>2, <3>1
    <3> QED BY <3>2, <3>3
  <2>5. ASSUME ms[n].type = "transfer", ms[n].path \notin Dirs
        PROVE  HeldAt(mp, b, l + (n - 1), "L", ms[n].path)
    <3>1. /\ ms[n].path \in DOMAIN dk["L"]
          /\ \A j \in 1..(n - 1) : ~Vacates(ms[j], "L", ms[n].path)
      BY <2>5 DEF WillFind
    <3>2. HeldAt(mp, q, Len(q), "L", ms[n].path) BY <3>1, <2>5, <1>0 DEF FilesHeld
    <3> QED BY <3>1, <3>2, <2>2
  <2> QED BY <2>3, <2>4, <2>5
<1>5. FindsRow(mp, b)
  <2> SUFFICES ASSUME NEW k \in 1..Len(b)
               PROVE  /\ b[k].type = "rename" =>
                           /\ b[k].path \in Dirs <=> b[k].to \in Dirs
                           /\ b[k].path \notin Dirs => HeldAt(mp, b, k - 1, b[k].side, b[k].path)
                           /\ \A j \in 1..k : b[j].type # "transfer"
                      /\ b[k].type = "transfer" /\ b[k].path \notin Dirs =>
                            HeldAt(mp, b, k - 1, "L", b[k].path)
    BY DEF FindsRow
  <2>1. CASE k \in 1..l BY <2>1, <1>3
  <2>2. CASE k \notin 1..l
    <3> DEFINE n == k - l
    <3>1. n \in 1..Len(ms) /\ l + n = k /\ l + (n - 1) = k - 1 BY <2>2, <1>1
    <3>2. b[k] = ms[n] BY <3>1, <1>1
    <3> HIDE DEF n
    <3> QED BY <3>1, <3>2, <1>4
  <2> QED BY <2>1, <2>2
<1>6. FilesHeld(mp, b, nd, nn)
  <2> SUFFICES ASSUME NEW s \in Side, NEW x \in DOMAIN nd[s] \ Dirs, ~(s = "R" /\ x \in nn)
               PROVE  HeldAt(mp, b, l + Len(ms), s, x)
    BY <1>1 DEF FilesHeld
  <2>0. Len(ms) \in 0..Len(ms) BY <1>1
  <2>1. CASE /\ x \in DOMAIN dk[s] /\ ~(s = "R" /\ x \in dn)
             /\ \A j \in 1..Len(ms) : ~Vacates(ms[j], s, x)
    <3>1. HeldAt(mp, q, Len(q), s, x) BY <2>1 DEF FilesHeld
    <3> QED BY <2>0, <2>1, <3>1, MoreHeld DEF b
  <2>2. CASE \E j \in 1..Len(ms) : /\ Fills(ms[j], s, x)
                                   /\ \A k \in (j + 1)..Len(ms) : ~Vacates(ms[k], s, x)
    BY <2>0, <2>2, MoreHeld DEF b
  <2> QED BY <2>1, <2>2 DEF ToldFiles
<1> QED BY <1>5, <1>6 DEF b

LEMMA InOneRow ==
    ASSUME NEW M, NEW a \in Seq(M), NEW b \in Seq(M), NEW c \in Seq(M)
    PROVE  a \o (b \o c) = (a \o b) \o c
<1>1. /\ a \o (b \o c) \in Seq(M) /\ (a \o b) \o c \in Seq(M)
      /\ Len(a \o (b \o c)) = Len((a \o b) \o c)
  OBVIOUS
<1>2. \A k \in 1..Len(a \o (b \o c)) : (a \o (b \o c))[k] = ((a \o b) \o c)[k]
  OBVIOUS
<1> QED BY <1>1, <1>2

\* nb is a batch and a queue in which ms is posted after what b and q hold.
PostsAfter(nb, b, q, ms) ==
    /\ nb[1] \in Seq(Messages) /\ nb[2] \in Seq(Messages)
    /\ nb[2] \o nb[1] = (q \o b) \o ms
    /\ \A k, l \in 1..Len(nb[1]) : nb[1][k].type = nb[1][l].type
    /\ \A k \in 1..Len(nb[1]) : \/ \E l \in 1..Len(b) : nb[1][k] = b[l]
                                \/ \E l \in 1..Len(ms) : nb[1][k] = ms[l]

LEMMA PushPair ==
    ASSUME NEW bq, NEW ms
    PROVE  Push(bq, ms) = <<Push(bq, ms)[1], Push(bq, ms)[2]>>
BY DEF Push

\* The messages of a batch that is flushed early come no earlier and no later.
LEMMA PushPosts ==
    ASSUME NEW b \in Seq(Messages), NEW q \in Seq(Messages),
           NEW ms \in Seq(Messages), ms # <<>>,
           \A k, l \in 1..Len(b) : b[k].type = b[l].type,
           \A k, l \in 1..Len(ms) : ms[k].type = ms[l].type,
           \A k \in 1..Len(b), l \in 1..Len(ms) : b[k].type = ms[l].type => b[k].side = ms[l].side,
           NEW nb, nb = Push(<<b, q>>, ms)
    PROVE  PostsAfter(nb, b, q, ms)
<1>1. b \in Seq(Messages) /\ q \in Seq(Messages) OBVIOUS
<1>0. ms \in Seq(Messages) /\ \A k, l \in 1..Len(ms) : ms[k].type = ms[l].type OBVIOUS
<1>2. Len(ms) \in Nat /\ Len(ms) >= 1 /\ Head(ms) = ms[1] BY TailIs
<1>3. 1 \in 1..Len(ms) BY <1>2
<1>4. CASE b = <<>>
  <2>1. nb[1] = ms /\ nb[2] = q BY <1>4 DEF Push
  <2>2. q \o <<>> = q BY <1>1
  <2> QED BY ONLY <2>1, <2>2, <1>0, <1>1, <1>4 DEF PostsAfter
<1>5. CASE b # <<>> /\ Head(b).type # Head(ms).type
  <2>1. nb[1] = ms /\ nb[2] = q \o b BY <1>5 DEF Push
  <2>2. q \o b \in Seq(Messages) BY <1>1
  <2> QED BY ONLY <2>1, <2>2, <1>0, <1>1 DEF PostsAfter
<1>6. CASE b # <<>> /\ Head(b).type = Head(ms).type
  <2> DEFINE as == [k \in DOMAIN ms |-> [ms[k] EXCEPT !.side = Head(b).side]]
  <2>1. nb[1] = b \o as /\ nb[2] = q BY <1>6 DEF Push
  <2>2. Len(b) \in Nat /\ Len(b) >= 1 /\ Head(b) = b[1] BY <1>1, <1>6, TailIs
  <2>3. 1 \in 1..Len(b) BY <2>2
  <2>4. \A l \in 1..Len(ms) : ms[l].type = b[1].type BY <1>2, <1>3, <1>6, <2>2
  <2>5. \A l \in 1..Len(ms) : ms[l].side = b[1].side BY <2>3, <2>4
  <2>6. \A l \in 1..Len(ms) : [ms[l] EXCEPT !.side = b[1].side] = ms[l]
    <3> SUFFICES ASSUME NEW l \in 1..Len(ms) PROVE [ms[l] EXCEPT !.side = b[1].side] = ms[l] OBVIOUS
    <3>1. ms[l] \in Messages OBVIOUS
    <3>2. [ms[l] EXCEPT !.side = ms[l].side] = ms[l] BY <3>1 DEF Messages
    <3> QED BY <3>2, <2>5
  <2>7. as = ms
    <3>1. DOMAIN ms = 1..Len(ms) OBVIOUS
    <3>2. as = [l \in 1..Len(ms) |-> ms[l]] BY <3>1, <2>2, <2>6
    <3>3. ms = [l \in 1..Len(ms) |-> ms[l]] BY <3>1
    <3> QED BY <3>2, <3>3
  <2>8. nb[1] = b \o ms BY <2>1, <2>7
  <2>9. /\ b \o ms \in Seq(Messages) /\ Len(b \o ms) = Len(b) + Len(ms)
        /\ q \o (b \o ms) = (q \o b) \o ms
    <3>1. b \o ms \in Seq(Messages) /\ Len(b \o ms) = Len(b) + Len(ms) BY <1>1
    <3> HIDE DEF as
    <3>2. q \o (b \o ms) = (q \o b) \o ms BY <1>1, InOneRow
    <3> QED BY <3>1, <3>2
  <2>10. \A k \in 1..Len(b) : (b \o ms)[k] = b[k] BY <1>1
  <2>11. \A k \in 1..Len(ms) : (b \o ms)[Len(b) + k] = ms[k] BY <1>1
  <2>12. \A k, l \in 1..Len(b) : b[k].type = b[l].type OBVIOUS
  <2> HIDE DEF as
  <2>13. \A k \in 1..Len(b \o ms) : \/ \E l \in 1..Len(b) : (b \o ms)[k] = b[l]
                                    \/ \E l \in 1..Len(ms) : (b \o ms)[k] = ms[l]
    <3> SUFFICES ASSUME NEW k \in 1..Len(b \o ms)
                 PROVE  \/ \E l \in 1..Len(b) : (b \o ms)[k] = b[l]
                        \/ \E l \in 1..Len(ms) : (b \o ms)[k] = ms[l]
      OBVIOUS
    <3>1. CASE k \in 1..Len(b) BY <3>1, <2>10
    <3>2. CASE k \notin 1..Len(b)
      <4>1. (k - Len(b)) \in 1..Len(ms) /\ Len(b) + (k - Len(b)) = k BY <3>2, <2>2, <2>9, <1>2
      <4>2. (b \o ms)[k] = ms[k - Len(b)] BY <4>1, <2>11
      <4> QED BY <4>1, <4>2
    <3> QED BY <3>1, <3>2
  <2>14. \A k \in 1..Len(b \o ms) : (b \o ms)[k].type = b[1].type BY <2>3, <2>4, <2>12, <2>13
  <2> QED BY ONLY <2>1, <2>8, <2>9, <2>13, <2>14, <1>0, <1>1 DEF PostsAfter
<1> QED BY <1>4, <1>5, <1>6

-----------------------------------------------------------------------------
(* Paths                                                                   *)

LEMMA Sliced ==
    ASSUME NEW M, NEW a \in Seq(M), NEW m \in 1..(Len(a) + 1), NEW n \in 0..Len(a), m <= n + 1
    PROVE  /\ SubSeq(a, m, n) \in Seq(M) /\ Len(SubSeq(a, m, n)) = n - m + 1
           /\ \A k \in 1..(n - m + 1) : SubSeq(a, m, n)[k] = a[k + m - 1]
OBVIOUS

LEMMA SameSequence ==
    ASSUME NEW M, NEW a \in Seq(M), NEW b \in Seq(M), Len(a) = Len(b),
           \A k \in 1..Len(a) : a[k] = b[k]
    PROVE  a = b
OBVIOUS

LEMMA Joined ==
    ASSUME NEW a \in Seq(STRING), NEW b \in Seq(STRING)
    PROVE  /\ a \o b \in Seq(STRING) /\ Len(a \o b) = Len(a) + Len(b)
           /\ \A k \in 1..Len(a) : (a \o b)[k] = a[k]
           /\ \A k \in 1..Len(b) : (a \o b)[Len(a) + k] = b[k]
BY BothIs

\* p is the beginning of c, and c is longer.
LEMMA InIs ==
    ASSUME NEW c \in Seq(STRING), NEW p \in Seq(STRING)
    PROVE  In(c, p) <=> Len(p) < Len(c) /\ \A k \in 1..Len(p) : c[k] = p[k]
<1>1. Len(c) \in Nat /\ Len(p) \in Nat OBVIOUS
<1>2. CASE Len(p) < Len(c)
  <2>1. /\ SubSeq(c, 1, Len(p)) \in Seq(STRING) /\ Len(SubSeq(c, 1, Len(p))) = Len(p)
        /\ \A k \in 1..Len(p) : SubSeq(c, 1, Len(p))[k] = c[k]
    BY <1>1, <1>2
  <2>2. SubSeq(c, 1, Len(p)) = p <=> \A k \in 1..Len(p) : c[k] = p[k]
    BY <2>1, SameSequence
  <2> QED BY <1>2, <2>2 DEF In
<1> QED BY <1>2 DEF In

LEMMA PrefixIs ==
    ASSUME NEW x \in Seq(STRING), NEW n \in 1..Len(x)
    PROVE  /\ SubSeq(x, 1, n) \in Seq(STRING) /\ Len(SubSeq(x, 1, n)) = n
           /\ \A k \in 1..n : SubSeq(x, 1, n)[k] = x[k]
           /\ n = Len(x) => SubSeq(x, 1, n) = x
           /\ n < Len(x) => In(x, SubSeq(x, 1, n))
<1>1. Len(x) \in Nat OBVIOUS
<1>2. /\ SubSeq(x, 1, n) \in Seq(STRING) /\ Len(SubSeq(x, 1, n)) = n
      /\ \A k \in 1..n : SubSeq(x, 1, n)[k] = x[k]
  BY <1>1
<1>3. n = Len(x) => SubSeq(x, 1, n) = x BY <1>2, SameSequence
<1>4. n < Len(x) => In(x, SubSeq(x, 1, n)) BY <1>2, InIs
<1> QED BY <1>2, <1>3, <1>4

\* What is above x is not below p unless x is.
LEMMA PrefixBelow ==
    ASSUME NEW x \in Seq(STRING), NEW p \in Seq(STRING), NEW n \in 1..Len(x),
           SubSeq(x, 1, n) = p \/ In(SubSeq(x, 1, n), p)
    PROVE  x = p \/ In(x, p)
<1> DEFINE y == SubSeq(x, 1, n)
<1>1. /\ y \in Seq(STRING) /\ Len(y) = n /\ Len(x) \in Nat /\ Len(p) \in Nat
      /\ \A k \in 1..n : y[k] = x[k]
      /\ n = Len(x) => y = x
      /\ n < Len(x) => In(x, y)
  BY PrefixIs
<1> HIDE DEF y
<1>2. CASE y = p BY <1>1, <1>2
<1>3. CASE In(y, p)
  <2>1. Len(p) < n /\ \A k \in 1..Len(p) : y[k] = p[k] BY <1>1, <1>3, InIs
  <2>2. Len(p) < Len(x) /\ \A k \in 1..Len(p) : x[k] = p[k] BY <2>1, <1>1
  <2> QED BY <2>2, InIs
<1> QED BY <1>2, <1>3 DEF y

LEMMA MovedIs ==
    ASSUME NEW c \in Seq(STRING), NEW p \in Seq(STRING), NEW q \in Seq(STRING), In(c, p)
    PROVE  /\ Moved(c, p, q) \in Seq(STRING)
           /\ Len(Moved(c, p, q)) = Len(q) + (Len(c) - Len(p))
           /\ \A k \in 1..Len(q) : Moved(c, p, q)[k] = q[k]
           /\ \A k \in 1..(Len(c) - Len(p)) : Moved(c, p, q)[Len(q) + k] = c[Len(p) + k]
           /\ In(Moved(c, p, q), q)
<1> DEFINE rest == SubSeq(c, Len(p) + 1, Len(c))
           w == q \o rest
<1>1. Len(c) \in Nat /\ Len(p) \in Nat /\ Len(q) \in Nat /\ Len(p) < Len(c) BY DEF In
<1>2. /\ rest \in Seq(STRING) /\ Len(rest) = Len(c) - Len(p)
      /\ \A k \in 1..(Len(c) - Len(p)) : rest[k] = c[Len(p) + k]
  BY <1>1
<1>3. w = Moved(c, p, q) BY DEF Moved
<1> HIDE DEF rest
<1>4. /\ w \in Seq(STRING) /\ Len(w) = Len(q) + Len(rest)
      /\ \A k \in 1..Len(q) : w[k] = q[k]
      /\ \A k \in 1..Len(rest) : w[Len(q) + k] = rest[k]
  BY ONLY <1>2, q \in Seq(STRING), Joined
<1> HIDE DEF w
<1>5. In(w, q)
  <2>1. Len(q) < Len(w) BY <1>1, <1>2, <1>4
  <2> QED BY <2>1, <1>4, InIs
<1> QED BY <1>1, <1>2, <1>3, <1>4, <1>5

LEMMA MovedBack ==
    ASSUME NEW c \in Seq(STRING), NEW p \in Seq(STRING), NEW q \in Seq(STRING), In(c, p)
    PROVE  Moved(Moved(c, p, q), q, p) = c
<1> DEFINE w == Moved(c, p, q)
           v == Moved(w, q, p)
<1>1. Len(c) \in Nat /\ Len(p) \in Nat /\ Len(q) \in Nat /\ Len(p) < Len(c)
      /\ \A k \in 1..Len(p) : c[k] = p[k]
  BY InIs
<1>2. /\ w \in Seq(STRING) /\ Len(w) = Len(q) + (Len(c) - Len(p)) /\ In(w, q)
      /\ \A k \in 1..(Len(c) - Len(p)) : w[Len(q) + k] = c[Len(p) + k]
  BY MovedIs
<1> HIDE DEF w
<1>3. /\ v \in Seq(STRING) /\ Len(v) = Len(p) + (Len(w) - Len(q))
      /\ \A k \in 1..Len(p) : v[k] = p[k]
      /\ \A k \in 1..(Len(w) - Len(q)) : v[Len(p) + k] = w[Len(q) + k]
  BY <1>2, MovedIs, ZenonT(60)
<1> HIDE DEF v
<1>4. Len(v) = Len(c) /\ Len(w) - Len(q) = Len(c) - Len(p) BY <1>1, <1>2, <1>3
<1>5. \A k \in 1..Len(c) : v[k] = c[k]
  <2> SUFFICES ASSUME NEW k \in 1..Len(c) PROVE v[k] = c[k] OBVIOUS
  <2>1. CASE k \in 1..Len(p) BY <2>1, <1>1, <1>3
  <2>2. CASE k \notin 1..Len(p)
    <3>1. (k - Len(p)) \in 1..(Len(c) - Len(p)) /\ Len(p) + (k - Len(p)) = k BY <2>2, <1>1
    <3> QED BY <3>1, <1>2, <1>3, <1>4
  <2> QED BY <2>1, <2>2
<1>6. v = c BY <1>3, <1>4, <1>5, SameSequence
<1> QED BY <1>6 DEF v, w

\* What is above a moved path is above the new place, or is moved itself.
LEMMA MovedPrefix ==
    ASSUME NEW c \in Seq(STRING), NEW p \in Seq(STRING), NEW q \in Seq(STRING), In(c, p),
           NEW n \in 1..Len(Moved(c, p, q))
    PROVE  \/ n \in 1..Len(q) /\ SubSeq(Moved(c, p, q), 1, n) = SubSeq(q, 1, n)
           \/ \E m \in 1..Len(c) : /\ In(SubSeq(c, 1, m), p)
                                   /\ SubSeq(Moved(c, p, q), 1, n) = Moved(SubSeq(c, 1, m), p, q)
<1> DEFINE w == Moved(c, p, q)
           y == SubSeq(w, 1, n)
<1>1. Len(c) \in Nat /\ Len(p) \in Nat /\ Len(q) \in Nat /\ Len(p) < Len(c)
      /\ \A k \in 1..Len(p) : c[k] = p[k]
  BY InIs
<1>2. /\ w \in Seq(STRING) /\ Len(w) = Len(q) + (Len(c) - Len(p))
      /\ \A k \in 1..Len(q) : w[k] = q[k]
      /\ \A k \in 1..(Len(c) - Len(p)) : w[Len(q) + k] = c[Len(p) + k]
  BY MovedIs
<1> HIDE DEF w
<1>3. y \in Seq(STRING) /\ Len(y) = n /\ \A k \in 1..n : y[k] = w[k] /\ n \in 1..Len(w)
  <2>1. n \in 1..Len(w) BY DEF w
  <2> QED BY <2>1, <1>2, PrefixIs
<1> HIDE DEF y
<1>4. CASE n <= Len(q)
  <2>1. n \in 1..Len(q) BY <1>3, <1>4, <1>1
  <2>2. /\ SubSeq(q, 1, n) \in Seq(STRING) /\ Len(SubSeq(q, 1, n)) = n
        /\ \A k \in 1..n : SubSeq(q, 1, n)[k] = q[k]
    BY <2>1, PrefixIs
  <2>3. \A k \in 1..n : y[k] = SubSeq(q, 1, n)[k]
    <3> SUFFICES ASSUME NEW k \in 1..n PROVE y[k] = SubSeq(q, 1, n)[k] OBVIOUS
    <3>1. k \in 1..Len(q) BY <2>1, <1>1
    <3>2. y[k] = q[k] BY <3>1, <1>2, <1>3
    <3>3. SubSeq(q, 1, n)[k] = q[k] BY <2>2
    <3> QED BY <3>2, <3>3
  <2>4. y = SubSeq(q, 1, n) BY <2>2, <2>3, <1>3, SameSequence
  <2> QED BY <2>1, <2>4 DEF y, w
<1>5. CASE ~(n <= Len(q))
  <2> DEFINE m == n - Len(q) + Len(p)
             d == SubSeq(c, 1, m)
             v == Moved(d, p, q)
  <2>1. m \in 1..Len(c) /\ Len(p) < m BY <1>1, <1>2, <1>3, <1>5
  <2>2. d \in Seq(STRING) /\ Len(d) = m /\ \A k \in 1..m : d[k] = c[k]
    <3> HIDE DEF m
    <3> QED BY <2>1, PrefixIs
  <2>3. \A k \in 1..Len(p) : d[k] = p[k]
    <3> HIDE DEF d, m
    <3> QED BY <2>1, <2>2, <1>1
  <2> HIDE DEF d
  <2>4. In(d, p) BY <2>1, <2>2, <2>3, InIs
  <2>5. /\ v \in Seq(STRING) /\ Len(v) = Len(q) + (Len(d) - Len(p))
        /\ \A k \in 1..Len(q) : v[k] = q[k]
        /\ \A k \in 1..(Len(d) - Len(p)) : v[Len(q) + k] = d[Len(p) + k]
    BY <2>2, <2>4, MovedIs, ZenonT(60)
  <2> HIDE DEF v
  <2>6. Len(v) = n /\ Len(d) - Len(p) = n - Len(q) BY <2>2, <2>5, <1>1, <1>3
  <2>7. \A k \in 1..n : y[k] = v[k]
    <3> SUFFICES ASSUME NEW k \in 1..n PROVE y[k] = v[k] OBVIOUS
    <3>1. CASE k \in 1..Len(q) BY <3>1, <2>5, <1>2, <1>3
    <3>2. CASE k \notin 1..Len(q)
      <4> DEFINE j == k - Len(q)
      <4>1. j \in 1..(n - Len(q)) /\ Len(q) + j = k /\ j \in 1..(Len(c) - Len(p)) /\ Len(p) + j \in 1..m
        BY <3>2, <1>1, <1>2, <1>3, <1>5
      <4> HIDE DEF j, m
      <4>2. w[k] = c[Len(p) + j] BY <4>1, <1>2
      <4>3. v[k] = d[Len(p) + j] BY <4>1, <2>5, <2>6
      <4>4. d[Len(p) + j] = c[Len(p) + j] BY <4>1, <2>2
      <4> QED BY <4>2, <4>3, <4>4, <1>3
    <3> QED BY <3>1, <3>2
  <2>8. y = v BY <2>5, <2>6, <2>7, <1>3, SameSequence
  <2> HIDE DEF m
  <2> QED BY <2>1, <2>4, <2>8 DEF y, w, v, d
<1> QED BY <1>4, <1>5, <1>1, <1>3

-----------------------------------------------------------------------------
(* What the invariant needs of each action                                 *)

LEMMA SameTables ==
    ASSUME TablesSound, UNCHANGED tables
    PROVE  TablesSound' /\ list' = list /\ map' = map /\ rows' = rows
BY DEF TablesSound, tables

LEMMA SameDisk ==
    ASSUME DiskOK, disk' = disk
    PROVE  DiskOK'
BY DEF DiskOK

LEMMA NothingPosted ==
    ASSUME MessagesOK, VerdictLast, ThreadOK, map' = map, disk' = disk, Posted' = Posted
    PROVE  MessagesOK'
BY DEF MessagesOK

LEMMA MoreMessages ==
    ASSUME MessagesOK, ThreadOK, map' = map, NEW ms \in Seq(Messages), Posted' = Posted \o ms,
           NewNames(ms, disk), ToldGone(ms, disk, disk')
    PROVE  MessagesOK'
<1>1. Posted \in Seq(Messages) BY PostedIs
<1>2. NamesFree(map, Posted \o ms) /\ GoneFree(map, Posted \o ms, disk')
  BY <1>1, PostMessages DEF MessagesOK
<1> QED BY <1>2 DEF MessagesOK

\* A work that has not posted its verdict may post other messages.
LEMMA NoVerdict ==
    ASSUME ThreadOK, VerdictLast, work # "ended", NEW ms \in Seq(Messages),
           \A k \in 1..Len(ms) : ms[k].type # "finished"
    PROVE  \A k \in 1..Len(Posted \o ms) : (Posted \o ms)[k].type # "finished"
<1> DEFINE b == Posted \o ms
           l == Len(Posted)
<1>1. Posted \in Seq(Messages) BY PostedIs
<1>2. /\ l \in Nat /\ Len(ms) \in Nat /\ Len(b) = l + Len(ms)
      /\ \A k \in 1..l : b[k] = Posted[k]
      /\ \A k \in 1..Len(ms) : b[l + k] = ms[k]
  BY <1>1, BothIs
<1>3. \A k \in 1..l : Posted[k].type # "finished" BY DEF VerdictLast
<1> HIDE DEF b, l
<1> SUFFICES ASSUME NEW k \in 1..Len(b) PROVE b[k].type # "finished" BY DEF b
<1>4. CASE k \in 1..l BY <1>2, <1>3, <1>4
<1>5. CASE k \notin 1..l
  <2>1. (k - l) \in 1..Len(ms) /\ l + (k - l) = k BY <1>2, <1>5
  <2>2. b[k] = ms[k - l] BY <2>1, <1>2
  <2> QED BY <2>1, <2>2
<1> QED BY <1>4, <1>5

LEMMA HandleInv ==
    ASSUME Inv, Handle
    PROVE  Inv' /\ Posted' = Tail(Posted)
<1> DEFINE m == Posted[1]
           N == Len(Posted)
<1>1. TablesSound' BY HandleSound DEF Inv
<1>2. Posted' = Tail(Posted) /\ MessagesOK' BY HandleMessages DEF Inv
<1>3. /\ disk' = disk /\ batch' = batch /\ queue' = Tail(queue) /\ side' = side /\ todo' = todo
      /\ again' = again /\ done' = done /\ backend' = backend
  BY DEF Handle
<1>4. /\ queue \in Seq(Messages) /\ queue # <<>> /\ Posted # <<>> /\ Head(queue) = m
      /\ N \in Nat /\ 1 \in 1..N /\ Posted \in Seq(Messages)
  BY PostedIs DEF Handle, Inv
<1>5. Len(queue) \in Nat /\ Len(queue) >= 1 /\ Tail(queue) \in Seq(Messages)
      /\ Len(Tail(queue)) = Len(queue) - 1
      /\ \A k \in 1..(Len(queue) - 1) : Tail(queue)[k] = queue[k + 1]
  BY <1>4, TailIs
<1>6. N >= 1 /\ Len(Tail(Posted)) = N - 1 /\ \A k \in 1..(N - 1) : Tail(Posted)[k] = Posted[k + 1]
  BY <1>4, TailIs
<1>7. \/ m.type = "finished" /\ work' = "idle" /\ work = "ended" /\ N = 1
      \/ m.type # "finished" /\ work' = work
  <2>1. m.type = "finished" => work = "ended" /\ N = 1 BY <1>4 DEF VerdictLast, Inv
  <2>2. m \in Messages BY <1>4
  <2>3. m.type \in {"ignore", "finished", "remove", "transfer", "rename"}
    BY <2>2, MessageIs DEF RowMessages
  <2>4. m.type = "finished" => work' = "idle" BY <1>4 DEF Handle
  <2>5. m.type # "finished" => work' = work
    <3>1. CASE m.type = "remove" BY <3>1, <1>4 DEF Handle
    <3>2. CASE m.type = "transfer" BY <3>2, <1>4 DEF Handle
    <3>3. CASE m.type = "rename" BY <3>3, <1>4 DEF Handle
    <3>4. CASE m.type = "ignore" BY <3>4, <1>4 DEF Handle
    <3> QED BY <3>1, <3>2, <3>3, <3>4, <2>3
  <2> QED BY <2>1, <2>4, <2>5
<1>8. DiskOK' BY <1>3, SameDisk DEF Inv
<1> HIDE DEF m
<1>9. ThreadOK'
  <2>1. /\ queue' \in Seq(Messages) /\ batch' \in Seq(Messages) /\ work' \in Phases
    BY <1>3, <1>5, <1>7 DEF ThreadOK, Inv, Phases
  <2>2. work' \in {"idle", "ended", "delete"} => work \in {"idle", "ended", "delete"} BY <1>7
  <2>3. work' \in {"idle", "ended"} => work \in {"idle", "ended"} BY <1>7
  <2> QED BY <2>1, <2>2, <2>3, <1>3 DEF ThreadOK, Inv, Tasks
<1>10. BatchOK'
  <2>1. work' \in {"delete", "copy", "report"} => work' = work BY <1>7
  <2> QED BY <2>1, <1>3 DEF BatchOK, Inv, CopiesLeft, Tasks
<1>11. VerdictLast'
  <2>1. ASSUME NEW k \in 1..(N - 1), Tail(Posted)[k].type = "finished"
        PROVE  k = N - 1 /\ work' = "ended"
    <3>1. Posted[k + 1].type = "finished" /\ (k + 1) \in 1..N BY <2>1, <1>4, <1>6
    <3>2. k + 1 = N /\ work = "ended" BY <3>1 DEF VerdictLast, Inv
    <3>3. N # 1 BY <3>2, <2>1, <1>4
    <3> QED BY <3>2, <3>3, <1>4, <1>7
  <2>2. ASSUME work' = "idle", NEW k \in 1..(Len(queue) - 1)
        PROVE  Tail(queue)[k].type # "transfer"
    <3>1. Tail(queue)[k] = queue[k + 1] /\ (k + 1) \in 1..Len(queue) BY <1>5
    <3>2. CASE work = "idle" BY <3>1, <3>2 DEF VerdictLast, Inv
    <3>3. CASE N = 1
      <4>1. Len(queue) <= N
        <5>1. Len(Posted) = Len(queue) + Len(batch) /\ Len(batch) \in Nat
          BY PostedIs, BothIs DEF Posted, Inv
        <5> QED BY <5>1, <1>5
      <4> QED BY <4>1, <3>3, <1>5
    <3> QED BY <3>2, <3>3, <2>2, <1>7
  <2> QED BY <2>1, <2>2, <1>2, <1>3, <1>5, <1>6 DEF VerdictLast
<1> QED BY <1>1, <1>2, <1>8, <1>9, <1>10, <1>11 DEF Inv

LEMMA FlushInv ==
    ASSUME Inv, FlushBatch
    PROVE  Inv' /\ Posted' = Posted
<1>1. /\ queue' = queue \o batch /\ batch' = <<>> /\ batch # <<>> /\ disk' = disk /\ work' = work
      /\ side' = side /\ todo' = todo /\ again' = again /\ done' = done
      /\ backend' = backend /\ UNCHANGED tables
  BY DEF FlushBatch
<1>2. queue \in Seq(Messages) /\ batch \in Seq(Messages) /\ Posted \in Seq(Messages)
  BY PostedIs DEF Inv
<1>3. Posted' = Posted
  <2>1. Posted' = (queue \o batch) \o <<>> BY <1>1 DEF Posted
  <2>2. queue \o batch \in Seq(Messages) BY <1>2
  <2> QED BY <2>1, <2>2 DEF Posted
<1>4. TablesSound' /\ map' = map BY <1>1, SameTables DEF Inv
<1>5. DiskOK' BY <1>1, SameDisk DEF Inv
<1>6. ThreadOK'
  <2>1. queue' \in Seq(Messages) /\ batch' \in Seq(Messages) BY <1>1, <1>2
  <2> QED BY <2>1, <1>1 DEF ThreadOK, Inv, Tasks
<1>7. BatchOK'
  <2>1. Len(batch') = 0 BY <1>1
  <2>2. 1..Len(batch') = {} BY <2>1
  <2> QED BY <2>2, <1>1 DEF BatchOK, Inv, CopiesLeft, Tasks
<1>8. VerdictLast'
  <2>1. work # "idle" BY <1>1 DEF ThreadOK, Inv
  <2> QED BY <2>1, <1>1, <1>3 DEF VerdictLast, Inv
<1>9. MessagesOK' BY <1>1, <1>3, <1>4, NothingPosted DEF Inv
<1> QED BY <1>3, <1>4, <1>5, <1>6, <1>7, <1>8, <1>9 DEF Inv

LEMMA PhaseInv ==
    ASSUME Inv, StartCopies \/ EndCopies \/ Abort
    PROVE  Inv' /\ Posted' = Posted
<1>1. /\ queue' = queue /\ batch' = batch /\ disk' = disk
      /\ side' = side /\ todo' = todo /\ again' = again /\ done' = done
      /\ backend' = backend /\ UNCHANGED tables
      /\ \/ work = "delete" /\ work' = "copy" /\ Tasks("delete") = {}
         \/ work = "copy" /\ work' = "report"
         \/ work \in {"delete", "copy", "report"} /\ work' = "flush"
  BY DEF StartCopies, EndCopies, Abort
<1>2. Posted' = Posted BY <1>1 DEF Posted
<1>3. TablesSound' /\ map' = map BY <1>1, SameTables DEF Inv
<1>4. DiskOK' BY <1>1, SameDisk DEF Inv
<1>5. ThreadOK' BY <1>1 DEF ThreadOK, Inv, Tasks, Phases
<1>6. BatchOK'
  <2>1. \A k, l \in 1..Len(batch') : batch'[k].type = batch'[l].type BY <1>1 DEF BatchOK, Inv
  <2>2. CopiesLeft' <=> CopiesLeft BY <1>1 DEF CopiesLeft, Tasks
  <2>3. CopiesLeft' /\ side' = "L" => Tasks("delete")' = {}
    BY <2>2, <1>1 DEF BatchOK, Inv, Tasks
  <2>4. ASSUME CopiesLeft, work' \in {"copy", "report"}
        PROVE  \A k \in 1..Len(batch') : batch'[k].side = "R"
    <3>1. CASE work = "copy" BY <2>4, <3>1, <1>1 DEF BatchOK, Inv
    <3>2. CASE work = "delete" /\ side = "L"
      <4>1. batch = <<>> BY <2>4, <3>2 DEF BatchOK, Inv
      <4> QED BY <4>1, <1>1
    <3>3. CASE work = "delete" /\ side = "R" BY <3>3, <1>1 DEF BatchOK, Inv
    <3>4. side = "L" \/ side = "R" BY SideIs DEF ThreadOK, Inv
    <3> QED BY <3>1, <3>2, <3>3, <3>4, <2>4, <1>1
  <2> QED BY <2>1, <2>2, <2>3, <2>4, <1>1 DEF BatchOK
<1>7. VerdictLast'
  <2>1. \A k \in 1..Len(Posted) : Posted[k].type # "finished" BY <1>1 DEF VerdictLast, Inv
  <2> QED BY <2>1, <1>1, <1>2 DEF VerdictLast
<1>8. MessagesOK' BY <1>1, <1>2, <1>3, NothingPosted DEF Inv
<1> QED BY <1>2, <1>3, <1>4, <1>5, <1>6, <1>7, <1>8 DEF Inv

LEMMA PlainMessages ==
    ASSUME NEW m \in Messages, m.type \in {"ignore", "finished"}, NEW dk, NEW nd,
           \A s \in Side : DOMAIN dk[s] \subseteq DOMAIN nd[s]
    PROVE  /\ <<m>> \in Seq(Messages) /\ NewNames(<<m>>, dk) /\ ToldGone(<<m>>, dk, nd)
           /\ \A s, x : ~Vacates(m, s, x) /\ ~Fills(m, s, x)
<1>1. <<m>> \in Seq(Messages) /\ Len(<<m>>) = 1 /\ \A k \in 1..1 : <<m>>[k] = m OBVIOUS
<1>2. \A s, x : ~Vacates(m, s, x) /\ ~Fills(m, s, x) BY DEF Vacates, Fills
<1>3. NewNames(<<m>>, dk) BY <1>1 DEF NewNames
<1>4. ToldGone(<<m>>, dk, nd) BY <1>1, <1>2 DEF ToldGone
<1> QED BY <1>1, <1>2, <1>3, <1>4

LEMMA FinishInv ==
    ASSUME Inv, Finish
    PROVE  Inv' /\ Of("finished", side, <<>>) \in Messages
           /\ Posted' = Posted \o <<Of("finished", side, <<>>)>>
<1> DEFINE m == Of("finished", side, <<>>)
<1>1. /\ work \in {"flush", "report"} /\ work' = "ended" /\ batch' = <<>> /\ side' = "L"
      /\ todo' = {} /\ again' = {} /\ done' = {} /\ disk' = disk
      /\ queue' = queue \o batch \o <<m>> /\ UNCHANGED tables
  BY DEF Finish
<1>2. queue \in Seq(Messages) /\ batch \in Seq(Messages) /\ Posted \in Seq(Messages)
      /\ Len(Posted) \in Nat /\ side \in Side
  BY PostedIs DEF Inv, ThreadOK
<1>3. m \in Messages /\ m.type = "finished" BY <1>2 DEF Of, Message, Messages
<1> HIDE DEF m
<1>4. /\ <<m>> \in Seq(Messages) /\ NewNames(<<m>>, disk) /\ ToldGone(<<m>>, disk, disk)
  BY <1>3, PlainMessages
<1>5. queue' = Posted \o <<m>> BY <1>1 DEF Posted
<1>6. queue' \in Seq(Messages) /\ Len(queue') = Len(Posted) + 1 /\ queue'[Len(Posted) + 1] = m
      /\ \A k \in 1..Len(Posted) : queue'[k] = Posted[k]
  BY <1>2, <1>3, <1>5
<1>7. Posted' = Posted \o <<m>>
  <2>1. Posted' = queue' \o <<>> BY <1>1 DEF Posted
  <2> QED BY <2>1, <1>5, <1>6
<1>8. TablesSound' /\ map' = map BY <1>1, SameTables DEF Inv
<1>9. DiskOK' BY <1>1, SameDisk DEF Inv
<1>10. ThreadOK'
  <2>1. Tasks("delete")' = {} BY <1>1 DEF Tasks
  <2>2. <<>> \in Seq(Messages) /\ "L" \in Side BY SideIs
  <2> QED BY <2>1, <2>2, <1>1, <1>6 DEF ThreadOK, Phases
<1>11. BatchOK'
  <2>1. Len(batch') = 0 BY <1>1
  <2>2. 1..Len(batch') = {} BY <2>1
  <2>3. ~CopiesLeft' BY <1>1 DEF CopiesLeft, Tasks
  <2> QED BY <2>2, <2>3, <1>1 DEF BatchOK
<1>12. VerdictLast'
  <2>1. \A k \in 1..Len(Posted) : Posted[k].type # "finished" BY <1>1 DEF VerdictLast, Inv
  <2>2. Posted' = queue' BY <1>5, <1>7
  <2>3. \A k \in 1..Len(queue') : queue'[k].type = "finished" => k = Len(queue')
    <3> SUFFICES ASSUME NEW k \in 1..Len(queue'), queue'[k].type = "finished" PROVE k = Len(queue')
      OBVIOUS
    <3>1. k \notin 1..Len(Posted) BY <2>1, <1>6
    <3> QED BY <3>1, <1>2, <1>6
  <2> QED BY <2>2, <2>3, <1>1 DEF VerdictLast
<1>13. MessagesOK' BY <1>1, <1>4, <1>7, <1>8, MoreMessages DEF Inv
<1> QED BY <1>3, <1>7, <1>8, <1>9, <1>10, <1>11, <1>12, <1>13 DEF Inv, m

LEMMA SelectInv ==
    ASSUME Inv, NEW r \in DOMAIN rows, Select(r)
    PROVE  Inv' /\ Posted' = Posted
<1>1. /\ UNCHANGED <<disk, list, map, queue, batch, work, side, todo, again, done, backend>>
  BY DEF Select, thread
<1>2. TablesSound' BY SelectSound DEF Inv
<1>3. Posted' = Posted BY <1>1 DEF Posted
<1>4. DiskOK' BY <1>1, SameDisk DEF Inv
<1>5. ThreadOK' BY <1>1 DEF ThreadOK, Inv, Tasks
<1>6. BatchOK' BY <1>1 DEF BatchOK, Inv, CopiesLeft, Tasks
<1>7. VerdictLast' BY <1>1, <1>3 DEF VerdictLast, Inv
<1>8. MessagesOK' BY <1>1, <1>3, NothingPosted DEF Inv
<1> QED BY <1>2, <1>3, <1>4, <1>5, <1>6, <1>7, <1>8 DEF Inv

LEMMA IgnoreInv ==
    ASSUME Inv, NEW rule, Ignore(rule)
    PROVE  Inv' /\ Of("ignore", "L", <<>>) \in Messages
           /\ Posted' = Posted \o <<Of("ignore", "L", <<>>)>>
<1> DEFINE m == Of("ignore", "L", <<>>)
<1>1. /\ work = "idle" /\ queue' = Append(queue, m) /\ disk' = disk
      /\ UNCHANGED <<batch, work, side, todo, again, done, backend>> /\ UNCHANGED tables
  BY DEF Ignore, thread, UserMay
<1>2. queue \in Seq(Messages) /\ Posted \in Seq(Messages) /\ batch = <<>>
      /\ Len(queue) \in Nat
  BY <1>1, PostedIs DEF Inv, ThreadOK
<1>3. m \in Messages /\ m.type = "ignore" BY SideIs DEF Of, Message, Messages
<1> HIDE DEF m
<1>4. /\ <<m>> \in Seq(Messages) /\ NewNames(<<m>>, disk) /\ ToldGone(<<m>>, disk, disk)
  BY <1>3, PlainMessages
<1>5. Posted = queue BY <1>2 DEF Posted
<1>6. /\ queue' \in Seq(Messages) /\ Len(queue') = Len(queue) + 1 /\ queue' = queue \o <<m>>
      /\ queue'[Len(queue) + 1] = m /\ \A k \in 1..Len(queue) : queue'[k] = queue[k]
  BY <1>1, <1>2, <1>3
<1>7. Posted' = Posted \o <<m>> /\ Posted' = queue'
  <2>1. Posted' = queue' \o <<>> BY <1>1, <1>2 DEF Posted
  <2> QED BY <2>1, <1>5, <1>6
<1>8. TablesSound' /\ map' = map BY <1>1, SameTables DEF Inv
<1>9. DiskOK' BY <1>1, SameDisk DEF Inv
<1>10. ThreadOK' BY <1>1, <1>6 DEF ThreadOK, Inv, Tasks
<1>11. BatchOK' BY <1>1 DEF BatchOK, Inv, CopiesLeft, Tasks
<1>12. VerdictLast'
  <2>1. \A k \in 1..Len(queue) : queue[k].type # "finished" /\ queue[k].type # "transfer"
    BY <1>1, <1>5 DEF VerdictLast, Inv
  <2>2. \A k \in 1..Len(queue') : queue'[k].type # "finished" /\ queue'[k].type # "transfer"
    <3> SUFFICES ASSUME NEW k \in 1..Len(queue')
                 PROVE  queue'[k].type # "finished" /\ queue'[k].type # "transfer"
      OBVIOUS
    <3>1. CASE k \in 1..Len(queue) BY <3>1, <2>1, <1>6
    <3>2. CASE k \notin 1..Len(queue)
      <4>1. k = Len(queue) + 1 BY <3>2, <1>2, <1>6
      <4> QED BY <4>1, <1>3, <1>6
    <3> QED BY <3>1, <3>2
  <2> QED BY <2>2, <1>7 DEF VerdictLast
<1>13. MessagesOK' BY <1>1, <1>4, <1>7, <1>8, MoreMessages DEF Inv
<1> QED BY <1>3, <1>7, <1>8, <1>9, <1>10, <1>11, <1>12, <1>13 DEF Inv, m

LEMMA PathOfIs ==
    ASSUME TablesSound, NEW r \in DOMAIN rows
    PROVE  /\ PathOf(r) \in Paths
           /\ \A s \in Side : rows[r][s] # 0 =>
                 rows[r][s] \in 1..Len(list[s]) /\ list[s][rows[r][s]].path = PathOf(r)
<1>1. list \in [Side -> Seq(Entries)] /\ rows \in Seq(RowsType) BY TablesTypes
<1>2. r \in 1..Len(rows) /\ (1..Len(rows)) \ {} = 1..Len(rows) BY <1>1
<1>3. rows[r]["L"] # 0 \/ rows[r]["R"] # 0 BY <1>2 DEF TablesSound, Sound, NoEmptyRow
<1>4. \A s \in Side : rows[r][s] # 0 => rows[r][s] \in 1..Len(list[s])
  BY <1>2 DEF TablesSound, Sound, RowsPoint
<1>5. \A s \in Side : rows[r][s] # 0 => list[s][rows[r][s]].path \in Paths
  <2> SUFFICES ASSUME NEW s \in Side, rows[r][s] # 0 PROVE list[s][rows[r][s]].path \in Paths
    OBVIOUS
  <2>1. list[s][rows[r][s]] \in Entries BY <1>1, <1>4
  <2> QED BY <2>1 DEF Entries
<1>6. \A s, t \in Side : rows[r][s] # 0 /\ rows[r][t] # 0 =>
         list[s][rows[r][s]].path = list[t][rows[r][t]].path
  BY <1>2 DEF TablesSound, Sound, OneRowPerPath
<1>7. "L" \in Side /\ "R" \in Side /\ \A s \in Side : s = "L" \/ s = "R" BY SideIs
<1>8. CASE rows[r]["L"] # 0
  <2>1. PathOf(r) = list["L"][rows[r]["L"]].path BY <1>8 DEF PathOf
  <2> QED BY <2>1, <1>4, <1>5, <1>6, <1>7, <1>8
<1>9. CASE rows[r]["L"] = 0
  <2>1. PathOf(r) = list["R"][rows[r]["R"]].path BY <1>9 DEF PathOf
  <2> QED BY <2>1, <1>3, <1>4, <1>5, <1>6, <1>7, <1>9
<1> QED BY <1>8, <1>9

LEMMA StartInv ==
    ASSUME Inv, work = "idle", NEW s \in Side, NEW copy, NEW delete, delete \subseteq Paths,
           copy = {} \/ s = "R" \/ delete = {}, Start(s, copy, delete)
    PROVE  Inv' /\ Posted' = Posted
<1>1. /\ work' = "delete" /\ side' = s
      /\ todo' = {Of("copy", s, p) : p \in copy} \cup {Of("delete", s, p) : p \in delete}
      /\ again' \subseteq copy /\ done' = {}
      /\ UNCHANGED <<disk, queue, batch>> /\ UNCHANGED tables
  BY DEF Start
<1>2. batch = <<>> /\ Len(batch) = 0 /\ 1..Len(batch) = {} BY DEF Inv, ThreadOK
<1>3. Posted' = Posted BY <1>1 DEF Posted
<1>4. TablesSound' /\ map' = map BY <1>1, SameTables DEF Inv
<1>5. DiskOK' BY <1>1, SameDisk DEF Inv
<1>6. Tasks("delete")' = {Of("delete", s, p) : p \in delete}
      /\ Tasks("copy")' = {Of("copy", s, p) : p \in copy}
  BY <1>1 DEF Tasks, Of, Message
<1>7. ThreadOK'
  <2>1. \A t \in Tasks("delete")' : t.path \in Paths BY <1>6 DEF Of, Message
  <2> QED BY <2>1, <1>1 DEF ThreadOK, Inv, Phases
<1>8. BatchOK'
  <2>1. CopiesLeft' => copy # {} BY <1>1, <1>6 DEF CopiesLeft
  <2>2. s = "L" /\ copy # {} => delete = {} BY SideIs
  <2>3. CopiesLeft' /\ side' = "L" => Tasks("delete")' = {} BY <2>1, <2>2, <1>1, <1>6
  <2>4. batch' = <<>> /\ 1..Len(batch') = {} BY <1>1, <1>2
  <2> QED BY <2>3, <2>4, <1>1 DEF BatchOK
<1>9. VerdictLast'
  <2>1. \A k \in 1..Len(Posted) : Posted[k].type # "finished" BY DEF VerdictLast, Inv
  <2> QED BY <2>1, <1>1, <1>3 DEF VerdictLast
<1>10. MessagesOK' BY <1>1, <1>3, <1>4, NothingPosted DEF Inv
<1> QED BY <1>3, <1>4, <1>5, <1>7, <1>8, <1>9, <1>10 DEF Inv

LEMMA TasksInv ==
    ASSUME Inv, \/ \E R \in SUBSET DOMAIN rows : StartSync(R) \/ \E s \in Side : StartApply(s, R)
                \/ \E s \in Side : StartDelete(s)
    PROVE  Inv' /\ Posted' = Posted
<1>1. \A R : R \subseteq DOMAIN rows => PathsOf(R) \subseteq Paths
  BY PathOfIs DEF PathsOf, Inv
<1>2. \A s : ShownOn(s) \subseteq DOMAIN rows BY DEF ShownOn
<1>3. Selected \subseteq DOMAIN rows BY DEF Selected
<1>4. ASSUME NEW R \in SUBSET DOMAIN rows, StartSync(R) PROVE Inv' /\ Posted' = Posted
  <2>1. /\ work = "idle"
        /\ Start("R", WithGroups("L", PathsOf(R \cup (ShownOn("L") \ ShownOn("R")))),
                 PathsOf(ShownOn("R") \ ShownOn("L")))
    BY <1>4 DEF StartSync, UserMay
  <2>2. PathsOf(ShownOn("R") \ ShownOn("L")) \subseteq Paths
    <3>1. ShownOn("R") \ ShownOn("L") \subseteq DOMAIN rows BY <1>2
    <3> QED BY <3>1, <1>1
  <2> QED BY <2>1, <2>2, SideIs, StartInv
<1>5. ASSUME NEW R \in SUBSET DOMAIN rows, NEW s \in Side, StartApply(s, R)
      PROVE  Inv' /\ Posted' = Posted
  <2>1. /\ work = "idle" /\ R \subseteq Selected \cap ShownOn(s)
        /\ Start(s, WithGroups(s, PathsOf(R \cap ShownOn("L"))), PathsOf(R \ ShownOn("L")))
    BY <1>5 DEF StartApply, UserMay
  <2>2. PathsOf(R \ ShownOn("L")) \subseteq Paths
    <3>1. R \ ShownOn("L") \subseteq DOMAIN rows OBVIOUS
    <3> QED BY <3>1, <1>1
  <2>3. s = "L" => PathsOf(R \ ShownOn("L")) = {}
    <3>1. s = "L" => R \ ShownOn("L") = {} BY <2>1
    <3> QED BY <3>1 DEF PathsOf
  <2>4. s = "R" \/ PathsOf(R \ ShownOn("L")) = {} BY <2>3, SideIs
  <2> QED BY <2>1, <2>2, <2>4, StartInv
<1>6. ASSUME NEW s \in Side, StartDelete(s) PROVE Inv' /\ Posted' = Posted
  <2>1. work = "idle" /\ Start(s, {}, PathsOf(Selected \cap ShownOn(s)))
    BY <1>6 DEF StartDelete, UserMay
  <2>2. PathsOf(Selected \cap ShownOn(s)) \subseteq Paths
    <3>1. Selected \cap ShownOn(s) \subseteq DOMAIN rows BY <1>2
    <3> QED BY <3>1, <1>1
  <2> QED BY <2>1, <2>2, StartInv
<1> QED BY <1>4, <1>5, <1>6

-----------------------------------------------------------------------------
(* The work thread removes and copies                                      *)

LEMMA PathsAre ==
    /\ IsFiniteSet(Paths) /\ \A p \in Paths : p \in Seq(STRING) /\ Len(p) \in Nat /\ Len(p) >= 1
    /\ \A p \in Paths : \A n \in 1..Len(p) : n < Len(p) => SubSeq(p, 1, n) \in Dirs
    /\ Dirs \subseteq Paths
<1>1. \A p \in Paths : p \in Seq(STRING) /\ p # <<>> BY RowAssumption
<1>2. \A p \in Paths : Len(p) \in Nat /\ Len(p) >= 1
  <2> SUFFICES ASSUME NEW p \in Paths PROVE Len(p) \in Nat /\ Len(p) >= 1 OBVIOUS
  <2>1. p \in Seq(STRING) /\ p # <<>> BY <1>1
  <2> QED BY <2>1, TailIs
<1>3. ASSUME NEW p \in Paths, NEW n \in 1..Len(p), n < Len(p) PROVE SubSeq(p, 1, n) \in Dirs
  <2>1. n \in 1..(Len(p) - 1) BY <1>2, <1>3
  <2> QED BY <2>1, RowAssumption
<1> QED BY <1>1, <1>2, <1>3, RowAssumption

\* A path is reported after everything that was removed below it.
LEMMA RemovalsAre ==
    ASSUME NEW s \in Side, NEW p, NEW gone, gone \subseteq Paths
    PROVE  LET ms == Removals(s, p, gone)
           IN  /\ ms \in Seq(Messages) /\ (ms = <<>> <=> gone = {})
               /\ \A k \in 1..Len(ms) : ms[k].type = "remove" /\ ms[k].side = s /\ ms[k].path \in gone
               /\ \A c \in gone : \E k \in 1..Len(ms) : ms[k].path = c
<1> DEFINE S == gone \ {p}
           n == Cardinality(S)
           below == Enumeration(S)
           w == [k \in DOMAIN below |-> Of("remove", s, below[k])]
           m == Of("remove", s, p)
           ms == Removals(s, p, gone)
<1>1. IsFiniteSet(S) BY PathsAre, FS_Subset
<1>2. S \subseteq Paths /\ p \notin S /\ (p \in gone => gone = S \cup {p}) /\ (p \notin gone => gone = S)
  OBVIOUS
<1>3. \A x \in Paths : /\ Of("remove", s, x) \in Messages
                       /\ Of("remove", s, x).type = "remove" /\ Of("remove", s, x).side = s
                       /\ Of("remove", s, x).path = x
  BY DEF Of, Message, Messages, RowMessages
<1>4. ms = IF p \in gone THEN Append(w, m) ELSE w BY DEF Removals
<1> HIDE DEF S
<1>5. /\ n \in Nat /\ below \in [1..n -> S] /\ \A x \in S : \E i \in 1..n : below[i] = x
  BY <1>1, EnumerationIs
<1> HIDE DEF n, below, ms
<1>6. w \in [1..n -> Messages] /\ \A k \in 1..n : w[k] = Of("remove", s, below[k]) /\ below[k] \in S
  BY <1>2, <1>3, <1>5
<1>7. w \in Seq(Messages) /\ Len(w) = n BY <1>5, <1>6
<1> HIDE DEF w
<1>8. \A k \in 1..n : w[k].type = "remove" /\ w[k].side = s /\ w[k].path = below[k] /\ below[k] \in S
  BY <1>2, <1>3, <1>6
<1>9. CASE p \notin gone
  <2>1. ms = w /\ gone = S BY <1>2, <1>4, <1>9
  <2>2. gone = {} => ms = <<>>
    <3>1. gone = {} => Len(w) = 0
      <4>1. n # 0 => 1 \in 1..n BY <1>5
      <4> QED BY <4>1, <2>1, <1>7, <1>8
    <3> QED BY <3>1, <2>1, <1>7
  <2>3. gone # {} => ms # <<>>
    <3>1. gone # {} => Len(w) # 0 BY <2>1, <1>5, <1>7
    <3> QED BY <3>1, <2>1
  <2>4. \A c \in gone : \E k \in 1..n : w[k].path = c BY <2>1, <1>5, <1>8
  <2> QED BY <2>1, <2>2, <2>3, <2>4, <1>7, <1>8 DEF ms
<1>10. CASE p \in gone
  <2>1. ms = Append(w, m) /\ gone = S \cup {p} BY <1>2, <1>4, <1>10
  <2>2. m \in Messages /\ m.type = "remove" /\ m.side = s /\ m.path = p BY <1>3, <1>10
  <2> HIDE DEF m
  <2>3. /\ ms \in Seq(Messages) /\ Len(ms) = n + 1
        /\ \A k \in 1..n : ms[k] = w[k]
        /\ ms[n + 1] = m
    BY <2>1, <2>2, <1>5, <1>7
  <2>4. ms # <<>>
    <3>1. Len(ms) # 0 BY <2>3, <1>5
    <3> QED BY <3>1
  <2>5. \A k \in 1..(n + 1) : k \in 1..n \/ k = n + 1 BY <1>5
  <2>6. \A k \in 1..(n + 1) : ms[k].type = "remove" /\ ms[k].side = s /\ ms[k].path \in gone
    BY <2>1, <2>2, <2>3, <2>5, <1>8
  <2>7. \A c \in gone : \E k \in 1..(n + 1) : ms[k].path = c
    <3> SUFFICES ASSUME NEW c \in gone PROVE \E k \in 1..(n + 1) : ms[k].path = c OBVIOUS
    <3>1. (n + 1) \in 1..(n + 1) /\ \A i \in 1..n : i \in 1..(n + 1) BY <1>5
    <3>2. CASE c = p BY <3>1, <3>2, <2>2, <2>3
    <3>3. CASE c \in S
      <4>1. PICK i \in 1..n : below[i] = c BY <3>3, <1>5
      <4>2. ms[i].path = c BY <4>1, <1>8, <2>3
      <4> QED BY <4>2, <3>1
    <3> QED BY <3>2, <3>3, <2>1
  <2> QED BY <2>3, <2>4, <2>6, <2>7, <1>10 DEF ms
<1> QED BY <1>9, <1>10

LEMMA PostMore ==
    ASSUME ThreadOK, \A k, l \in 1..Len(batch) : batch[k].type = batch[l].type,
           NEW ms \in Seq(Messages), ms # <<>>,
           \A k, l \in 1..Len(ms) : ms[k].type = ms[l].type,
           \A k \in 1..Len(batch), l \in 1..Len(ms) : batch[k].type = ms[l].type =>
              batch[k].side = ms[l].side,
           Post(Push(Open, ms))
    PROVE  /\ queue' \in Seq(Messages) /\ batch' \in Seq(Messages) /\ Posted' = Posted \o ms
           /\ \A k, l \in 1..Len(batch') : batch'[k].type = batch'[l].type
           /\ \A k \in 1..Len(batch') : \/ \E l \in 1..Len(batch) : batch'[k] = batch[l]
                                        \/ \E l \in 1..Len(ms) : batch'[k] = ms[l]
<1>1. batch \in Seq(Messages) /\ queue \in Seq(Messages) BY DEF ThreadOK
<1> DEFINE nb == Push(Open, ms)
<1>2. nb = Push(<<batch, queue>>, ms) BY DEF Open
<1>4. batch' = nb[1] /\ queue' = nb[2] BY DEF Post
<1> HIDE DEF nb
<1>3. PostsAfter(nb, batch, queue, ms) BY <1>1, <1>2, PushPosts
<1> QED BY <1>3, <1>4 DEF Posted, PostsAfter

\* What is removed is removed with all that is below it.
LEMMA WithoutOK ==
    ASSUME DiskOK, NEW s \in Side, NEW D, D \subseteq DOMAIN disk[s],
           \A c \in D, d \in DOMAIN disk[s] : In(d, c) => d \in D, disk' = Without(s, D)
    PROVE  /\ DiskOK'
           /\ \A t \in Side : t # s => disk'[t] = disk[t]
           /\ DOMAIN disk'[s] = DOMAIN disk[s] \ D
<1> DEFINE left == [x \in DOMAIN disk[s] \ D |-> disk[s][x]]
<1>1. disk = [t \in Side |-> disk[t]] BY DEF DiskOK
<1>2. disk' = [disk EXCEPT ![s] = left] BY DEF Without
<1> HIDE DEF left
<1>3. /\ disk' = [t \in Side |-> disk'[t]] /\ disk'[s] = left
      /\ \A t \in Side : t # s => disk'[t] = disk[t]
  BY <1>1, <1>2
<1>4. DOMAIN left = DOMAIN disk[s] \ D /\ \A x \in DOMAIN left : left[x] = disk[s][x] BY DEF left
<1>5. ASSUME NEW x \in DOMAIN left, NEW n \in 1..Len(x) PROVE SubSeq(x, 1, n) \in DOMAIN left
  <2>1. x \in DOMAIN disk[s] /\ x \in Paths /\ x \notin D BY <1>4 DEF DiskOK
  <2>2. SubSeq(x, 1, n) \in DOMAIN disk[s] BY <2>1 DEF DiskOK
  <2>3. x \in Seq(STRING) /\ Len(x) \in Nat BY <2>1, PathsAre
  <2>4. SubSeq(x, 1, n) = x \/ In(x, SubSeq(x, 1, n)) BY <2>3, PrefixIs
  <2>5. SubSeq(x, 1, n) \notin D BY <2>1, <2>4
  <2> QED BY <2>2, <2>5, <1>4
<1>6. DiskOK'
  <2>1. \A t \in Side : DOMAIN disk'[t] \subseteq Paths BY <1>3, <1>4 DEF DiskOK
  <2>2. \A t \in Side : \A x \in DOMAIN disk'[t] : disk'[t][x] \in Ino BY <1>3, <1>4 DEF DiskOK
  <2>3. \A t \in Side : \A x \in DOMAIN disk'[t] : \A n \in 1..Len(x) : SubSeq(x, 1, n) \in DOMAIN disk'[t]
    BY <1>3, <1>5 DEF DiskOK
  <2> QED BY <2>1, <2>2, <2>3, <1>3 DEF DiskOK
<1> QED BY <1>3, <1>4, <1>6

\* Below what is below p is below p.
LEMMA InBelow ==
    ASSUME NEW d \in Paths, NEW c \in Paths, NEW p \in Paths, In(d, c), c = p \/ In(c, p)
    PROVE  In(d, p)
<1>1. /\ d \in Seq(STRING) /\ c \in Seq(STRING) /\ p \in Seq(STRING)
      /\ Len(d) \in Nat /\ Len(c) \in Nat /\ Len(p) \in Nat
  BY PathsAre
<1>2. Len(c) < Len(d) /\ \A k \in 1..Len(c) : d[k] = c[k] BY <1>1, InIs
<1>3. CASE In(c, p)
  <2>1. Len(p) < Len(c) /\ \A k \in 1..Len(p) : c[k] = p[k] BY <1>1, <1>3, InIs
  <2>2. Len(p) < Len(d) /\ \A k \in 1..Len(p) : d[k] = p[k] BY <2>1, <1>1, <1>2
  <2> QED BY <2>2, <1>1, InIs
<1> QED BY <1>3

\* The paths in gone are removed and told: all there are below p, p itself, or some.
Removed(s, p, gone) ==
    /\ gone \subseteq Tree(s, p) /\ disk' = Without(s, gone)
    /\ Posted' = Posted \o Removals(s, p, gone)
    /\ \A t \in Side : t # s => disk'[t] = disk[t]
    /\ DOMAIN disk'[s] = DOMAIN disk[s] \ gone

LEMMA DeletePathInv ==
    ASSUME Inv, NEW t \in todo, DeletePath(t)
    PROVE  /\ Inv' /\ side \in Side /\ t.path \in Paths /\ work = "delete" /\ work' = work
           /\ UNCHANGED tables
           /\ \E gone : Removed(side, t.path, gone)
<1> DEFINE p == t.path
<1>1. /\ work = "delete" /\ work' = work /\ t \in Tasks("delete") /\ todo' = todo \ {t}
      /\ UNCHANGED <<side, again, done, backend>> /\ UNCHANGED tables
  BY DEF DeletePath
<1>2. PICK gone \in SUBSET Tree(side, p) :
         /\ \A c \in gone, d \in Tree(side, p) : In(d, c) => d \in gone
         /\ disk' = Without(side, gone)
         /\ IF gone = {} THEN UNCHANGED <<batch, queue>>
            ELSE Post(Push(Open, Removals(side, p, gone)))
  BY DEF DeletePath
<1> DEFINE ms == Removals(side, p, gone)
<1>3. side \in Side /\ p \in Paths /\ done = {}
  BY <1>1 DEF Inv, ThreadOK
<1>4. TablesSound' /\ map' = map BY <1>1, SameTables DEF Inv
<1>5. Tasks("delete")' \subseteq Tasks("delete") /\ Tasks("copy")' \subseteq Tasks("copy")
  BY <1>1 DEF Tasks
<1>6. CopiesLeft' => CopiesLeft BY <1>1, <1>5 DEF CopiesLeft
<1>7. CopiesLeft => side # "L" BY <1>1 DEF Inv, BatchOK
<1>8. /\ gone \subseteq DOMAIN disk[side] /\ DOMAIN disk[side] \subseteq Paths
      /\ \A c \in gone : c = p \/ In(c, p)
  BY <1>3 DEF Tree, Inv, DiskOK
<1> HIDE DEF p
<1>9. /\ DiskOK' /\ DOMAIN disk'[side] = DOMAIN disk[side] \ gone
      /\ \A s \in Side : s # side => disk'[s] = disk[s]
  <2>1. ASSUME NEW c \in gone, NEW d \in DOMAIN disk[side], In(d, c) PROVE d \in gone
    <3>1. In(d, p) BY <2>1, <1>3, <1>8, InBelow
    <3>2. d \in Tree(side, p) BY <3>1 DEF Tree
    <3> QED BY <3>2, <2>1, <1>2
  <2> QED BY <2>1, <1>2, <1>3, <1>8, WithoutOK DEF Inv
<1>10. /\ ms \in Seq(Messages) /\ (ms = <<>> <=> gone = {})
       /\ \A k \in 1..Len(ms) : ms[k].type = "remove" /\ ms[k].side = side /\ ms[k].path \in gone
       /\ \A c \in gone : \E k \in 1..Len(ms) : ms[k].path = c
  BY <1>3, <1>8, RemovalsAre
<1>11. gone # {} => Post(Push(Open, ms)) BY <1>2
<1> HIDE DEF ms
<1>12. \A k \in 1..Len(batch) : batch[k].type = "remove" /\ batch[k].side = side
  BY <1>1 DEF Inv, BatchOK
<1>13. /\ queue' \in Seq(Messages) /\ batch' \in Seq(Messages) /\ Posted' = Posted \o ms
       /\ \A k, l \in 1..Len(batch') : batch'[k].type = batch'[l].type
       /\ \A k \in 1..Len(batch') : batch'[k].type = "remove" /\ batch'[k].side = side
  <2>1. CASE gone = {}
    <3>1. batch' = batch /\ queue' = queue /\ ms = <<>> BY <2>1, <1>2, <1>10
    <3>2. Posted \in Seq(Messages) BY PostedIs DEF Inv
    <3>3. Posted' = Posted \o ms
      <4>1. Posted \o <<>> = Posted BY <3>2
      <4>2. Posted' = Posted BY <3>1 DEF Posted
      <4> QED BY <4>1, <4>2, <3>1
    <3> QED BY <3>1, <3>3, <1>12 DEF Inv, ThreadOK
  <2>2. CASE gone # {}
    <3>1. /\ queue' \in Seq(Messages) /\ batch' \in Seq(Messages) /\ Posted' = Posted \o ms
          /\ \A k, l \in 1..Len(batch') : batch'[k].type = batch'[l].type
          /\ \A k \in 1..Len(batch') : \/ \E l \in 1..Len(batch) : batch'[k] = batch[l]
                                       \/ \E l \in 1..Len(ms) : batch'[k] = ms[l]
      BY <2>2, <1>10, <1>11, <1>12, PostMore, ZenonT(60) DEF Inv
    <3>2. \A k \in 1..Len(batch') : batch'[k].type = "remove" /\ batch'[k].side = side
      <4> SUFFICES ASSUME NEW k \in 1..Len(batch')
                   PROVE  batch'[k].type = "remove" /\ batch'[k].side = side
        OBVIOUS
      <4>1. CASE \E l \in 1..Len(batch) : batch'[k] = batch[l]
        <5>1. PICK l \in 1..Len(batch) : batch'[k] = batch[l] BY <4>1
        <5> QED BY <5>1, <1>12
      <4>2. CASE \E l \in 1..Len(ms) : batch'[k] = ms[l]
        <5>1. PICK l \in 1..Len(ms) : batch'[k] = ms[l] BY <4>2
        <5> QED BY <5>1, <1>10
      <4> QED BY <4>1, <4>2, <3>1
    <3> QED BY <3>1, <3>2
  <2> QED BY <2>1, <2>2
<1>14. ThreadOK' BY <1>13, <1>1, <1>3, <1>5 DEF ThreadOK, Inv
<1>15. BatchOK' BY <1>13, <1>1, <1>6, <1>7 DEF BatchOK, Inv
<1>16. VerdictLast'
  <2>1. \A k \in 1..Len(Posted \o ms) : (Posted \o ms)[k].type # "finished"
    BY <1>10, <1>1, NoVerdict DEF Inv
  <2> QED BY <2>1, <1>13, <1>1 DEF VerdictLast
<1>17. NewNames(ms, disk) BY <1>10 DEF NewNames
<1>18. ToldGone(ms, disk, disk')
  <2> SUFFICES ASSUME NEW s \in Side, NEW x \in Paths \ DOMAIN disk'[s]
               PROVE  /\ x \notin DOMAIN disk[s] \/ \E j \in 1..Len(ms) : Vacates(ms[j], s, x)
                      /\ \A j \in 1..Len(ms) : ~Fills(ms[j], s, x)
    BY DEF ToldGone
  <2>1. \A j \in 1..Len(ms) : ~Fills(ms[j], s, x) BY <1>10 DEF Fills
  <2>2. CASE x \notin DOMAIN disk[s] BY <2>1, <2>2
  <2>3. CASE x \in DOMAIN disk[s]
    <3>1. s = side /\ x \in gone BY <2>3, <1>9
    <3>2. PICK k \in 1..Len(ms) : ms[k].path = x BY <3>1, <1>10
    <3>3. Vacates(ms[k], s, x) BY <3>1, <3>2, <1>10 DEF Vacates
    <3> QED BY <3>3, <2>1
  <2> QED BY <2>2, <2>3
<1>19. MessagesOK' BY <1>10, <1>13, <1>17, <1>18, <1>4, MoreMessages DEF Inv
<1>20. Removed(side, p, gone) BY <1>2, <1>9, <1>13 DEF Removed, ms
<1> QED BY <1>1, <1>3, <1>4, <1>9, <1>14, <1>15, <1>16, <1>19, <1>20 DEF Inv, p

LEMMA WithOK ==
    ASSUME DiskOK, NEW p \in Paths, NEW i \in Ino, disk' = With(p, i)
    PROVE  /\ DiskOK' /\ disk'["L"] = disk["L"]
           /\ DOMAIN disk'["R"] = DOMAIN disk["R"] \cup {p} \cup {d \in Dirs : In(p, d)}
<1> DEFINE up == {d \in Dirs : In(p, d)}
           X == DOMAIN disk["R"] \cup {p} \cup up
           new == [x \in X |-> IF x = p THEN i ELSE IF x \in DOMAIN disk["R"] THEN disk["R"][x] ELSE 0]
<1>1. disk = [t \in Side |-> disk[t]] /\ "L" \in Side /\ "R" \in Side BY SideIs DEF DiskOK
<1>2. disk' = [disk EXCEPT !["R"] = new] BY DEF With
<1>3. DOMAIN new = X /\ \A x \in X : new[x] = IF x = p THEN i ELSE
                                          IF x \in DOMAIN disk["R"] THEN disk["R"][x] ELSE 0
  OBVIOUS
<1> HIDE DEF new
<1>4. /\ disk' = [t \in Side |-> disk'[t]] /\ disk'["R"] = new
      /\ \A t \in Side : t # "R" => disk'[t] = disk[t]
  BY <1>1, <1>2
<1>5. X \subseteq Paths BY <1>1, PathsAre DEF DiskOK
<1>6. \A x \in X : new[x] \in Ino
  <2>1. 0 \in Ino BY DEF Ino
  <2> QED BY <2>1, <1>1, <1>3 DEF DiskOK
<1>7. \A x \in DOMAIN disk["R"] : \A n \in 1..Len(x) : SubSeq(x, 1, n) \in DOMAIN disk["R"]
  BY <1>1 DEF DiskOK
<1>8. ASSUME NEW n \in 1..Len(p) PROVE SubSeq(p, 1, n) \in {p} \cup up
  <2>1. /\ n = Len(p) => SubSeq(p, 1, n) = p
        /\ n < Len(p) => In(p, SubSeq(p, 1, n)) /\ SubSeq(p, 1, n) \in Dirs
    BY PrefixIs, PathsAre
  <2>2. Len(p) \in Nat BY PathsAre
  <2> QED BY <2>1, <2>2
<1>9. ASSUME NEW d \in up, NEW n \in 1..Len(d) PROVE SubSeq(d, 1, n) \in {p} \cup up
  <2>1. d \in Seq(STRING) /\ p \in Seq(STRING) /\ Len(d) \in Nat /\ Len(p) \in Nat BY PathsAre
  <2>2. Len(d) < Len(p) /\ \A k \in 1..Len(d) : p[k] = d[k] BY <2>1, InIs
  <2>3. n \in 1..Len(p) BY <2>1, <2>2
  <2>4. SubSeq(d, 1, n) = SubSeq(p, 1, n)
    <3>1. /\ SubSeq(d, 1, n) \in Seq(STRING) /\ Len(SubSeq(d, 1, n)) = n
          /\ \A k \in 1..n : SubSeq(d, 1, n)[k] = d[k]
      BY <2>1, PrefixIs
    <3>2. /\ SubSeq(p, 1, n) \in Seq(STRING) /\ Len(SubSeq(p, 1, n)) = n
          /\ \A k \in 1..n : SubSeq(p, 1, n)[k] = p[k]
      BY <2>1, <2>3, PrefixIs
    <3>3. \A k \in 1..n : SubSeq(d, 1, n)[k] = SubSeq(p, 1, n)[k]
      <4> SUFFICES ASSUME NEW k \in 1..n PROVE SubSeq(d, 1, n)[k] = SubSeq(p, 1, n)[k] OBVIOUS
      <4>1. k \in 1..Len(d) BY <2>1
      <4> QED BY <4>1, <3>1, <3>2, <2>2
    <3> QED BY <3>1, <3>2, <3>3, SameSequence
  <2> QED BY <2>3, <2>4, <1>8
<1>10. \A x \in X : \A n \in 1..Len(x) : SubSeq(x, 1, n) \in X BY <1>7, <1>8, <1>9
<1> HIDE DEF X
<1>11. DiskOK'
  <2>1. \A t \in Side : DOMAIN disk'[t] \subseteq Paths BY <1>3, <1>4, <1>5 DEF DiskOK
  <2>2. \A t \in Side : \A x \in DOMAIN disk'[t] : disk'[t][x] \in Ino
    BY <1>3, <1>4, <1>6 DEF DiskOK
  <2>3. \A t \in Side : \A x \in DOMAIN disk'[t] : \A n \in 1..Len(x) : SubSeq(x, 1, n) \in DOMAIN disk'[t]
    BY <1>3, <1>4, <1>10 DEF DiskOK
  <2> QED BY <2>1, <2>2, <2>3, <1>4 DEF DiskOK
<1> QED BY <1>1, <1>3, <1>4, <1>11 DEF X

LEMMA TargetsAre ==
    ASSUME DiskOK, NEW p \in Paths
    PROVE  Targets(p) \subseteq Ino /\ \A gone : Opened(p, gone) \subseteq Ino
<1>1. \A x \in DOMAIN disk["R"] : disk["R"][x] \in Ino BY SideIs DEF DiskOK
<1>2. 0 \in Ino /\ Unused \subseteq Ino BY DEF Ino, Unused
<1>3. \A gone : Opened(p, gone) \subseteq Ino BY <1>1, <1>2 DEF Opened, Exists
<1>4. Linkable(p) \subseteq Ino BY <1>1 DEF Linkable, Exists
<1> QED BY <1>2, <1>3, <1>4 DEF Targets

\* The messages of a copy: the link that was in the way, if there was one, and the copy.
Told(p, gone) ==
    IF gone THEN <<Of("remove", "R", p), Of("transfer", "R", p)>> ELSE <<Of("transfer", "R", p)>>

LEMMA ToldIs ==
    ASSUME NEW p \in Paths, NEW gone \in BOOLEAN
    PROVE  LET ms == Told(p, gone)
           IN  /\ ms \in Seq(Messages) /\ Len(ms) >= 1 /\ Len(ms) \in Nat
               /\ \A k \in 1..Len(ms) : /\ ms[k].type \in {"remove", "transfer"}
                                        /\ ms[k].side = "R" /\ ms[k].path = p
               /\ ms[Len(ms)].type = "transfer"
               /\ \A k \in 1..(Len(ms) - 1) : ms[k].type = "remove"
<1> DEFINE r == Of("remove", "R", p)
           t == Of("transfer", "R", p)
<1>1. /\ r \in Messages /\ r.type = "remove" /\ r.side = "R" /\ r.path = p
      /\ t \in Messages /\ t.type = "transfer" /\ t.side = "R" /\ t.path = p
  BY SideIs DEF Of, Message, Messages, RowMessages
<1> HIDE DEF r, t
<1>2. /\ <<r, t>> \in Seq(Messages) /\ Len(<<r, t>>) = 2 /\ <<r, t>>[1] = r /\ <<r, t>>[2] = t
      /\ <<t>> \in Seq(Messages) /\ Len(<<t>>) = 1 /\ <<t>>[1] = t
  BY <1>1
<1>3. CASE gone
  <2>1. Told(p, gone) = <<r, t>> BY <1>3 DEF Told, r, t
  <2>2. \A k \in 1..2 : k = 1 \/ k = 2 OBVIOUS
  <2>3. \A k \in 1..(2 - 1) : k = 1 OBVIOUS
  <2> QED BY <2>1, <2>2, <2>3, <1>1, <1>2
<1>4. CASE ~gone
  <2>1. Told(p, gone) = <<t>> BY <1>4 DEF Told, t
  <2>2. \A k \in 1..1 : k = 1 OBVIOUS
  <2>3. \A k \in 1..(1 - 1) : FALSE OBVIOUS
  <2> QED BY <2>1, <2>2, <2>3, <1>1, <1>2
<1> QED BY <1>3, <1>4

\* A copy posts its messages one after the other, as they would be in one row.
LEMMA CopyPosts ==
    ASSUME ThreadOK, \A k, l \in 1..Len(batch) : batch[k].type = batch[l].type,
           \A k \in 1..Len(batch) : batch[k].side = "R", NEW p \in Paths, NEW gone \in BOOLEAN,
           Post(Push(Cleared(p, gone), <<Of("transfer", "R", p)>>))
    PROVE  /\ queue' \in Seq(Messages) /\ batch' \in Seq(Messages)
           /\ Posted' = Posted \o Told(p, gone)
           /\ \A k, l \in 1..Len(batch') : batch'[k].type = batch'[l].type
           /\ \A k \in 1..Len(batch') : batch'[k].side = "R"
<1> DEFINE r == <<Of("remove", "R", p)>>
           t == <<Of("transfer", "R", p)>>
<1>1. /\ r \in Seq(Messages) /\ r # <<>> /\ Len(r) = 1 /\ r[1].side = "R"
      /\ t \in Seq(Messages) /\ t # <<>> /\ Len(t) = 1 /\ t[1].side = "R"
  BY SideIs DEF Of, Message, Messages, RowMessages
<1>2. queue \in Seq(Messages) /\ batch \in Seq(Messages) BY DEF ThreadOK
<1>3. \A k \in 1..1 : k = 1 OBVIOUS
<1>4. CASE ~gone
  <2>1. Told(p, gone) = t BY <1>4 DEF Told
  <2>2. Post(Push(Open, t)) BY <1>4 DEF Cleared
  <2> HIDE DEF r, t
  <2>3. \A k, l \in 1..Len(t) : t[k].type = t[l].type BY <1>1, <1>3
  <2>4. \A k \in 1..Len(batch), l \in 1..Len(t) : batch[k].side = t[l].side BY <1>1, <1>3
  <2>5. /\ queue' \in Seq(Messages) /\ batch' \in Seq(Messages) /\ Posted' = Posted \o t
        /\ \A k, l \in 1..Len(batch') : batch'[k].type = batch'[l].type
        /\ \A k \in 1..Len(batch') : \/ \E l \in 1..Len(batch) : batch'[k] = batch[l]
                                     \/ \E l \in 1..Len(t) : batch'[k] = t[l]
    BY <1>1, <2>2, <2>3, <2>4, PostMore
  <2>6. ASSUME NEW k \in 1..Len(batch') PROVE batch'[k].side = "R"
    <3>1. CASE \E l \in 1..Len(batch) : batch'[k] = batch[l] BY <3>1
    <3>2. CASE \E l \in 1..Len(t) : batch'[k] = t[l] BY <3>2, <1>1, <1>3
    <3> QED BY <3>1, <3>2, <2>5
  <2> QED BY <2>1, <2>5, <2>6
<1>5. CASE gone
  <2>1. Told(p, gone) = r \o t BY <1>5 DEF Told
  <2>2. Post(Push(Push(Open, r), t)) BY <1>5 DEF Cleared
  <2> HIDE DEF r, t
  <2> DEFINE f == Push(<<batch, queue>>, r)
  <2>3. PostsAfter(f, batch, queue, r)
    <3>1. \A k, l \in 1..Len(r) : r[k].type = r[l].type BY <1>1, <1>3
    <3>2. \A k \in 1..Len(batch), l \in 1..Len(r) : batch[k].side = r[l].side BY <1>1, <1>3
    <3> HIDE DEF f
    <3>3. f = Push(<<batch, queue>>, r) BY DEF f
    <3> QED BY <1>1, <1>2, <3>1, <3>2, <3>3, PushPosts
  <2>4. f = <<f[1], f[2]>> BY PushPair
  <2> DEFINE nb == Push(<<f[1], f[2]>>, t)
  <2>5. Post(nb) BY <2>2, <2>4 DEF Open
  <2>6. f = Push(<<batch, queue>>, r) OBVIOUS
  <2>7. nb = Push(<<f[1], f[2]>>, t) OBVIOUS
  <2> HIDE DEF f, nb
  <2>8. /\ f[1] \in Seq(Messages) /\ f[2] \in Seq(Messages) /\ f[2] \o f[1] = (queue \o batch) \o r
        /\ \A k, l \in 1..Len(f[1]) : f[1][k].type = f[1][l].type
        /\ \A k \in 1..Len(f[1]) : \/ \E l \in 1..Len(batch) : f[1][k] = batch[l]
                                   \/ \E l \in 1..Len(r) : f[1][k] = r[l]
    BY <2>3 DEF PostsAfter
  <2>9. ASSUME NEW k \in 1..Len(f[1]) PROVE f[1][k].side = "R"
    <3>1. CASE \E l \in 1..Len(batch) : f[1][k] = batch[l] BY <3>1
    <3>2. CASE \E l \in 1..Len(r) : f[1][k] = r[l] BY <3>2, <1>1, <1>3
    <3> QED BY <3>1, <3>2, <2>8
  <2>10. PostsAfter(nb, f[1], f[2], t)
    <3>1. \A k, l \in 1..Len(t) : t[k].type = t[l].type BY <1>1, <1>3
    <3>2. \A k \in 1..Len(f[1]), l \in 1..Len(t) : f[1][k].side = t[l].side BY <1>1, <1>3, <2>9
    <3> QED BY <1>1, <2>7, <2>8, <3>1, <3>2, PushPosts
  <2>11. /\ nb[1] \in Seq(Messages) /\ nb[2] \in Seq(Messages)
         /\ nb[2] \o nb[1] = (f[2] \o f[1]) \o t
         /\ \A k, l \in 1..Len(nb[1]) : nb[1][k].type = nb[1][l].type
         /\ \A k \in 1..Len(nb[1]) : \/ \E l \in 1..Len(f[1]) : nb[1][k] = f[1][l]
                                     \/ \E l \in 1..Len(t) : nb[1][k] = t[l]
    BY <2>10 DEF PostsAfter
  <2>12. ASSUME NEW k \in 1..Len(nb[1]) PROVE nb[1][k].side = "R"
    <3>1. CASE \E l \in 1..Len(f[1]) : nb[1][k] = f[1][l] BY <3>1, <2>9
    <3>2. CASE \E l \in 1..Len(t) : nb[1][k] = t[l] BY <3>2, <1>1, <1>3
    <3> QED BY <3>1, <3>2, <2>11
  <2>13. batch' = nb[1] /\ queue' = nb[2] BY <2>5 DEF Post
  <2>14. Posted' = Posted \o (r \o t)
    <3>1. Posted' = ((queue \o batch) \o r) \o t BY <2>8, <2>11, <2>13 DEF Posted
    <3>2. Posted \in Seq(Messages) BY PostedIs
    <3>3. Posted = queue \o batch BY DEF Posted
    <3>4. r \in Seq(Messages) /\ t \in Seq(Messages) BY <1>1
    <3>5. Posted \o (r \o t) = (Posted \o r) \o t BY ONLY <3>2, <3>4, InOneRow
    <3> QED BY <3>1, <3>3, <3>5
  <2> QED BY <2>1, <2>11, <2>12, <2>13, <2>14
<1> QED BY <1>4, <1>5

\* What there is on the disks only grows, and what is posted is about p.
LEMMA CopyMessages ==
    ASSUME Inv, map' = map, NEW p \in Paths, p \in DOMAIN disk'["R"],
           \A s \in Side : DOMAIN disk[s] \subseteq DOMAIN disk'[s],
           \/ Posted' = Posted
           \/ \E gone \in BOOLEAN : Posted' = Posted \o Told(p, gone)
    PROVE  MessagesOK'
<1>1. MessagesOK /\ ThreadOK /\ Posted \in Seq(Messages) BY PostedIs DEF Inv
<1>2. ASSUME NEW ms \in Seq(Messages), Posted' = Posted \o ms,
             \A k \in 1..Len(ms) : ms[k].type \in {"remove", "transfer"} /\ ms[k].path = p
      PROVE  MessagesOK'
  <2>1. NewNames(ms, disk) BY <1>2 DEF NewNames
  <2>2. \A s \in Side : \A x \in Paths \ DOMAIN disk'[s] :
            \A j \in 1..Len(ms) : ~Fills(ms[j], s, x)
    BY <1>2 DEF Fills
  <2>3. ToldGone(ms, disk, disk') BY <2>2 DEF ToldGone
  <2> QED BY <1>1, <1>2, <2>1, <2>3, MoreMessages
<1>3. CASE Posted' = Posted
  <2>1. <<>> \in Seq(Messages) /\ Posted' = Posted \o <<>> BY <1>1, <1>3
  <2>2. \A k \in 1..Len(<<>>) : FALSE OBVIOUS
  <2> QED BY <2>1, <2>2, <1>2
<1>4. CASE \E gone \in BOOLEAN : Posted' = Posted \o Told(p, gone)
  <2>1. PICK gone \in BOOLEAN : Posted' = Posted \o Told(p, gone) BY <1>4
  <2>2. Told(p, gone) \in Seq(Messages) BY ToldIs
  <2>3. \A k \in 1..Len(Told(p, gone)) : /\ Told(p, gone)[k].type \in {"remove", "transfer"}
                                         /\ Told(p, gone)[k].path = p
    BY ToldIs
  <2> QED BY <2>1, <2>2, <2>3, <1>2
<1> QED BY <1>3, <1>4

\* A work that only copies posts no verdict.
LEMMA CopyVerdict ==
    ASSUME Inv, work \notin {"ended", "idle"}, work' = work, NEW p \in Paths,
           \/ Posted' = Posted
           \/ \E gone \in BOOLEAN : Posted' = Posted \o Told(p, gone)
    PROVE  VerdictLast'
<1>1. ThreadOK /\ VerdictLast BY DEF Inv
<1>2. CASE Posted' = Posted BY <1>1, <1>2 DEF VerdictLast
<1>3. CASE \E gone \in BOOLEAN : Posted' = Posted \o Told(p, gone)
  <2>1. PICK gone \in BOOLEAN : Posted' = Posted \o Told(p, gone) BY <1>3
  <2>2. Told(p, gone) \in Seq(Messages) BY ToldIs
  <2>3. \A k \in 1..Len(Told(p, gone)) : Told(p, gone)[k].type # "finished" BY ToldIs
  <2> DEFINE ms == Told(p, gone)
  <2> HIDE DEF ms
  <2>4. ms \in Seq(Messages) /\ \A k \in 1..Len(ms) : ms[k].type # "finished" BY <2>2, <2>3 DEF ms
  <2>5. \A k \in 1..Len(Posted \o ms) : (Posted \o ms)[k].type # "finished"
    BY <1>1, <2>4, NoVerdict
  <2>6. Posted' = Posted \o ms BY <2>1 DEF ms
  <2> QED BY <2>5, <2>6 DEF VerdictLast
<1> QED BY <1>2, <1>3

\* A copy that fails may have removed what was in the way.
Gone(p, gone) == IF gone THEN <<Of("remove", "R", p)>> ELSE <<>>

LEMMA GoneIs ==
    ASSUME NEW p \in Paths, NEW gone
    PROVE  /\ Gone(p, gone) \in Seq(Messages)
           /\ \A k \in 1..Len(Gone(p, gone)) : /\ Gone(p, gone)[k].type = "remove"
                                               /\ Gone(p, gone)[k].side = "R"
                                               /\ Gone(p, gone)[k].path = p
           /\ gone => Len(Gone(p, gone)) = 1
           /\ ~gone => Gone(p, gone) = <<>>
<1> DEFINE r == Of("remove", "R", p)
<1>1. r \in Messages /\ r.type = "remove" /\ r.side = "R" /\ r.path = p
  BY SideIs DEF Of, Message, Messages, RowMessages
<1>2. Gone(p, gone) = IF gone THEN <<r>> ELSE <<>> BY DEF Gone
<1> HIDE DEF r
<1>3. <<r>> \in Seq(Messages) /\ Len(<<r>>) = 1 /\ <<r>>[1] = r BY <1>1
<1>4. <<>> \in Seq(Messages) /\ Len(<<>>) = 0 OBVIOUS
<1>5. \A k \in 1..1 : k = 1 OBVIOUS
<1>6. \A k \in 1..0 : FALSE OBVIOUS
<1>7. CASE gone BY <1>1, <1>2, <1>3, <1>5, <1>7
<1>8. CASE ~gone BY <1>2, <1>4, <1>6, <1>8
<1> QED BY <1>7, <1>8

LEMMA GonePosts ==
    ASSUME ThreadOK, \A k, l \in 1..Len(batch) : batch[k].type = batch[l].type,
           \A k \in 1..Len(batch) : batch[k].side = "R", NEW p \in Paths, NEW gone \in BOOLEAN,
           Post(Cleared(p, gone))
    PROVE  /\ queue' \in Seq(Messages) /\ batch' \in Seq(Messages)
           /\ Posted' = Posted \o Gone(p, gone)
           /\ \A k, l \in 1..Len(batch') : batch'[k].type = batch'[l].type
           /\ \A k \in 1..Len(batch') : batch'[k].side = "R"
<1> DEFINE ms == Gone(p, gone)
<1>1. /\ ms \in Seq(Messages) /\ (gone => Len(ms) = 1) /\ (~gone => ms = <<>>)
      /\ \A k \in 1..Len(ms) : ms[k].type = "remove" /\ ms[k].side = "R"
  BY GoneIs
<1>2. queue \in Seq(Messages) /\ batch \in Seq(Messages) /\ Posted \in Seq(Messages)
  BY PostedIs DEF ThreadOK
<1>3. CASE ~gone
  <2>1. batch' = batch /\ queue' = queue BY <1>3 DEF Post, Cleared, Open
  <2>2. Posted' = Posted /\ Posted \o <<>> = Posted BY <2>1, <1>2 DEF Posted
  <2> QED BY <2>1, <2>2, <1>1, <1>2, <1>3
<1>4. CASE gone
  <2>1. Post(Push(Open, ms)) BY <1>4 DEF Cleared, Gone
  <2> HIDE DEF ms
  <2>2. ms # <<>>
    <3>1. Len(ms) # 0 BY <1>1, <1>4
    <3> QED BY <3>1
  <2>3. \A k, l \in 1..Len(ms) : ms[k].type = ms[l].type BY <1>1
  <2>4. \A k \in 1..Len(batch), l \in 1..Len(ms) : batch[k].side = ms[l].side BY <1>1
  <2>5. /\ queue' \in Seq(Messages) /\ batch' \in Seq(Messages) /\ Posted' = Posted \o ms
        /\ \A k, l \in 1..Len(batch') : batch'[k].type = batch'[l].type
        /\ \A k \in 1..Len(batch') : \/ \E l \in 1..Len(batch) : batch'[k] = batch[l]
                                     \/ \E l \in 1..Len(ms) : batch'[k] = ms[l]
    BY <1>1, <2>1, <2>2, <2>3, <2>4, PostMore
  <2>6. ASSUME NEW k \in 1..Len(batch') PROVE batch'[k].side = "R"
    <3>1. CASE \E l \in 1..Len(batch) : batch'[k] = batch[l] BY <3>1
    <3>2. CASE \E l \in 1..Len(ms) : batch'[k] = ms[l] BY <3>2, <1>1
    <3> QED BY <3>1, <3>2, <2>5
  <2> QED BY <2>5, <2>6 DEF ms
<1> QED BY <1>3, <1>4

\* What every step of the copies leaves alone.
CopyFrame(p) ==
    /\ work = "copy" /\ UNCHANGED <<work, side, backend>> /\ UNCHANGED tables
    /\ todo' \subseteq todo /\ again' \subseteq again
    /\ Of("copy", side, p) \in todo \/ p \in again

\* A path that is not to be copied, one that is copied, and one whose copy fails.
CopySkipped == disk' = disk /\ Posted' = Posted /\ done' = done /\ lost' = lost
CopyMade(p) ==
    /\ p \in DOMAIN disk["L"] /\ disk'["L"] = disk["L"] /\ lost' = lost
    /\ DOMAIN disk'["R"] = DOMAIN disk["R"] \cup {p} \cup {d \in Dirs : In(p, d)}
    /\ \/ backend = "rsync" /\ done' = done \cup {p} /\ Posted' = Posted
       \/ /\ backend # "rsync" /\ done' = done
          /\ \E gone \in BOOLEAN : Posted' = Posted \o Told(p, gone)
CopyFailed(p) ==
    /\ backend # "rsync" /\ done' = done /\ disk'["L"] = disk["L"] /\ (lost => lost')
    /\ \E gone \in BOOLEAN :
          /\ Posted' = Posted \o Gone(p, gone)
          /\ DOMAIN disk["R"] \ (IF gone THEN {p} ELSE {}) \subseteq DOMAIN disk'["R"]
          /\ ~lost' => DOMAIN disk'["R"] \ Dirs \subseteq DOMAIN disk["R"] \ (IF gone THEN {p} ELSE {})

LEMMA CopyFrameIs ==
    ASSUME Inv, NEW p \in Paths, CopyFrame(p)
    PROVE  /\ \A k \in 1..Len(batch) : batch[k].side = "R"
           /\ \A k, l \in 1..Len(batch) : batch[k].type = batch[l].type
           /\ side = "L" => Tasks("delete") = {}
           /\ Tasks("delete")' \subseteq Tasks("delete")
           /\ TablesSound' /\ map' = map
<1>1. Of("copy", side, p).type = "copy" BY DEF Of, Message
<1>2. CopiesLeft BY <1>1 DEF CopyFrame, CopiesLeft, Tasks
<1>3. Tasks("delete")' \subseteq Tasks("delete") BY DEF CopyFrame, Tasks
<1>4. TablesSound' /\ map' = map BY SameTables DEF CopyFrame, Inv
<1> QED BY <1>2, <1>3, <1>4 DEF Inv, BatchOK, CopyFrame

\* A step of the copies that posts in order keeps the batches in order.
LEMMA CopyThread ==
    ASSUME Inv, NEW p \in Paths, CopyFrame(p), done' \subseteq DOMAIN disk'["R"],
           backend # "rsync" => done' = {},
           queue' \in Seq(Messages), batch' \in Seq(Messages),
           \A k, l \in 1..Len(batch') : batch'[k].type = batch'[l].type,
           \A k \in 1..Len(batch') : batch'[k].side = "R"
    PROVE  ThreadOK' /\ BatchOK'
<1>1. /\ side = "L" => Tasks("delete") = {}
      /\ Tasks("delete")' \subseteq Tasks("delete")
  BY CopyFrameIs
<1>2. work = "copy" /\ work' = work /\ side' = side /\ backend' = backend BY DEF CopyFrame
<1>3. ThreadOK' BY <1>1, <1>2 DEF ThreadOK, Inv
<1>4. BatchOK' BY <1>1, <1>2 DEF BatchOK
<1> QED BY <1>3, <1>4

LEMMA CopySkippedInv ==
    ASSUME Inv, NEW p \in Paths, CopyFrame(p), UNCHANGED <<disk, done, batch, queue, lost>>
    PROVE  Inv' /\ CopySkipped
<1>1. Posted' = Posted BY DEF Posted
<1>2. DiskOK' BY SameDisk DEF Inv
<1>3. ThreadOK' /\ BatchOK'
  <2>1. /\ \A k \in 1..Len(batch) : batch[k].side = "R"
        /\ \A k, l \in 1..Len(batch) : batch[k].type = batch[l].type
    BY CopyFrameIs
  <2> QED BY <2>1, CopyThread DEF Inv, ThreadOK
<1>4. VerdictLast' BY <1>1, CopyVerdict DEF CopyFrame
<1>5. TablesSound' /\ map' = map BY CopyFrameIs
<1>6. MessagesOK' BY <1>1, <1>5, NothingPosted DEF Inv
<1> QED BY <1>1, <1>2, <1>3, <1>4, <1>5, <1>6 DEF Inv, CopySkipped

LEMMA CopyMadeInv ==
    ASSUME Inv, NEW p \in Paths, CopyFrame(p), Exists("L", p), NEW gone \in BOOLEAN, Copy(p, gone)
    PROVE  Inv' /\ CopyMade(p)
<1>1. /\ \E i \in Targets(p) \cup Opened(p, gone) : disk' = With(p, i)
      /\ lost' = lost
      /\ backend = "rsync" => done' = done \cup {p} /\ UNCHANGED <<batch, queue>>
      /\ backend # "rsync" => /\ Post(Push(Cleared(p, gone), <<Of("transfer", "R", p)>>))
                              /\ UNCHANGED done
  BY DEF Copy
<1>2. PICK i \in Targets(p) \cup Opened(p, gone) : disk' = With(p, i) BY <1>1
<1>3. DiskOK /\ ThreadOK BY DEF Inv
<1>4. i \in Ino BY <1>2, <1>3, TargetsAre
<1>5. /\ DiskOK' /\ disk'["L"] = disk["L"]
      /\ DOMAIN disk'["R"] = DOMAIN disk["R"] \cup {p} \cup {d \in Dirs : In(p, d)}
  BY <1>2, <1>3, <1>4, WithOK
<1>6. p \in DOMAIN disk["L"] BY DEF Exists
<1>7. /\ \A k \in 1..Len(batch) : batch[k].side = "R"
      /\ \A k, l \in 1..Len(batch) : batch[k].type = batch[l].type
      /\ TablesSound' /\ map' = map
  BY CopyFrameIs
<1>8. /\ queue' \in Seq(Messages) /\ batch' \in Seq(Messages)
      /\ \A k, l \in 1..Len(batch') : batch'[k].type = batch'[l].type
      /\ \A k \in 1..Len(batch') : batch'[k].side = "R"
      /\ \/ backend = "rsync" /\ done' = done \cup {p} /\ Posted' = Posted
         \/ backend # "rsync" /\ done' = done /\ Posted' = Posted \o Told(p, gone)
  <2>1. CASE backend = "rsync"
    <3>1. batch' = batch /\ queue' = queue /\ done' = done \cup {p} BY <1>1, <2>1
    <3>2. Posted' = Posted BY <3>1 DEF Posted
    <3> QED BY <2>1, <3>1, <3>2, <1>3, <1>7 DEF ThreadOK
  <2>2. CASE backend # "rsync"
    <3>1. Post(Push(Cleared(p, gone), <<Of("transfer", "R", p)>>)) /\ done' = done BY <1>1, <2>2
    <3>2. /\ queue' \in Seq(Messages) /\ batch' \in Seq(Messages)
          /\ Posted' = Posted \o Told(p, gone)
          /\ \A k, l \in 1..Len(batch') : batch'[k].type = batch'[l].type
          /\ \A k \in 1..Len(batch') : batch'[k].side = "R"
      BY <3>1, <1>3, <1>7, CopyPosts
    <3> QED BY <2>2, <3>1, <3>2
  <2> QED BY <2>1, <2>2
<1>9. Posted' = Posted \/ \E g \in BOOLEAN : Posted' = Posted \o Told(p, g) BY <1>8
<1>10. ThreadOK' /\ BatchOK'
  <2>1. done' \subseteq DOMAIN disk'["R"] /\ (backend # "rsync" => done' = {})
    BY <1>3, <1>5, <1>8 DEF ThreadOK
  <2> QED BY <2>1, <1>8, CopyThread
<1>11. VerdictLast' BY <1>9, CopyVerdict DEF CopyFrame
<1>12. \A s \in Side : DOMAIN disk[s] \subseteq DOMAIN disk'[s] BY <1>5, SideIs
<1>13. p \in DOMAIN disk'["R"] BY <1>5
<1>14. MessagesOK' BY <1>7, <1>9, <1>12, <1>13, CopyMessages
<1>15. CopyMade(p) BY <1>1, <1>5, <1>6, <1>8 DEF CopyMade
<1> QED BY <1>5, <1>7, <1>10, <1>11, <1>14, <1>15 DEF Inv

\* What a failed copy leaves on the backup.
LEMMA FailedDisk ==
    ASSUME DiskOK, NEW p \in Paths, NEW gone \in BOOLEAN, gone => Replaces(p), FailCopy(p, gone)
    PROVE  /\ DiskOK' /\ disk'["L"] = disk["L"] /\ (lost => lost')
           /\ DOMAIN disk["R"] \ (IF gone THEN {p} ELSE {}) \subseteq DOMAIN disk'["R"]
           /\ ~lost' => DOMAIN disk'["R"] \ Dirs \subseteq DOMAIN disk["R"] \ (IF gone THEN {p} ELSE {})
<1> USE SideIs
<1>1. CASE disk' = disk /\ ~gone /\ lost' = lost BY <1>1, SameDisk
<1>2. CASE gone /\ disk' = Without("R", {p}) /\ lost' = lost
  <2>1. p \in DOMAIN disk["R"] /\ p \notin Dirs
    <3>1. Replaces(p) BY <1>2
    <3>2. Exists("R", p) /\ Copied(p) # {} BY <3>1 DEF Replaces
    <3>3. Linked("L", p) BY <3>2 DEF Copied
    <3> QED BY <3>2, <3>3 DEF Exists, Linked
  <2>2. ASSUME NEW d \in DOMAIN disk["R"], In(d, p) PROVE FALSE
    <3>1. d \in Paths BY DEF DiskOK
    <3>2. d \in Seq(STRING) /\ p \in Seq(STRING) /\ Len(d) \in Nat /\ Len(p) \in Nat /\ Len(p) >= 1
      BY <3>1, PathsAre
    <3>3. Len(p) < Len(d) /\ SubSeq(d, 1, Len(p)) = p BY <2>2 DEF In
    <3>4. Len(p) \in 1..Len(d) BY <3>2, <3>3
    <3>5. p \in Dirs BY <3>1, <3>3, <3>4, PathsAre
    <3> QED BY <3>5, <2>1
  <2>3. /\ DiskOK' /\ DOMAIN disk'["R"] = DOMAIN disk["R"] \ {p}
        /\ \A t \in Side : t # "R" => disk'[t] = disk[t]
    <3> DEFINE D == {p}
    <3>1. D \subseteq DOMAIN disk["R"] /\ \A c \in D, d \in DOMAIN disk["R"] : In(d, c) => d \in D
      BY <2>1, <2>2
    <3>2. disk' = Without("R", D) BY <1>2
    <3> HIDE DEF D
    <3>3. /\ DiskOK' /\ DOMAIN disk'["R"] = DOMAIN disk["R"] \ D
          /\ \A t \in Side : t # "R" => disk'[t] = disk[t]
      BY <3>1, <3>2, WithoutOK
    <3> QED BY <3>3 DEF D
  <2> QED BY <2>3, <1>2
<1>3. CASE ~gone /\ (\E d \in Dirs : In(p, d) /\ disk' = With(d, 0)) /\ lost' = lost
  <2>1. PICK d \in Dirs : disk' = With(d, 0) BY <1>3
  <2>2. d \in Paths /\ 0 \in Ino BY PathsAre DEF Ino
  <2>3. /\ DiskOK' /\ disk'["L"] = disk["L"]
        /\ DOMAIN disk'["R"] = DOMAIN disk["R"] \cup {d} \cup {e \in Dirs : In(d, e)}
    BY <2>1, <2>2, WithOK
  <2> QED BY <2>3, <1>3
<1>4. CASE /\ \E i \in Opened(p, gone) : disk' = With(p, i)
           /\ lost' = (lost \/ gone \/ ~Exists("R", p))
  <2>1. PICK i \in Opened(p, gone) : disk' = With(p, i) BY <1>4
  <2>2. i \in Ino BY <2>1, TargetsAre
  <2>3. /\ DiskOK' /\ disk'["L"] = disk["L"]
        /\ DOMAIN disk'["R"] = DOMAIN disk["R"] \cup {p} \cup {e \in Dirs : In(p, e)}
    BY <2>1, <2>2, WithOK
  <2>4. ~lost' => ~gone /\ p \in DOMAIN disk["R"] BY <1>4 DEF Exists
  <2>5. lost => lost' BY <1>4
  <2> QED BY <2>3, <2>4, <2>5
<1> QED BY <1>1, <1>2, <1>3, <1>4 DEF FailCopy

LEMMA CopyFailedInv ==
    ASSUME Inv, NEW p \in Paths, CopyFrame(p), NEW gone \in BOOLEAN, gone => Replaces(p),
           FailCopy(p, gone)
    PROVE  Inv' /\ CopyFailed(p)
<1> DEFINE ms == Gone(p, gone)
           D == IF gone THEN {p} ELSE {}
<1>1. backend # "rsync" /\ done' = done /\ Post(Cleared(p, gone)) BY DEF FailCopy
<1>2. /\ DiskOK' /\ disk'["L"] = disk["L"] /\ (lost => lost')
      /\ DOMAIN disk["R"] \ D \subseteq DOMAIN disk'["R"]
      /\ ~lost' => DOMAIN disk'["R"] \ Dirs \subseteq DOMAIN disk["R"] \ D
  BY FailedDisk DEF Inv
<1>3. /\ \A k \in 1..Len(batch) : batch[k].side = "R"
      /\ \A k, l \in 1..Len(batch) : batch[k].type = batch[l].type
      /\ TablesSound' /\ map' = map
  BY CopyFrameIs
<1>4. /\ queue' \in Seq(Messages) /\ batch' \in Seq(Messages)
      /\ Posted' = Posted \o ms
      /\ \A k, l \in 1..Len(batch') : batch'[k].type = batch'[l].type
      /\ \A k \in 1..Len(batch') : batch'[k].side = "R"
  BY <1>1, <1>3, GonePosts DEF Inv
<1>5. done = {} BY <1>1 DEF Inv, ThreadOK
<1>6. ThreadOK' /\ BatchOK' BY <1>1, <1>4, <1>5, CopyThread
<1>7. /\ ms \in Seq(Messages) /\ (gone => Len(ms) = 1)
      /\ \A k \in 1..Len(ms) : ms[k].type = "remove" /\ ms[k].side = "R" /\ ms[k].path = p
  BY GoneIs
<1>8. CopyFailed(p) BY <1>1, <1>2, <1>4 DEF CopyFailed
<1> HIDE DEF ms
<1>9. VerdictLast'
  <2>1. work = "copy" /\ work' = work BY DEF CopyFrame
  <2>2. \A k \in 1..Len(Posted \o ms) : (Posted \o ms)[k].type # "finished"
    BY <2>1, <1>7, NoVerdict DEF Inv
  <2> QED BY <2>1, <2>2, <1>4 DEF VerdictLast
<1>10. NewNames(ms, disk) BY <1>7 DEF NewNames
<1>11. ToldGone(ms, disk, disk')
  <2> SUFFICES ASSUME NEW s \in Side, NEW x \in Paths \ DOMAIN disk'[s]
               PROVE  /\ x \notin DOMAIN disk[s] \/ \E j \in 1..Len(ms) : Vacates(ms[j], s, x)
                      /\ \A j \in 1..Len(ms) : ~Fills(ms[j], s, x)
    BY DEF ToldGone
  <2>1. \A j \in 1..Len(ms) : ~Fills(ms[j], s, x) BY <1>7 DEF Fills
  <2>2. CASE x \notin DOMAIN disk[s] BY <2>1, <2>2
  <2>3. CASE x \in DOMAIN disk[s]
    <3>1. s = "R" BY <2>3, <1>2, SideIs
    <3>2. gone /\ x = p BY <2>3, <3>1, <1>2
    <3>3. 1 \in 1..Len(ms) BY <3>2, <1>7
    <3>4. Vacates(ms[1], s, x) BY <3>1, <3>2, <3>3, <1>7 DEF Vacates
    <3> QED BY <3>3, <3>4, <2>1
  <2> QED BY <2>2, <2>3
<1>12. MessagesOK' BY <1>3, <1>4, <1>7, <1>10, <1>11, MoreMessages DEF Inv
<1> QED BY <1>2, <1>3, <1>6, <1>8, <1>9, <1>12 DEF Inv

LEMMA CopyPathInv ==
    ASSUME Inv, NEW p \in Paths, CopyPath(p)
    PROVE  /\ Inv' /\ UNCHANGED tables /\ work = "copy" /\ work' = work /\ UNCHANGED backend
           /\ CopySkipped \/ CopyMade(p) \/ CopyFailed(p)
<1>1. CopyFrame(p) BY DEF CopyPath, CopyFrame
<1>2. CASE ~Exists("L", p) \/ p \in Copied(p)
  <2>1. UNCHANGED <<disk, done, batch, queue, lost>> BY <1>2 DEF CopyPath
  <2> QED BY <2>1, <1>1, CopySkippedInv DEF CopyFrame
<1>3. CASE ~(~Exists("L", p) \/ p \in Copied(p))
  <2>1. PICK gone \in BOOLEAN : (gone => Replaces(p)) /\ (Copy(p, gone) \/ FailCopy(p, gone))
    BY <1>3 DEF CopyPath
  <2>2. CASE Copy(p, gone) BY <2>2, <1>1, <1>3, CopyMadeInv DEF CopyFrame
  <2>3. CASE FailCopy(p, gone) BY <2>1, <2>3, <1>1, CopyFailedInv DEF CopyFrame
  <2> QED BY <2>1, <2>2, <2>3
<1> QED BY <1>2, <1>3

LEMMA ReportInv ==
    ASSUME Inv, NEW p \in Paths, Report(p)
    PROVE  /\ Inv' /\ UNCHANGED tables /\ work = "report" /\ work' = work /\ disk' = disk
           /\ UNCHANGED <<backend, lost>> /\ p \in done /\ done' = done \ {p}
           /\ Posted' = Posted \o Told(p, FALSE)
<1>1. /\ work = "report" /\ UNCHANGED <<work, side, backend, lost, disk, todo, again>>
      /\ UNCHANGED tables /\ p \in done /\ done' = done \ {p}
      /\ Post(Push(Open, <<Of("transfer", "R", p)>>))
  BY DEF Report
<1>2. CopiesLeft BY <1>1 DEF CopiesLeft
<1>3. /\ \A k \in 1..Len(batch) : batch[k].side = "R"
      /\ \A k, l \in 1..Len(batch) : batch[k].type = batch[l].type
      /\ side = "L" => Tasks("delete") = {}
  BY <1>1, <1>2 DEF Inv, BatchOK
<1>4. TablesSound' /\ map' = map BY <1>1, SameTables DEF Inv
<1>5. /\ queue' \in Seq(Messages) /\ batch' \in Seq(Messages)
      /\ Posted' = Posted \o Told(p, FALSE)
      /\ \A k, l \in 1..Len(batch') : batch'[k].type = batch'[l].type
      /\ \A k \in 1..Len(batch') : batch'[k].side = "R"
  <2>1. FALSE \in BOOLEAN /\ ThreadOK BY DEF Inv
  <2>2. Post(Push(Cleared(p, FALSE), <<Of("transfer", "R", p)>>)) BY <1>1 DEF Cleared
  <2> QED BY <2>1, <2>2, <1>3, CopyPosts
<1>6. DiskOK' BY <1>1, SameDisk DEF Inv
<1>7. ThreadOK' BY <1>1, <1>5 DEF ThreadOK, Inv, Tasks
<1>8. Tasks("delete")' = Tasks("delete") BY <1>1 DEF Tasks
<1>9. BatchOK' BY <1>1, <1>3, <1>5, <1>8 DEF BatchOK
<1>10. \E g \in BOOLEAN : Posted' = Posted \o Told(p, g) BY <1>5
<1>11. VerdictLast' BY <1>1, <1>10, CopyVerdict
<1>12. p \in DOMAIN disk'["R"] BY <1>1 DEF Inv, ThreadOK
<1>13. MessagesOK' BY <1>1, <1>4, <1>10, <1>12, CopyMessages
<1> QED BY <1>1, <1>4, <1>5, <1>6, <1>7, <1>9, <1>11, <1>13 DEF Inv

-----------------------------------------------------------------------------
(* The user renames                                                        *)

\* Where c goes when p becomes q, if c is p or below it.
Place(c, p, q) == IF c = p THEN q ELSE Moved(c, p, q)

LEMMA NotInItself ==
    ASSUME NEW p \in Seq(STRING)
    PROVE  ~In(p, p)
BY InIs

LEMMA PlaceIs ==
    ASSUME NEW c \in Seq(STRING), NEW p \in Seq(STRING), NEW q \in Seq(STRING), c = p \/ In(c, p)
    PROVE  /\ Place(c, p, q) \in Seq(STRING) /\ (Place(c, p, q) = q \/ In(Place(c, p, q), q))
           /\ Place(Place(c, p, q), q, p) = c
           /\ Place(c, p, q) = q <=> c = p
<1>1. CASE c = p BY <1>1 DEF Place
<1>2. CASE c # p
  <2>1. In(c, p) /\ Place(c, p, q) = Moved(c, p, q) BY <1>2 DEF Place
  <2>2. Moved(c, p, q) \in Seq(STRING) /\ In(Moved(c, p, q), q) BY <2>1, MovedIs
  <2>3. Moved(c, p, q) # q BY <2>2, NotInItself
  <2>4. Place(Moved(c, p, q), q, p) = Moved(Moved(c, p, q), q, p) BY <2>3 DEF Place
  <2>5. Moved(Moved(c, p, q), q, p) = c BY <2>1, MovedBack
  <2> QED BY <1>2, <2>1, <2>2, <2>3, <2>4, <2>5
<1> QED BY <1>1, <1>2

\* What is above the place of c is above q, or is itself the place of something.
LEMMA PlacePrefix ==
    ASSUME NEW c \in Seq(STRING), NEW p \in Seq(STRING), NEW q \in Seq(STRING), c = p \/ In(c, p),
           NEW n \in 1..Len(Place(c, p, q))
    PROVE  \/ n \in 1..Len(q) /\ SubSeq(Place(c, p, q), 1, n) = SubSeq(q, 1, n)
           \/ \E m \in 1..Len(c) : /\ In(SubSeq(c, 1, m), p)
                                   /\ SubSeq(Place(c, p, q), 1, n) = Place(SubSeq(c, 1, m), p, q)
<1>1. CASE c = p BY <1>1 DEF Place
<1>2. CASE c # p
  <2>1. In(c, p) /\ Place(c, p, q) = Moved(c, p, q) BY <1>2 DEF Place
  <2>2. \/ n \in 1..Len(q) /\ SubSeq(Moved(c, p, q), 1, n) = SubSeq(q, 1, n)
        \/ \E m \in 1..Len(c) : /\ In(SubSeq(c, 1, m), p)
                                /\ SubSeq(Moved(c, p, q), 1, n) = Moved(SubSeq(c, 1, m), p, q)
    BY <2>1, MovedPrefix
  <2>3. CASE n \in 1..Len(q) /\ SubSeq(Moved(c, p, q), 1, n) = SubSeq(q, 1, n) BY <2>1, <2>3
  <2>4. CASE \E m \in 1..Len(c) : /\ In(SubSeq(c, 1, m), p)
                                  /\ SubSeq(Moved(c, p, q), 1, n) = Moved(SubSeq(c, 1, m), p, q)
    <3>1. PICK m \in 1..Len(c) : /\ In(SubSeq(c, 1, m), p)
                                 /\ SubSeq(Moved(c, p, q), 1, n) = Moved(SubSeq(c, 1, m), p, q)
      BY <2>4
    <3>2. SubSeq(c, 1, m) # p BY <3>1, NotInItself
    <3>3. Place(SubSeq(c, 1, m), p, q) = Moved(SubSeq(c, 1, m), p, q) BY <3>2 DEF Place
    <3> QED BY <2>1, <3>1, <3>3
  <2> QED BY <2>2, <2>3, <2>4
<1> QED BY <1>1, <1>2

\* Nothing is below a name that is not there.
LEMMA NotThere ==
    ASSUME DiskOK, NEW s \in Side, NEW q \in Paths, q \notin DOMAIN disk[s],
           NEW x \in Seq(STRING), x = q \/ In(x, q)
    PROVE  x \notin DOMAIN disk[s]
<1>1. CASE x = q BY <1>1
<1>2. CASE In(x, q)
  <2>1. Len(q) \in 1..Len(x) /\ SubSeq(x, 1, Len(q)) = q
    <3>1. Len(q) \in Nat /\ Len(q) >= 1 BY PathsAre
    <3>2. Len(x) \in Nat OBVIOUS
    <3>3. Len(q) < Len(x) /\ SubSeq(x, 1, Len(q)) = q BY <1>2 DEF In
    <3> QED BY <3>1, <3>2, <3>3
  <2> QED BY <2>1 DEF DiskOK
<1> QED BY <1>1, <1>2

\* The disk after the file was renamed.
RenamedTo(s, p, q) ==
    [disk EXCEPT ![s] =
        [x \in (DOMAIN disk[s] \ Tree(s, p)) \cup {Place(c, p, q) : c \in Tree(s, p)} |->
            IF x = q \/ In(x, q) THEN disk[s][Place(x, q, p)] ELSE disk[s][x]]]

MayRename(s, p, q) ==
    /\ p \in DOMAIN disk[s] /\ q \in Paths \ DOMAIN disk[s] /\ q # p /\ ~In(q, p)
    /\ Len(q) > 1 => Parent(q) \in DOMAIN disk[s]
    /\ \A c \in Tree(s, p) : Place(c, p, q) \in Paths /\ (Place(c, p, q) \in Dirs <=> c \in Dirs)

LEMMA TreeIs ==
    ASSUME DiskOK, NEW s \in Side, NEW p, NEW q, MayRename(s, p, q)
    PROVE  /\ p \in Tree(s, p) /\ p \in Paths /\ q \in Paths /\ IsFiniteSet(Tree(s, p))
           /\ p \in Seq(STRING) /\ q \in Seq(STRING)
           /\ \A c \in Tree(s, p) :
                 /\ c \in DOMAIN disk[s] /\ c \in Paths /\ c \in Seq(STRING) /\ (c = p \/ In(c, p))
                 /\ Place(c, p, q) \in Paths \ DOMAIN disk[s] /\ Place(c, p, q) # c
                 /\ Place(c, p, q) = q \/ In(Place(c, p, q), q)
                 /\ Place(Place(c, p, q), q, p) = c
<1>1. DOMAIN disk[s] \subseteq Paths BY DEF DiskOK
<1>2. p \in DOMAIN disk[s] /\ p \in Paths /\ q \in Paths /\ q \notin DOMAIN disk[s]
  BY <1>1 DEF MayRename
<1>3. Tree(s, p) \subseteq DOMAIN disk[s] /\ p \in Tree(s, p) BY <1>2 DEF Tree
<1>4. IsFiniteSet(Tree(s, p))
  <2>1. Tree(s, p) \subseteq Paths BY <1>1, <1>3
  <2> QED BY <2>1, PathsAre, FS_Subset
<1>5. p \in Seq(STRING) /\ q \in Seq(STRING) BY <1>2, PathsAre
<1>6. ASSUME NEW c \in Tree(s, p)
      PROVE  /\ c \in DOMAIN disk[s] /\ c \in Paths /\ c \in Seq(STRING) /\ (c = p \/ In(c, p))
             /\ Place(c, p, q) \in Paths \ DOMAIN disk[s] /\ Place(c, p, q) # c
             /\ Place(c, p, q) = q \/ In(Place(c, p, q), q)
             /\ Place(Place(c, p, q), q, p) = c
  <2>1. c \in DOMAIN disk[s] /\ c \in Paths /\ (c = p \/ In(c, p)) BY <1>1 DEF Tree
  <2>2. c \in Seq(STRING) BY <2>1, PathsAre
  <2>3. /\ Place(c, p, q) \in Seq(STRING) /\ (Place(c, p, q) = q \/ In(Place(c, p, q), q))
        /\ Place(Place(c, p, q), q, p) = c
    BY <2>1, <2>2, <1>5, PlaceIs
  <2>4. Place(c, p, q) \in Paths BY DEF MayRename
  <2>5. Place(c, p, q) \notin DOMAIN disk[s] BY <2>3, <1>2, NotThere
  <2> QED BY <2>1, <2>2, <2>3, <2>4, <2>5
<1> QED BY <1>2, <1>3, <1>4, <1>5, <1>6

LEMMA RenamedDisk ==
    ASSUME DiskOK, NEW s \in Side, NEW p, NEW q, MayRename(s, p, q), disk' = RenamedTo(s, p, q)
    PROVE  /\ DiskOK' /\ \A t \in Side : t # s => disk'[t] = disk[t]
           /\ DOMAIN disk'[s] = (DOMAIN disk[s] \ Tree(s, p)) \cup {Place(c, p, q) : c \in Tree(s, p)}
<1> DEFINE W == Tree(s, p)
           X == (DOMAIN disk[s] \ W) \cup {Place(c, p, q) : c \in W}
           new == [x \in X |-> IF x = q \/ In(x, q) THEN disk[s][Place(x, q, p)] ELSE disk[s][x]]
<1>1. disk = [t \in Side |-> disk[t]] BY DEF DiskOK
<1>2. disk' = [disk EXCEPT ![s] = new] BY DEF RenamedTo
<1>3. /\ DOMAIN new = X
      /\ \A x \in X : new[x] = IF x = q \/ In(x, q) THEN disk[s][Place(x, q, p)] ELSE disk[s][x]
  OBVIOUS
<1> HIDE DEF new
<1>4. /\ disk' = [t \in Side |-> disk'[t]] /\ disk'[s] = new
      /\ \A t \in Side : t # s => disk'[t] = disk[t]
  BY <1>1, <1>2
<1>5. /\ p \in W /\ p \in Paths /\ q \in Paths /\ p \in Seq(STRING) /\ q \in Seq(STRING)
      /\ \A c \in W : /\ c \in DOMAIN disk[s] /\ c \in Paths /\ c \in Seq(STRING) /\ (c = p \/ In(c, p))
                      /\ Place(c, p, q) \in Paths \ DOMAIN disk[s]
                      /\ Place(c, p, q) = q \/ In(Place(c, p, q), q)
                      /\ Place(Place(c, p, q), q, p) = c
  BY TreeIs
<1>6. q \notin DOMAIN disk[s] /\ ~(q = p \/ In(q, p)) /\ (Len(q) > 1 => Parent(q) \in DOMAIN disk[s])
  BY DEF MayRename
<1>7. \A x \in Paths : x \in DOMAIN disk[s] /\ ~(x = p \/ In(x, p)) => x \in X
  BY DEF Tree
<1>8. \A x \in DOMAIN disk[s] : x \in X => ~(x = p \/ In(x, p))
  <2> SUFFICES ASSUME NEW x \in DOMAIN disk[s], x \in X, x = p \/ In(x, p) PROVE FALSE OBVIOUS
  <2>1. x \in W BY DEF Tree
  <2>2. PICK c \in W : x = Place(c, p, q) BY <2>1
  <2> QED BY <2>2, <1>5
<1>9. \A x \in DOMAIN disk[s] : disk[s][x] \in Ino /\ x \in Paths BY DEF DiskOK
<1>10. \A x \in DOMAIN disk[s] : ~(x = q \/ In(x, q))
  <2> SUFFICES ASSUME NEW x \in DOMAIN disk[s], x = q \/ In(x, q) PROVE FALSE OBVIOUS
  <2>1. x \in Seq(STRING) BY <1>9, PathsAre
  <2> QED BY <2>1, <1>5, <1>6, NotThere
<1>11. \A x \in X : x \in Paths /\ (x \in DOMAIN disk[s] \/ \E c \in W : x = Place(c, p, q))
  BY <1>5, <1>9
<1>12. \A c \in W : Place(c, p, q) \in X OBVIOUS
<1> HIDE DEF X, W
<1>13. ASSUME NEW x \in X PROVE new[x] \in Ino
  <2>1. CASE x \in DOMAIN disk[s] BY <2>1, <1>3, <1>9, <1>10
  <2>2. CASE \E c \in W : x = Place(c, p, q)
    <3>1. PICK c \in W : x = Place(c, p, q) BY <2>2
    <3>2. (x = q \/ In(x, q)) /\ Place(x, q, p) = c BY <3>1, <1>5
    <3> QED BY <3>1, <3>2, <1>3, <1>5, <1>9
  <2> QED BY <2>1, <2>2, <1>11
\* What is above the new name was there, and is neither the old one nor below it.
<1>14. ASSUME NEW n \in 1..Len(q) PROVE SubSeq(q, 1, n) \in X
  <2>1. CASE n = Len(q)
    <3>1. SubSeq(q, 1, n) = q BY <2>1, <1>5, PrefixIs
    <3>2. Place(p, p, q) = q BY DEF Place
    <3> QED BY <3>1, <3>2, <1>5, <1>12
  <2>2. CASE n # Len(q)
    <3>1. Len(q) \in Nat /\ Len(q) > 1 /\ n \in 1..(Len(q) - 1) BY <2>2, <1>5
    <3>2. Parent(q) \in DOMAIN disk[s] /\ Parent(q) = SubSeq(q, 1, Len(q) - 1)
      BY <3>1, <1>6 DEF Parent
    <3>3. (Len(q) - 1) \in 1..Len(q) BY <3>1
    <3>4. /\ Parent(q) \in Seq(STRING) /\ Len(Parent(q)) = Len(q) - 1
          /\ \A k \in 1..(Len(q) - 1) : Parent(q)[k] = q[k]
      BY <3>2, <3>3, <1>5, PrefixIs
    <3>5. SubSeq(Parent(q), 1, n) = SubSeq(q, 1, n)
      <4>1. /\ SubSeq(Parent(q), 1, n) \in Seq(STRING) /\ Len(SubSeq(Parent(q), 1, n)) = n
            /\ \A k \in 1..n : SubSeq(Parent(q), 1, n)[k] = Parent(q)[k]
        BY <3>1, <3>4, PrefixIs
      <4>2. /\ SubSeq(q, 1, n) \in Seq(STRING) /\ Len(SubSeq(q, 1, n)) = n
            /\ \A k \in 1..n : SubSeq(q, 1, n)[k] = q[k]
        BY <1>5, PrefixIs
      <4>3. \A k \in 1..n : SubSeq(Parent(q), 1, n)[k] = SubSeq(q, 1, n)[k]
        <5> SUFFICES ASSUME NEW k \in 1..n
                     PROVE  SubSeq(Parent(q), 1, n)[k] = SubSeq(q, 1, n)[k]
          OBVIOUS
        <5>1. k \in 1..(Len(q) - 1) BY <3>1
        <5> QED BY <5>1, <4>1, <4>2, <3>4
      <4> QED BY <4>1, <4>2, <4>3, SameSequence
    <3>6. SubSeq(Parent(q), 1, n) \in DOMAIN disk[s]
      <4>1. n \in 1..Len(Parent(q)) BY <3>1, <3>4
      <4> QED BY <3>2, <4>1 DEF DiskOK
    <3>7. ~(SubSeq(q, 1, n) = p \/ In(SubSeq(q, 1, n), p)) BY <1>5, <1>6, PrefixBelow
    <3> QED BY <3>5, <3>6, <3>7, <1>7, <1>9
  <2> QED BY <2>1, <2>2
<1>15. ASSUME NEW x \in X, NEW n \in 1..Len(x) PROVE SubSeq(x, 1, n) \in X
  <2>1. CASE x \in DOMAIN disk[s]
    <3>1. SubSeq(x, 1, n) \in DOMAIN disk[s] /\ x \in Seq(STRING)
      BY <2>1, <1>9, PathsAre DEF DiskOK
    <3>2. ~(SubSeq(x, 1, n) = p \/ In(SubSeq(x, 1, n), p))
      BY <2>1, <3>1, <1>5, <1>8, PrefixBelow
    <3> QED BY <3>1, <3>2, <1>7, <1>9
  <2>2. CASE \E c \in W : x = Place(c, p, q)
    <3>1. PICK c \in W : x = Place(c, p, q) BY <2>2
    <3>2. c \in Seq(STRING) /\ (c = p \/ In(c, p)) /\ c \in DOMAIN disk[s] BY <1>5
    <3>3. \/ n \in 1..Len(q) /\ SubSeq(x, 1, n) = SubSeq(q, 1, n)
          \/ \E m \in 1..Len(c) : /\ In(SubSeq(c, 1, m), p)
                                  /\ SubSeq(x, 1, n) = Place(SubSeq(c, 1, m), p, q)
      <4>1. n \in 1..Len(Place(c, p, q)) BY <3>1
      <4>2. p \in Seq(STRING) /\ q \in Seq(STRING) /\ c \in Seq(STRING) BY <3>2, <1>5
      <4>3. c = p \/ In(c, p) BY <3>2
      <4>4. \/ n \in 1..Len(q) /\ SubSeq(Place(c, p, q), 1, n) = SubSeq(q, 1, n)
            \/ \E m \in 1..Len(c) : /\ In(SubSeq(c, 1, m), p)
                                    /\ SubSeq(Place(c, p, q), 1, n) = Place(SubSeq(c, 1, m), p, q)
        BY ONLY <4>1, <4>2, <4>3, PlacePrefix
      <4> QED BY <3>1, <4>4
    <3>4. CASE n \in 1..Len(q) /\ SubSeq(x, 1, n) = SubSeq(q, 1, n) BY <3>4, <1>14
    <3>5. CASE \E m \in 1..Len(c) : /\ In(SubSeq(c, 1, m), p)
                                    /\ SubSeq(x, 1, n) = Place(SubSeq(c, 1, m), p, q)
      <4>1. PICK m \in 1..Len(c) : /\ In(SubSeq(c, 1, m), p)
                                   /\ SubSeq(x, 1, n) = Place(SubSeq(c, 1, m), p, q)
        BY <3>5
      <4>2. SubSeq(c, 1, m) \in DOMAIN disk[s] BY <3>2 DEF DiskOK
      <4>3. SubSeq(c, 1, m) \in W BY <4>1, <4>2 DEF W, Tree
      <4> QED BY <4>1, <4>3, <1>12
    <3> QED BY <3>3, <3>4, <3>5
  <2> QED BY <2>1, <2>2, <1>11
<1>16. DiskOK'
  <2>1. \A t \in Side : DOMAIN disk'[t] \subseteq Paths BY <1>3, <1>4, <1>11 DEF DiskOK
  <2>2. \A t \in Side : \A x \in DOMAIN disk'[t] : disk'[t][x] \in Ino BY <1>3, <1>4, <1>13 DEF DiskOK
  <2>3. \A t \in Side : \A x \in DOMAIN disk'[t] : \A n \in 1..Len(x) : SubSeq(x, 1, n) \in DOMAIN disk'[t]
    BY <1>3, <1>4, <1>15 DEF DiskOK
  <2> QED BY <2>1, <2>2, <2>3, <1>4 DEF DiskOK
<1> QED BY <1>3, <1>4, <1>16 DEF X, W

\* What a rename that is told takes along.
Below(s, p) == Enumeration({c \in DOMAIN disk[s] : In(c, p)})

LEMMA RenamesAre ==
    ASSUME DiskOK, NEW s \in Side, NEW p, NEW q, MayRename(s, p, q)
    PROVE  LET ms == Renamings(s, p, q, Below(s, p))
           IN  /\ ms \in Seq(Messages) /\ Len(ms) \in Nat
               /\ \A k \in 1..Len(ms) : /\ ms[k].type = "rename" /\ ms[k].side = s
                                        /\ ms[k].path \in Tree(s, p)
                                        /\ ms[k].to = Place(ms[k].path, p, q)
               /\ \A j, k \in 1..Len(ms) : ms[j].path = ms[k].path => j = k
               /\ \A c \in Tree(s, p) : \E k \in 1..Len(ms) : ms[k].path = c
<1> DEFINE S == {c \in DOMAIN disk[s] : In(c, p)}
           n == Cardinality(S)
           below == Enumeration(S)
           w == [k \in DOMAIN below |-> Message("rename", s, below[k], Moved(below[k], p, q), TRUE)]
           m == Message("rename", s, p, q, FALSE)
           ms == Renamings(s, p, q, Below(s, p))
           W == Tree(s, p)
<1>1. /\ p \in W /\ p \in Seq(STRING) /\ IsFiniteSet(W)
      /\ \A c \in W : c \in Paths /\ (c = p \/ In(c, p)) /\ Place(c, p, q) \in Paths
  BY TreeIs
<1>2. S \subseteq W /\ W \subseteq S \cup {p} BY DEF Tree
<1>3. p \notin S BY <1>1, NotInItself
<1>4. \A c \in S : Place(c, p, q) = Moved(c, p, q) BY <1>3 DEF Place
<1>5. Place(p, p, q) = q BY DEF Place
<1>6. ms = Append(w, m) BY DEF Renamings, Below
<1>7. IsFiniteSet(S) BY <1>1, <1>2, FS_Subset
<1>8. \A x \in Paths, y \in Paths, b \in BOOLEAN :
         LET z == Message("rename", s, x, y, b)
         IN  z \in Messages /\ z.type = "rename" /\ z.side = s /\ z.path = x /\ z.to = y
  BY DEF Message, Messages, RowMessages
<1> HIDE DEF S, W
<1>9. /\ n \in Nat /\ below \in [1..n -> S] /\ \A x \in S : \E i \in 1..n : below[i] = x
      /\ \A i, j \in 1..n : below[i] = below[j] => i = j
  BY <1>7, EnumerationIs
<1> HIDE DEF n, below, ms
<1>10. ASSUME NEW c \in S
       PROVE  LET z == Message("rename", s, c, Moved(c, p, q), TRUE)
              IN  z \in Messages /\ z.type = "rename" /\ z.side = s /\ z.path = c /\ z.to = Place(c, p, q)
  <2>1. c \in Paths /\ Moved(c, p, q) \in Paths /\ Place(c, p, q) = Moved(c, p, q)
    BY <1>1, <1>2, <1>4
  <2> QED BY <2>1, <1>8
<1>11. m \in Messages /\ m.type = "rename" /\ m.side = s /\ m.path = p /\ m.to = Place(p, p, q)
  <2>1. p \in Paths /\ q \in Paths BY <1>1, <1>5
  <2> QED BY <2>1, <1>5, <1>8
<1> HIDE DEF m
<1>12. ASSUME NEW k \in 1..n
       PROVE /\ w[k] \in Messages /\ w[k].type = "rename" /\ w[k].side = s /\ w[k].path = below[k]
             /\ w[k].to = Place(below[k], p, q) /\ below[k] \in S
  BY <1>9, <1>10
<1>13. w \in [1..n -> Messages]
  <2>1. DOMAIN w = 1..n BY <1>9
  <2>2. w = [k \in 1..n |-> w[k]] BY <2>1
  <2> HIDE DEF w
  <2> QED BY <2>2, <1>12
<1> HIDE DEF w
<1>14. w \in Seq(Messages) /\ Len(w) = n BY <1>9, <1>13
<1>15. /\ ms \in Seq(Messages) /\ Len(ms) = n + 1
       /\ \A k \in 1..n : ms[k] = w[k]
       /\ ms[n + 1] = m
  BY <1>6, <1>9, <1>11, <1>14
<1>16. \A k \in 1..(n + 1) : k \in 1..n \/ k = n + 1 BY <1>9
<1>17. (n + 1) \in 1..(n + 1) /\ 1..n \subseteq 1..(n + 1) BY <1>9
<1>18. ASSUME NEW k \in 1..(n + 1)
       PROVE /\ ms[k].type = "rename" /\ ms[k].side = s /\ ms[k].path \in W
             /\ ms[k].to = Place(ms[k].path, p, q)
  <2>1. CASE k \in 1..n BY <2>1, <1>2, <1>12, <1>15
  <2>2. CASE k = n + 1 BY <2>2, <1>1, <1>11, <1>15
  <2> QED BY <2>1, <2>2, <1>16
<1>19. ASSUME NEW j \in 1..(n + 1), NEW k \in 1..(n + 1), ms[j].path = ms[k].path PROVE j = k
  <2>1. \A i \in 1..n : ms[i].path = below[i] /\ ms[i].path \in S BY <1>12, <1>15
  <2>2. ms[n + 1].path = p BY <1>11, <1>15
  <2>3. CASE j \in 1..n /\ k \in 1..n BY <2>1, <2>3, <1>9, <1>19
  <2>4. CASE j \in 1..n /\ k = n + 1 BY <2>1, <2>2, <2>4, <1>3, <1>19
  <2>5. CASE j = n + 1 /\ k \in 1..n BY <2>1, <2>2, <2>5, <1>3, <1>19
  <2> QED BY <2>3, <2>4, <2>5, <1>16
<1>20. ASSUME NEW c \in W PROVE \E k \in 1..(n + 1) : ms[k].path = c
  <2>1. CASE c = p BY <2>1, <1>11, <1>15, <1>17
  <2>2. CASE c \in S
    <3>1. PICK i \in 1..n : below[i] = c BY <2>2, <1>9
    <3>2. ms[i].path = c BY <3>1, <1>12, <1>15
    <3> QED BY <3>2, <1>17
  <2> QED BY <2>1, <2>2, <1>2
<1> QED BY <1>9, <1>15, <1>18, <1>19, <1>20 DEF ms, W

\* What is renamed goes to names that were free, nothing is left under an old name, and
\* nothing is put where nothing is.
LEMMA RenamesTell ==
    ASSUME DiskOK, NEW s \in Side, NEW p, NEW q, MayRename(s, p, q), disk' = RenamedTo(s, p, q)
    PROVE  LET ms == Renamings(s, p, q, Below(s, p))
           IN  /\ NewNames(ms, disk) /\ ToldGone(ms, disk, disk')
               /\ ToldFiles(ms, disk, {}, disk', {})
               /\ \A m \in Seq(Messages) : (\A j \in 1..Len(m) : m[j].type # "transfer") =>
                      WillFind(m, ms, disk, {})
<1> DEFINE ms == Renamings(s, p, q, Below(s, p))
           W == Tree(s, p)
<1>1. /\ ms \in Seq(Messages) /\ Len(ms) \in Nat
      /\ \A k \in 1..Len(ms) : /\ ms[k].type = "rename" /\ ms[k].side = s /\ ms[k].path \in W
                               /\ ms[k].to = Place(ms[k].path, p, q)
      /\ \A j, k \in 1..Len(ms) : ms[j].path = ms[k].path => j = k
      /\ \A c \in W : \E k \in 1..Len(ms) : ms[k].path = c
  BY RenamesAre
<1>2. \A c \in W : /\ c \in DOMAIN disk[s] /\ Place(c, p, q) \in Paths \ DOMAIN disk[s]
                   /\ Place(c, p, q) # c /\ Place(Place(c, p, q), q, p) = c
  BY TreeIs
<1>3. \A c \in W : Place(c, p, q) \in Dirs <=> c \in Dirs BY DEF MayRename
<1>4. /\ \A t \in Side : t # s => disk'[t] = disk[t]
      /\ DOMAIN disk'[s] = (DOMAIN disk[s] \ W) \cup {Place(c, p, q) : c \in W}
  BY RenamedDisk
<1>5. DOMAIN disk[s] \subseteq Paths BY DEF DiskOK
<1> HIDE DEF ms, W
<1>7. \A k \in 1..Len(ms) : \A j \in 1..(k - 1) : j \in 1..Len(ms) /\ j # k BY <1>1
<1>8. NewNames(ms, disk)
  <2> SUFFICES ASSUME NEW k \in 1..Len(ms)
               PROVE  /\ ms[k].path # ms[k].to /\ ms[k].to \in Paths \ DOMAIN disk[ms[k].side]
                      /\ \A j \in 1..(k - 1) : ~Fills(ms[j], ms[k].side, ms[k].to)
    BY DEF NewNames
  <2>1. ms[k].path # ms[k].to /\ ms[k].to \in Paths \ DOMAIN disk[ms[k].side] BY <1>1, <1>2
  <2>2. ASSUME NEW j \in 1..(k - 1), Fills(ms[j], ms[k].side, ms[k].to) PROVE FALSE
    <3>1. j \in 1..Len(ms) /\ j # k BY <1>7
    <3>2. Place(ms[k].path, p, q) = Place(ms[j].path, p, q) BY <2>2, <3>1, <1>1 DEF Vacates, Fills
    <3>3. ms[k].path = ms[j].path BY <3>1, <3>2, <1>1, <1>2
    <3> QED BY <3>1, <3>3, <1>1
  <2> QED BY <2>1, <2>2
<1>9. ToldGone(ms, disk, disk')
  <2> SUFFICES ASSUME NEW t \in Side, NEW x \in Paths \ DOMAIN disk'[t]
               PROVE  /\ x \notin DOMAIN disk[t] \/ \E j \in 1..Len(ms) : Vacates(ms[j], t, x)
                      /\ \A j \in 1..Len(ms) : ~Fills(ms[j], t, x)
    BY DEF ToldGone
  <2>1. CASE t # s BY <2>1, <1>4, <1>1 DEF Vacates, Fills
  <2>2. CASE t = s
    <3>1. x \notin DOMAIN disk[s] \/ x \in W BY <2>2, <1>4
    <3>2. ASSUME x \in W PROVE \E j \in 1..Len(ms) : Vacates(ms[j], t, x)
      <4>1. PICK k \in 1..Len(ms) : ms[k].path = x BY <3>2, <1>1
      <4> QED BY <4>1, <2>2, <1>1 DEF Vacates, Fills
    <3>3. \A j \in 1..Len(ms) : Place(ms[j].path, p, q) \in DOMAIN disk'[s] BY <1>1, <1>4
    <3>4. \A j \in 1..Len(ms) : ~Fills(ms[j], t, x) BY <3>3, <2>2, <1>1 DEF Vacates, Fills
    <3> QED BY <2>2, <3>1, <3>2, <3>4
  <2> QED BY <2>1, <2>2
<1>10. ToldFiles(ms, disk, {}, disk', {})
  <2> SUFFICES ASSUME NEW t \in Side, NEW x \in DOMAIN disk'[t] \ Dirs
               PROVE  \/ x \in DOMAIN disk[t] /\ \A j \in 1..Len(ms) : ~Vacates(ms[j], t, x)
                      \/ \E j \in 1..Len(ms) : /\ Fills(ms[j], t, x)
                                               /\ \A k \in (j + 1)..Len(ms) : ~Vacates(ms[k], t, x)
    BY DEF ToldFiles
  <2>1. CASE t # s BY <2>1, <1>4, <1>1 DEF Vacates, Fills
  <2>2. CASE t = s /\ x \in DOMAIN disk[s] \ W BY <2>2, <1>1 DEF Vacates, Fills
  <2>3. CASE t = s /\ \E c \in W : x = Place(c, p, q)
    <3>1. PICK c \in W : x = Place(c, p, q) BY <2>3
    <3>2. PICK j \in 1..Len(ms) : ms[j].path = c BY <1>1
    <3>3. Fills(ms[j], t, x) BY <2>3, <3>1, <3>2, <1>1 DEF Vacates, Fills
    <3>4. \A k \in 1..Len(ms) : ~Vacates(ms[k], t, x) BY <3>1, <1>1, <1>2 DEF Vacates, Fills
    <3>5. (j + 1)..Len(ms) \subseteq 1..Len(ms) BY <1>1
    <3> QED BY <3>3, <3>4, <3>5
  <2> QED BY <2>1, <2>2, <2>3, <1>4
<1>11. ASSUME NEW m \in Seq(Messages), \A j \in 1..Len(m) : m[j].type # "transfer"
       PROVE  WillFind(m, ms, disk, {})
  <2>1. ASSUME NEW k \in 1..Len(ms)
        PROVE  /\ ms[k].type = "rename" =>
                    /\ ms[k].path \in Dirs <=> ms[k].to \in Dirs
                    /\ ms[k].path \notin Dirs =>
                          /\ ms[k].path \in DOMAIN disk[ms[k].side] /\ {} = {}
                          /\ \A j \in 1..(k - 1) : ~Vacates(ms[j], ms[k].side, ms[k].path)
                    /\ \A j \in 1..Len(m) : m[j].type # "transfer"
                    /\ \A j \in 1..k : ms[j].type # "transfer"
               /\ ms[k].type # "transfer"
    <3>1. ms[k].type = "rename" /\ (ms[k].path \in Dirs <=> ms[k].to \in Dirs) BY <1>1, <1>3
    <3>2. ms[k].path \in DOMAIN disk[ms[k].side] BY <1>1, <1>2
    <3>3. \A j \in 1..(k - 1) : ~Vacates(ms[j], ms[k].side, ms[k].path) BY <1>1, <1>7 DEF Vacates, Fills
    <3>4. \A j \in 1..k : j \in 1..Len(ms) BY <1>1
    <3>5. \A j \in 1..k : ms[j].type # "transfer" BY <3>4, <1>1
    <3> QED BY <3>1, <3>2, <3>3, <3>5, <1>11
  <2> QED BY <2>1 DEF WillFind
<1> QED BY <1>8, <1>9, <1>10, <1>11 DEF ms

LEMMA RenameInv ==
    ASSUME Inv, ReadAll, NEW s \in Side, NEW r \in DOMAIN rows, NEW q \in Paths, Rename(s, r, q),
           ~untold'
    PROVE  /\ Inv' /\ work = "idle" /\ UNCHANGED <<thread, backend>> /\ UNCHANGED tables
           /\ \E p : /\ MayRename(s, p, q) /\ disk' = RenamedTo(s, p, q)
                     /\ Posted' = Posted \o Renamings(s, p, q, Below(s, p))
<1> DEFINE p == list[s][rows[r][s]].path
           below == {c \in DOMAIN disk[s] : In(c, p)}
           walk == Enumeration({c \in below : c \notin Unread[s]})
<1>1. /\ work = "idle" /\ rows[r][s] # 0 /\ UNCHANGED tables /\ UNCHANGED <<thread, backend>>
      /\ q # p /\ (q \in Dirs <=> p \in Dirs) /\ ~In(q, p)
      /\ Exists(s, p) /\ ~Exists(s, q)
      /\ Len(q) > 1 => Exists(s, Parent(q))
      /\ \A c \in below : Moved(c, p, q) \in Paths /\ (Moved(c, p, q) \in Dirs <=> c \in Dirs)
      /\ disk' = [disk EXCEPT ![s] =
            [x \in ((DOMAIN disk[s] \ ({p} \cup below)) \cup {q} \cup {Moved(c, p, q) : c \in below}) |->
                IF x = q THEN disk[s][p]
                ELSE IF In(x, q) THEN disk[s][Moved(x, q, p)] ELSE disk[s][x]]]
      /\ queue' = queue \o Renamings(s, p, q, walk)
  BY DEF Rename, UserMay, ShownOn
<1>2. p \in Paths
  <2>1. PathOf(r) \in Paths /\ list[s][rows[r][s]].path = PathOf(r) BY <1>1, PathOfIs DEF Inv
  <2> QED BY <2>1
<1>3. p \in Seq(STRING) /\ q \in Seq(STRING) BY <1>2, PathsAre
<1>4. {c \in below : c \notin Unread[s]} = below BY DEF ReadAll
<1>5. walk = Below(s, p) BY <1>4 DEF Below
<1>6. queue' = queue \o Renamings(s, p, q, Below(s, p)) BY <1>1, <1>5
<1> HIDE DEF p, walk
<1>7. Tree(s, p) = {p} \cup below BY <1>1 DEF Tree, Exists
<1>8. p \notin below BY <1>3, NotInItself
<1>9. \A c \in below : Place(c, p, q) = Moved(c, p, q) BY <1>8 DEF Place
<1>10. Place(p, p, q) = q BY DEF Place
<1>11. MayRename(s, p, q) BY <1>1, <1>2, <1>7, <1>9, <1>10 DEF MayRename, Exists
<1>12. disk' = RenamedTo(s, p, q)
  <2> DEFINE X == (DOMAIN disk[s] \ ({p} \cup below)) \cup {q} \cup {Moved(c, p, q) : c \in below}
             Y == (DOMAIN disk[s] \ Tree(s, p)) \cup {Place(c, p, q) : c \in Tree(s, p)}
             f == [x \in X |-> IF x = q THEN disk[s][p]
                               ELSE IF In(x, q) THEN disk[s][Moved(x, q, p)] ELSE disk[s][x]]
             g == [x \in Y |-> IF x = q \/ In(x, q) THEN disk[s][Place(x, q, p)] ELSE disk[s][x]]
  <2>1. X = Y
    <3>1. {Place(c, p, q) : c \in Tree(s, p)} = {q} \cup {Moved(c, p, q) : c \in below}
      BY <1>7, <1>9, <1>10
    <3> QED BY <3>1, <1>7
  <2>2. Place(q, q, p) = p /\ \A x : x # q => Place(x, q, p) = Moved(x, q, p) BY DEF Place
  <2> HIDE DEF X, Y
  <2>3. f = g BY <2>1, <2>2
  <2>4. disk' = [disk EXCEPT ![s] = f] BY <1>1 DEF X
  <2>5. RenamedTo(s, p, q) = [disk EXCEPT ![s] = g] BY DEF RenamedTo, Y
  <2> QED BY <2>3, <2>4, <2>5
<1> DEFINE ms == Renamings(s, p, q, Below(s, p))
<1>13. ms \in Seq(Messages) /\ \A k \in 1..Len(ms) : ms[k].type = "rename" /\ Len(ms) \in Nat
  BY <1>11, RenamesAre DEF Inv
<1>14. NewNames(ms, disk) /\ ToldGone(ms, disk, disk') BY <1>11, <1>12, RenamesTell DEF Inv
<1>15. DiskOK' BY <1>11, <1>12, RenamedDisk DEF Inv
<1> HIDE DEF ms, below
<1>16. queue \in Seq(Messages) /\ batch = <<>> /\ batch' = batch /\ queue' = queue \o ms
  BY <1>1, <1>6 DEF Inv, ThreadOK, thread, ms
<1>17. Posted = queue /\ Posted' = Posted \o ms /\ queue' \in Seq(Messages)
  <2>1. queue \o ms \in Seq(Messages) BY <1>13, <1>16
  <2>2. queue' \o <<>> = queue' /\ queue \o <<>> = queue BY <1>16, <2>1
  <2> QED BY <2>1, <2>2, <1>16 DEF Posted
<1>18. TablesSound' /\ map' = map BY <1>1, SameTables DEF Inv
<1>19. UNCHANGED <<work, side, todo, again, done, batch, backend>> BY <1>1 DEF thread
<1>20. ThreadOK'
  <2>1. done' = {} BY <1>1, <1>19 DEF Inv, ThreadOK
  <2> QED BY <2>1, <1>16, <1>17, <1>19 DEF Inv, ThreadOK, Tasks
<1>21. BatchOK'
  <2>1. batch' = <<>> /\ work' = "idle" BY <1>1, <1>16, <1>19
  <2>2. \A k \in 1..Len(batch') : FALSE BY <2>1
  <2>3. /\ CopiesLeft' = CopiesLeft /\ side' = side /\ Tasks("delete")' = Tasks("delete")
    BY <1>19 DEF CopiesLeft, Tasks
  <2> QED BY <1>1, <2>1, <2>2, <2>3 DEF BatchOK, Inv
<1>22. VerdictLast'
  <2>1. work # "ended" /\ \A k \in 1..Len(ms) : ms[k].type \notin {"finished", "transfer"}
    BY <1>1, <1>13
  <2>2. \A k \in 1..Len(Posted \o ms) : (Posted \o ms)[k].type # "finished"
    BY <2>1, <1>13, NoVerdict DEF Inv
  <2>3. \A k \in 1..Len(queue) : queue[k].type # "transfer" BY <1>1 DEF Inv, VerdictLast
  <2>4. \A k \in 1..Len(queue \o ms) : (queue \o ms)[k].type # "transfer"
    <3>1. /\ Len(queue) \in Nat /\ Len(ms) \in Nat /\ Len(queue \o ms) = Len(queue) + Len(ms)
          /\ \A k \in 1..Len(queue) : (queue \o ms)[k] = queue[k]
          /\ \A k \in 1..Len(ms) : (queue \o ms)[Len(queue) + k] = ms[k]
      BY <1>13, <1>16, BothIs
    <3> SUFFICES ASSUME NEW k \in 1..Len(queue \o ms) PROVE (queue \o ms)[k].type # "transfer" OBVIOUS
    <3>2. CASE k \in 1..Len(queue) BY <3>1, <3>2, <2>3
    <3>3. CASE k \notin 1..Len(queue)
      <4>1. (k - Len(queue)) \in 1..Len(ms) /\ Len(queue) + (k - Len(queue)) = k BY <3>1, <3>3
      <4>2. (queue \o ms)[k] = ms[k - Len(queue)] BY <3>1, <4>1
      <4> QED BY <4>1, <4>2, <2>1
    <3> QED BY <3>2, <3>3
  <2> QED BY <2>2, <2>4, <1>16, <1>17 DEF VerdictLast
<1>23. MessagesOK' BY <1>13, <1>14, <1>17, <1>18, MoreMessages DEF Inv
<1> QED BY <1>1, <1>11, <1>12, <1>15, <1>17, <1>18, <1>20, <1>21, <1>22, <1>23 DEF Inv, ms

-----------------------------------------------------------------------------
(* The invariant                                                           *)

LEMMA InitInv ==
    ASSUME Init, ReadAll
    PROVE  /\ Inv /\ Posted = <<>> /\ done = {} /\ work = "idle"
           /\ \A s \in Side, p \in Paths : map[s][p] # 0 <=> p \in DOMAIN disk[s]
<1>1. /\ queue = <<>> /\ batch = <<>> /\ work = "idle" /\ side = "L" /\ todo = {} /\ again = {}
      /\ done = {}
  BY DEF Init
<1>2. DiskOK /\ TablesSound /\ \A s \in Side, p \in Paths : map[s][p] # 0 <=> p \in DOMAIN disk[s]
  BY InitTables, InitSound
<1>3. Posted = <<>> /\ Len(Posted) = 0 /\ Len(queue) = 0 /\ Len(batch) = 0 BY <1>1 DEF Posted
<1>4. \A k \in 1..0 : FALSE OBVIOUS
<1>5. ThreadOK
  <2>1. <<>> \in Seq(Messages) OBVIOUS
  <2>2. DOMAIN disk["R"] = DOMAIN disk["R"] OBVIOUS
  <2> QED BY <1>1, <2>1, SideIs DEF ThreadOK, Tasks, Phases
<1>6. BatchOK BY <1>1, <1>3, <1>4 DEF BatchOK, CopiesLeft, Tasks
<1>7. VerdictLast BY <1>3, <1>4 DEF VerdictLast
<1>8. NamesFree(map, Posted) BY <1>3, <1>4 DEF NamesFree
<1>9. GoneFree(map, Posted, disk)
  <2> SUFFICES ASSUME NEW s \in Side, NEW x \in Paths \ DOMAIN disk[s]
               PROVE  FreeAt(map, Posted, Len(Posted), s, x)
    BY DEF GoneFree
  <2>1. map[s][x] = 0 BY <1>2
  <2> QED BY <2>1, <1>3, <1>4 DEF FreeAt
<1> QED BY <1>1, <1>2, <1>3, <1>5, <1>6, <1>7, <1>8, <1>9 DEF Inv, MessagesOK

LEMMA StutterInv ==
    ASSUME Inv, UNCHANGED vars
    PROVE  Inv'
<1>1. /\ UNCHANGED <<disk, queue, work, side, todo, again, done, batch, backend>>
      /\ UNCHANGED tables
  BY DEF vars, thread
<1>2. TablesSound' /\ map' = map BY <1>1, SameTables DEF Inv
<1>3. DiskOK' BY <1>1, SameDisk DEF Inv
<1>4. Posted' = Posted BY <1>1 DEF Posted
<1>5. ThreadOK' BY <1>1 DEF Inv, ThreadOK, Tasks
<1>6. BatchOK' BY <1>1 DEF Inv, BatchOK, CopiesLeft, Tasks
<1>7. VerdictLast' BY <1>1, <1>4 DEF Inv, VerdictLast
<1>8. MessagesOK' BY <1>1, <1>2, <1>4, NothingPosted DEF Inv
<1> QED BY <1>2, <1>3, <1>5, <1>6, <1>7, <1>8 DEF Inv

\* What was not told is never made up for.
LEMMA UntoldStays ==
    ASSUME [Next]_vars, untold
    PROVE  untold'
<1>1. CASE UNCHANGED vars BY <1>1 DEF vars
<1>2. CASE Handle BY <1>2 DEF Handle
<1>3. CASE FlushBatch \/ StartCopies \/ EndCopies
  BY <1>3 DEF FlushBatch, StartCopies, EndCopies
<1>4. CASE Abort \/ Finish BY <1>4 DEF Abort, Finish
<1>5. CASE \E r \in DOMAIN rows : Select(r) BY <1>5 DEF Select
<1>6. CASE \E s \in Side, r \in DOMAIN rows, q \in Paths : Rename(s, r, q)
  <2>1. PICK s \in Side, r \in DOMAIN rows, q \in Paths : Rename(s, r, q) BY <1>6
  <2>2. UNCHANGED <<faults, untold>> \/ untold' = TRUE BY <2>1, Zenon DEF Rename
  <2> QED BY <2>2
<1>7. CASE \E rule \in Rules : Ignore(rule) BY <1>7 DEF Ignore
<1>8. CASE \/ \E R \in SUBSET DOMAIN rows : StartSync(R) \/ \E s \in Side : StartApply(s, R)
           \/ \E s \in Side : StartDelete(s)
  BY <1>8 DEF StartSync, StartApply, StartDelete, Start
<1>9. CASE \E t \in todo : DeletePath(t) BY <1>9 DEF DeletePath
<1>10. CASE \E p \in Paths : CopyPath(p) BY <1>10 DEF CopyPath
<1>11. CASE \E p \in Paths : Report(p) BY <1>11 DEF Report
<1> QED BY <1>1, <1>2, <1>3, <1>4, <1>5, <1>6, <1>7, <1>8, <1>9, <1>10, <1>11 DEF Next

LEMMA NextInv ==
    ASSUME Inv, ReadAll, [Next]_vars, ~untold'
    PROVE  Inv'
<1>1. CASE UNCHANGED vars BY <1>1, StutterInv
<1>2. CASE Handle BY <1>2, HandleInv
<1>3. CASE FlushBatch BY <1>3, FlushInv
<1>4. CASE StartCopies \/ EndCopies \/ Abort BY <1>4, PhaseInv
<1>5. CASE Finish BY <1>5, FinishInv
<1>6. CASE \E r \in DOMAIN rows : Select(r) BY <1>6, SelectInv
<1>7. CASE \E s \in Side, r \in DOMAIN rows, q \in Paths : Rename(s, r, q) BY <1>7, RenameInv
<1>8. CASE \E rule \in Rules : Ignore(rule) BY <1>8, IgnoreInv
<1>9. CASE \/ \E R \in SUBSET DOMAIN rows : StartSync(R) \/ \E s \in Side : StartApply(s, R)
           \/ \E s \in Side : StartDelete(s)
  BY <1>9, TasksInv
<1>10. CASE \E t \in todo : DeletePath(t) BY <1>10, DeletePathInv
<1>11. CASE \E p \in Paths : CopyPath(p) BY <1>11, CopyPathInv
<1>12. CASE \E p \in Paths : Report(p) BY <1>12, ReportInv
<1> QED BY <1>1, <1>2, <1>3, <1>4, <1>5, <1>6, <1>7, <1>8, <1>9, <1>10, <1>11, <1>12 DEF Next

\* When every directory was read and every rename was told, the tables stay consistent, the
\* messages still to come find the new names free, and what is gone from a disk will be out
\* of the map (update_rows handles what work_transfer and on_path_edited posted, in that
\* order).
THEOREM TablesAlways ==
    ASSUME ReadAll
    PROVE  Spec => [](~untold => Inv)
<1>1. Init => (~untold => Inv) BY InitInv
<1>2. (~untold => Inv) /\ [Next]_vars => (~untold => Inv)' BY NextInv, UntoldStays
<1> QED BY <1>1, <1>2, PTL DEF Spec

LEMMA InvConsistent ==
    ASSUME Inv
    PROVE  StateConsistent
<1>1. /\ ArraysOK(list, map, rows) /\ RowsPoint(list, rows, {}) /\ EntriesPoint(list, map, rows, {})
      /\ MapPoints(list, map) /\ NoEmptyRow(rows, {}) /\ OneRowPerPath(list, rows, {})
  BY DEF Inv, TablesSound, Sound
<1>2. /\ rows \in Seq(RowsType) /\ DOMAIN rows = 1..Len(rows) /\ Len(rows) \in Nat
      /\ \A s \in Side : /\ list[s] \in Seq(Entries) /\ DOMAIN list[s] = 1..Len(list[s])
                         /\ Len(list[s]) \in Nat
  BY <1>1 DEF ArraysOK
<1>3. \A r \in 1..Len(rows) : r \in (1..Len(rows)) \ {} OBVIOUS
<1>4. \A r \in DOMAIN rows, s \in Side : rows[r][s] \in 0..Len(list[s])
  <2> SUFFICES ASSUME NEW r \in DOMAIN rows, NEW s \in Side PROVE rows[r][s] \in 0..Len(list[s])
    OBVIOUS
  <2>1. rows[r][s] # 0 => rows[r][s] \in 1..Len(list[s]) BY <1>1, <1>2, <1>3 DEF RowsPoint
  <2> QED BY <2>1, <1>2
<1>5. \A s \in Side : \A i \in DOMAIN list[s] : list[s][i].row \in 0..Len(rows)
  <2> SUFFICES ASSUME NEW s \in Side, NEW i \in 1..Len(list[s]) PROVE list[s][i].row \in 0..Len(rows)
    BY <1>2
  <2>1. list[s][i].row # 0 => list[s][i].row \in 1..Len(rows) BY <1>1 DEF EntriesPoint
  <2> QED BY <2>1, <1>2
<1>6. \A k, l \in DOMAIN batch : batch[k].type = batch[l].type
  BY DEF Inv, BatchOK, ThreadOK
<1>7. \A r \in DOMAIN rows : rows[r].L # 0 \/ rows[r].R # 0 BY <1>1, <1>2, <1>3 DEF NoEmptyRow
<1>8. \A r \in DOMAIN rows, s \in Side : rows[r][s] # 0 => list[s][rows[r][s]].row = r
  BY <1>1, <1>2, <1>3 DEF RowsPoint
<1>9. \A s \in Side : \A i \in DOMAIN list[s] :
         IF list[s][i].row # 0
         THEN rows[list[s][i].row][s] = i /\ map[s][list[s][i].path] = i
         ELSE map[s][list[s][i].path] # i
  <2> SUFFICES ASSUME NEW s \in Side, NEW i \in 1..Len(list[s])
               PROVE  IF list[s][i].row # 0
                      THEN rows[list[s][i].row][s] = i /\ map[s][list[s][i].path] = i
                      ELSE map[s][list[s][i].path] # i
    BY <1>2
  <2>1. CASE list[s][i].row # 0 BY <2>1, <1>1 DEF EntriesPoint
  <2>2. CASE list[s][i].row = 0
    <3>1. list[s][i].path \in Paths
      <4>1. list[s][i] \in Entries BY <1>2
      <4> QED BY <4>1 DEF Entries
    <3>2. i # 0 BY <1>2
    <3> QED BY <2>2, <3>1, <3>2, <1>1 DEF MapPoints
  <2> QED BY <2>1, <2>2
<1>10. \A r, x \in DOMAIN rows : PathOf(r) = PathOf(x) => r = x
  <2> SUFFICES ASSUME NEW r \in DOMAIN rows, NEW x \in DOMAIN rows, PathOf(r) = PathOf(x)
               PROVE  r = x
    OBVIOUS
  <2>1. PICK s \in Side : rows[r][s] # 0 BY <1>7, SideIs
  <2>2. PICK t \in Side : rows[x][t] # 0 BY <1>7, SideIs
  <2>3. list[s][rows[r][s]].path = PathOf(r) BY <2>1, PathOfIs DEF Inv
  <2>4. list[t][rows[x][t]].path = PathOf(x) BY <2>2, PathOfIs DEF Inv
  <2>5. list[s][rows[r][s]].path = list[t][rows[x][t]].path BY <2>3, <2>4
  <2>6. r \in (1..Len(rows)) \ {} /\ x \in (1..Len(rows)) \ {} BY <1>2
  <2>7. rows[r][s] # 0 /\ rows[x][t] # 0 =>
            (r = x <=> list[s][rows[r][s]].path = list[t][rows[x][t]].path)
    BY <2>6, <1>1 DEF OneRowPerPath
  <2> QED BY <2>1, <2>2, <2>5, <2>7
<1> QED BY <1>4, <1>5, <1>6, <1>7, <1>8, <1>9, <1>10 DEF StateConsistent

\* check_consistent_state (aux.c) holds after every single message of every history, for
\* all trees that were read to the end and however many renames and works there were,
\* until a rename goes untold (on_path_edited).
THEOREM StateConsistentAlways ==
    ASSUME ReadAll
    PROVE  Spec => []StateConsistent
<1>1. (~untold => Inv) => StateConsistent BY InvConsistent DEF StateConsistent
<1> QED BY <1>1, TablesAlways, PTL

LEMMA InvMerges ==
    ASSUME Inv
    PROVE  MergesIntoEmpty
<1> SUFFICES ASSUME queue # <<>>, Head(queue).type = "rename",
                    map[Head(queue).side][Head(queue).path] # 0,
                    Partner(Head(queue).side, Head(queue).to) # 0
             PROVE  rows[Partner(Head(queue).side, Head(queue).to)][Head(queue).side] = 0
  BY DEF MergesIntoEmpty
<1> DEFINE m == Head(queue)
<1>1. m \in Messages /\ m = Posted[1] /\ 1 \in 1..Len(Posted) BY PostedIs DEF Inv
<1>2. m.type = "rename" /\ map[m.side][m.path] # 0 /\ Partner(m.side, m.to) # 0 OBVIOUS
<1> HIDE DEF m
<1>3. m.side \in Side /\ m.path \in Paths /\ m.to \in Paths BY <1>1, <1>2, MessageIs DEF RowMessages
<1>4. m.path # m.to /\ FreeAt(map, Posted, 0, m.side, m.to)
  <2>1. NamesFree(map, Posted) BY DEF Inv, MessagesOK
  <2>2. Posted[1].type = "rename" BY <1>1, <1>2
  <2>3. 1 - 1 = 0 OBVIOUS
  <2> QED BY <2>1, <2>2, <2>3, <1>1 DEF NamesFree
<1>5. map[m.side][m.to] = 0
  <2>1. \A j \in 1..0 : FALSE OBVIOUS
  <2> QED BY <2>1, <1>4 DEF FreeAt
<1>6. rows[Partner(m.side, m.to)][m.side] = 0 BY <1>2, <1>3, <1>4, <1>5, PartnerIs DEF Inv
<1> QED BY <1>6 DEF m

\* When every directory was read and every rename was told, the assertion of
\* update_row_rename holds: the row a renamed entry is merged into shows nothing on its side.
THEOREM MergesIntoEmptyAlways ==
    ASSUME ReadAll
    PROVE  Spec => []MergesIntoEmpty
<1>1. (~untold => Inv) => MergesIntoEmpty BY InvMerges DEF MergesIntoEmpty
<1> QED BY <1>1, TablesAlways, PTL

-----------------------------------------------------------------------------
(* Nothing is left behind                                                  *)

\* What changes neither the map, the disks nor what is posted leaves nothing behind.
LEMMA SameHeld ==
    ASSUME HeldInv, map' = map, disk' = disk, Posted' = Posted, done' = done, backend' = backend,
           lost => lost', work' = "flush" => work = "flush" \/ done = {} \/ lost'
    PROVE  HeldInv'
<1>1. ReportsOK' BY DEF HeldInv, ReportsOK
<1>2. ~lost' => FindsRow(map', Posted') /\ FilesHeld(map', Posted', disk', done')
  BY DEF HeldInv
<1> QED BY <1>1, <1>2 DEF HeldInv

\* What posts ms after the rest, and nothing else to the messages.
LEMMA MoreHeldInv ==
    ASSUME HeldInv, ReportsOK', Inv, map' = map, lost => lost',
           NEW ms \in Seq(Messages), Posted' = Posted \o ms,
           ~lost' => WillFind(Posted, ms, disk, done) /\ ToldFiles(ms, disk, done, disk', done')
    PROVE  HeldInv'
<1>1. Posted \in Seq(Messages) BY PostedIs DEF Inv
<1>2. ASSUME ~lost' PROVE FindsRow(map', Posted') /\ FilesHeld(map', Posted', disk', done')
  <2>1. FindsRow(map, Posted) /\ FilesHeld(map, Posted, disk, done) BY <1>2 DEF HeldInv
  <2>2. WillFind(Posted, ms, disk, done) /\ ToldFiles(ms, disk, done, disk', done') BY <1>2
  <2>3. FindsRow(map, Posted \o ms) /\ FilesHeld(map, Posted \o ms, disk', done')
    BY <1>1, <2>1, <2>2, PostFiles
  <2> QED BY <2>3
<1> QED BY <1>2 DEF HeldInv

LEMMA InitHeld ==
    ASSUME Init, ReadAll
    PROVE  HeldInv
<1>1. /\ Posted = <<>> /\ done = {} /\ work = "idle" /\ DiskOK
      /\ \A s \in Side, p \in Paths : map[s][p] # 0 <=> p \in DOMAIN disk[s]
  BY InitInv DEF Inv
<1>2. Len(Posted) = 0 /\ \A k \in 1..0 : FALSE BY <1>1
<1>3. ReportsOK BY <1>1 DEF ReportsOK
<1>4. FindsRow(map, Posted) BY <1>2 DEF FindsRow
<1>5. FilesHeld(map, Posted, disk, done)
  <2> SUFFICES ASSUME NEW s \in Side, NEW x \in DOMAIN disk[s] \ Dirs
               PROVE  HeldAt(map, Posted, Len(Posted), s, x)
    BY DEF FilesHeld
  <2>1. x \in Paths BY <1>1 DEF DiskOK
  <2>2. map[s][x] # 0 BY <2>1, <1>1
  <2> QED BY <2>2, <1>2 DEF HeldAt
<1> QED BY <1>3, <1>4, <1>5 DEF HeldInv

\* A message that is handled puts in what the rest of the messages rely on.
LEMMA HandleKeepsHeld ==
    ASSUME NEW q \in Seq(Messages), q # <<>>, NEW mp, NEW np, Applied(q[1], mp, np), FindsRow(mp, q),
           NEW n \in 1..Len(q), NEW s \in Side, NEW x \in Paths \ Dirs,
           q[1].type = "transfer" => s = "L" \/ Exists("R", x),
           HeldAt(mp, q, n, s, x)
    PROVE  HeldAt(np, Tail(q), n - 1, s, x)
<1> DEFINE m == q[1]
<1>1. Len(q) \in Nat /\ Len(q) >= 1 /\ m \in Messages BY TailIs
<1>2. 1 \in 1..Len(q) /\ 1 - 1 = 0 BY <1>1
<1>3. \A t, y : HeldAt(mp, q, 0, t, y) => mp[t][y] # 0
  <2>1. \A j \in 1..0 : FALSE OBVIOUS
  <2> QED BY <2>1 DEF HeldAt
<1>4. /\ q[1].type = "rename" =>
            /\ q[1].path \in Dirs <=> q[1].to \in Dirs
            /\ q[1].path \notin Dirs => HeldAt(mp, q, 0, q[1].side, q[1].path)
      /\ q[1].type = "transfer" /\ q[1].path \notin Dirs => HeldAt(mp, q, 0, "L", q[1].path)
  BY <1>2 DEF FindsRow
<1> HIDE DEF m
<1>5. ~Vacates(m, s, x) /\ mp[s][x] # 0 => np[s][x] # 0 BY DEF Applied, m
<1>6. ASSUME Fills(m, s, x) PROVE np[s][x] # 0
  <2>1. CASE m.type = "rename"
    <3>1. m.side = s /\ m.to = x BY <1>6, <2>1 DEF Fills
    <3>2. HeldAt(mp, q, 0, m.side, m.path) BY <2>1, <3>1, <1>4 DEF m
    <3>3. mp[s][m.path] # 0 BY <3>1, <3>2, <1>3
    <3> QED BY <2>1, <3>3, <1>6 DEF Applied, m
  <2>2. CASE m.type = "transfer"
    <3>1. s = "R" /\ m.path = x BY <1>6, <2>2 DEF Fills
    <3>2. HeldAt(mp, q, 0, "L", x) BY <2>2, <3>1, <1>4 DEF m
    <3>3. mp["L"][x] # 0 BY <3>2, <1>3
    <3>4. Exists("R", x) BY <2>2, <3>1 DEF m
    <3> QED BY <2>2, <3>3, <3>4, <1>6 DEF Applied, m
  <2> QED BY <2>1, <2>2, <1>6 DEF Fills
<1>7. ~Vacates(q[1], s, x) /\ mp[s][x] # 0 => np[s][x] # 0 BY <1>5 DEF m
<1>8. Fills(q[1], s, x) /\ (\A k \in 2..n : ~Vacates(q[k], s, x)) => np[s][x] # 0 BY <1>6 DEF m
<1> QED BY <1>7, <1>8, TailHeld

LEMMA HandleHeld ==
    ASSUME Inv, HeldInv, Handle
    PROVE  HeldInv'
<1> DEFINE q == Posted
<1>1. /\ queue # <<>> /\ UNCHANGED <<disk, done, batch, backend, lost>>
      /\ work' = work \/ work' = "idle"
  <2>1. queue # <<>> /\ UNCHANGED <<disk, done, batch, backend, lost>> BY DEF Handle
  <2>2. Head(queue) \in Messages BY <2>1, PostedIs DEF Inv
  <2>3. Head(queue).type \in {"ignore", "finished"} \cup RowMessages BY <2>2, MessageIs
  <2>4. work' = work \/ work' = "idle"
    <3> DEFINE m == Head(queue)
    <3>1. m.type \in {"ignore", "finished", "remove", "transfer", "rename"} BY <2>3 DEF RowMessages
    <3>2. CASE m.type = "finished" BY <3>2 DEF Handle
    <3>3. CASE m.type = "ignore" BY <3>3 DEF Handle
    <3>4. CASE m.type = "remove" BY <3>4 DEF Handle
    <3>5. CASE m.type = "transfer" BY <3>5 DEF Handle
    <3>6. CASE m.type = "rename" BY <3>6 DEF Handle
    <3> QED BY <3>1, <3>2, <3>3, <3>4, <3>5, <3>6
  <2> QED BY <2>1, <2>4
<1>2. q \in Seq(Messages) /\ q # <<>> /\ Head(queue) = q[1] BY <1>1, PostedIs DEF Inv
<1>3. Applied(q[1], map, map') BY <1>2, HandleSound DEF Inv
<1>4. Posted' = Tail(q) BY HandleInv
<1>5. ReportsOK' BY <1>1 DEF HeldInv, ReportsOK
<1> DEFINE t == Tail(q)
<1> HIDE DEF q
<1>6. /\ t \in Seq(Messages) /\ Len(q) \in Nat /\ Len(q) >= 1 /\ Len(t) = Len(q) - 1
      /\ \A k \in 1..(Len(q) - 1) : t[k] = q[k + 1]
  BY <1>2, TailIs
<1>7. ASSUME ~lost' PROVE FindsRow(map', t) /\ FilesHeld(map', t, disk', done')
  <2>1. FindsRow(map, q) /\ FilesHeld(map, q, disk, done) BY <1>1, <1>7 DEF HeldInv, q
  <2>2. ASSUME NEW k \in 1..Len(t)
        PROVE  /\ t[k].type = "rename" =>
                     /\ t[k].path \in Dirs <=> t[k].to \in Dirs
                     /\ t[k].path \notin Dirs => HeldAt(map', t, k - 1, t[k].side, t[k].path)
                     /\ \A j \in 1..k : t[j].type # "transfer"
               /\ t[k].type = "transfer" /\ t[k].path \notin Dirs =>
                     HeldAt(map', t, k - 1, "L", t[k].path)
    <3>1. /\ k \in 1..(Len(q) - 1) /\ k \in 1..Len(q) /\ (k + 1) \in 1..Len(q) /\ t[k] = q[k + 1]
          /\ (k + 1) - 1 = k
      BY <1>6
    <3>2. t[k] \in Messages BY <1>6
    <3>3. /\ t[k].type = "rename" =>
                /\ t[k].path \in Dirs <=> t[k].to \in Dirs
                /\ t[k].path \notin Dirs => HeldAt(map, q, k, t[k].side, t[k].path)
                /\ \A j \in 1..(k + 1) : q[j].type # "transfer"
          /\ t[k].type = "transfer" /\ t[k].path \notin Dirs => HeldAt(map, q, k, "L", t[k].path)
      BY <2>1, <3>1 DEF FindsRow
    <3>4. ASSUME t[k].type = "rename"
          PROVE  /\ t[k].path \in Dirs <=> t[k].to \in Dirs
                 /\ t[k].path \notin Dirs => HeldAt(map', t, k - 1, t[k].side, t[k].path)
                 /\ \A j \in 1..k : t[j].type # "transfer"
      <4>1. t[k].side \in Side /\ t[k].path \in Paths BY <3>2, <3>4, MessageIs DEF RowMessages
      <4>2. q[1].type # "transfer" /\ \A j \in 1..k : q[j + 1].type # "transfer"
        <5>1. 1 \in 1..(k + 1) /\ \A j \in 1..k : (j + 1) \in 1..(k + 1) BY <3>1
        <5> QED BY <5>1, <3>3, <3>4
      <4>3. \A j \in 1..k : t[j] = q[j + 1]
        <5>1. \A j \in 1..k : j \in 1..(Len(q) - 1) BY <3>1
        <5> QED BY <5>1, <1>6
      <4>4. t[k].path \notin Dirs => HeldAt(map', t, k - 1, t[k].side, t[k].path)
        BY <1>2, <1>3, <2>1, <3>1, <3>3, <3>4, <4>1, <4>2, HandleKeepsHeld
      <4> QED BY <3>3, <3>4, <4>2, <4>3, <4>4
    <3>5. ASSUME t[k].type = "transfer", t[k].path \notin Dirs
          PROVE  HeldAt(map', t, k - 1, "L", t[k].path)
      <4>1. t[k].path \in Paths /\ "L" \in Side BY <3>2, <3>5, MessageIs, SideIs DEF RowMessages
      <4> QED BY <1>2, <1>3, <2>1, <3>1, <3>3, <3>5, <4>1, HandleKeepsHeld
    <3> QED BY <3>4, <3>5
  <2>3. FindsRow(map', t) BY <2>2 DEF FindsRow
  <2>4. FilesHeld(map', t, disk', done')
    <3> SUFFICES ASSUME NEW s \in Side, NEW x \in DOMAIN disk[s] \ Dirs, ~(s = "R" /\ x \in done)
                 PROVE  HeldAt(map', t, Len(t), s, x)
      BY <1>1 DEF FilesHeld
    <3>1. HeldAt(map, q, Len(q), s, x) BY <2>1 DEF FilesHeld
    <3>2. x \in Paths \ Dirs BY DEF Inv, DiskOK
    <3>3. s = "L" \/ Exists("R", x) BY SideIs DEF Exists
    <3>4. Len(q) \in 1..Len(q) BY <1>6
    <3> QED BY <1>2, <1>3, <1>6, <2>1, <3>1, <3>2, <3>3, <3>4, HandleKeepsHeld
  <2> QED BY <2>3, <2>4
<1> QED BY <1>4, <1>5, <1>7 DEF HeldInv

LEMMA QuietHeld ==
    ASSUME Inv, HeldInv, Inv', Posted' = Posted,
           \/ FlushBatch \/ StartCopies \/ EndCopies \/ Abort
           \/ \E r \in DOMAIN rows : Select(r)
           \/ \E R \in SUBSET DOMAIN rows : StartSync(R) \/ \E s \in Side : StartApply(s, R)
           \/ \E s \in Side : StartDelete(s)
           \/ UNCHANGED vars
    PROVE  HeldInv'
<1>1. \A s, copy, delete : work = "idle" /\ Start(s, copy, delete) =>
          /\ UNCHANGED <<disk, map, backend, lost>> /\ work' # "flush" /\ done' = done
  BY DEF Start, Inv, ThreadOK, tables
<1>2. CASE FlushBatch \/ StartCopies \/ UNCHANGED vars
  <2>1. UNCHANGED <<disk, map, backend, lost, done>> /\ (work' = "flush" => work = "flush")
    BY <1>2 DEF FlushBatch, StartCopies, vars, tables, thread
  <2> QED BY <2>1, SameHeld
<1>3. CASE EndCopies
  <2>1. UNCHANGED <<disk, map, backend, lost, done>> /\ (work' = "flush" => backend # "rsync")
    BY <1>3 DEF EndCopies, tables
  <2>2. backend # "rsync" => done = {} BY DEF Inv, ThreadOK
  <2> QED BY <2>1, <2>2, SameHeld
<1>4. CASE Abort
  <2>1. UNCHANGED <<disk, map, backend, done>> /\ lost' = (lost \/ done # {})
    BY <1>4 DEF Abort, tables
  <2> QED BY <2>1, SameHeld
<1>5. CASE \E r \in DOMAIN rows : Select(r)
  <2>1. UNCHANGED <<disk, map, backend, lost, done, work>> BY <1>5 DEF Select, thread
  <2> QED BY <2>1, SameHeld
<1>6. CASE \E R \in SUBSET DOMAIN rows : StartSync(R) \/ \E s \in Side : StartApply(s, R)
  <2>1. work = "idle" /\ \E s, copy, delete : Start(s, copy, delete)
    BY <1>6 DEF StartSync, StartApply, UserMay
  <2> QED BY <1>1, <2>1, SameHeld
<1>7. CASE \E s \in Side : StartDelete(s)
  <2>1. work = "idle" /\ \E s, copy, delete : Start(s, copy, delete)
    BY <1>7 DEF StartDelete, UserMay
  <2> QED BY <1>1, <2>1, SameHeld
<1> QED BY <1>2, <1>3, <1>4, <1>5, <1>6, <1>7

\* A message that is about no row puts nothing in and takes nothing out.
LEMMA PlainHeld ==
    ASSUME Inv, HeldInv, ReportsOK', map' = map, disk' = disk, lost' = lost,
           NEW m \in Messages, m.type \in {"ignore", "finished"}, Posted' = Posted \o <<m>>,
           ~lost => done' = done
    PROVE  HeldInv'
<1>1. <<m>> \in Seq(Messages) /\ Len(<<m>>) = 1 /\ <<m>>[1] = m OBVIOUS
<1>2. \A k \in 1..1 : k = 1 OBVIOUS
<1>3. \A s, x : ~Vacates(m, s, x) BY <1>1, PlainMessages
<1> DEFINE ms == <<m>>
<1>4. ms \in Seq(Messages) /\ Posted' = Posted \o ms OBVIOUS
<1>5. \A k \in 1..Len(ms) : ms[k].type \notin {"rename", "transfer"} BY <1>1, <1>2
<1>6. \A k \in 1..Len(ms) : \A s, x : ~Vacates(ms[k], s, x) BY <1>1, <1>2, <1>3
<1> HIDE DEF ms
<1>7. WillFind(Posted, ms, disk, done) BY <1>5 DEF WillFind
<1>8. ~lost' => ToldFiles(ms, disk, done, disk', done') BY <1>6 DEF ToldFiles
<1> QED BY <1>4, <1>7, <1>8, MoreHeldInv

LEMMA FinishHeld ==
    ASSUME Inv, HeldInv, Finish
    PROVE  HeldInv'
<1>1. /\ UNCHANGED <<disk, map, backend, lost>> /\ work' = "ended" /\ done' = {}
      /\ work = "flush" \/ (work = "report" /\ done = {})
  BY DEF Finish, tables
<1>2. ~lost => done' = done BY <1>1 DEF HeldInv, ReportsOK
<1>3. ReportsOK' BY <1>1 DEF ReportsOK
<1> DEFINE m == Of("finished", side, <<>>)
<1>4. m \in Messages /\ Posted' = Posted \o <<m>> BY FinishInv
<1>5. m.type = "finished" BY DEF Of, Message
<1> HIDE DEF m
<1> QED BY <1>1, <1>2, <1>3, <1>4, <1>5, PlainHeld

LEMMA IgnoreHeld ==
    ASSUME Inv, HeldInv, NEW rule, Ignore(rule)
    PROVE  HeldInv'
<1>1. UNCHANGED <<disk, map, backend, lost, done, work>> BY DEF Ignore, tables, thread
<1>2. ReportsOK' BY <1>1 DEF HeldInv, ReportsOK
<1> DEFINE m == Of("ignore", "L", <<>>)
<1>3. m \in Messages /\ Posted' = Posted \o <<m>> BY IgnoreInv
<1>4. m.type = "ignore" BY DEF Of, Message
<1> HIDE DEF m
<1> QED BY <1>1, <1>2, <1>3, <1>4, PlainHeld

LEMMA DeleteHeld ==
    ASSUME Inv, HeldInv, NEW t \in todo, DeletePath(t)
    PROVE  HeldInv'
<1> DEFINE p == t.path
<1>1. /\ UNCHANGED <<map, backend, lost, done, work>> /\ work = "delete"
  BY DEF DeletePath, tables
<1>2. /\ side \in Side /\ p \in Paths /\ done = {} /\ \E gone : Removed(side, p, gone)
  BY <1>1, DeletePathInv DEF Inv, ThreadOK
<1>3. PICK gone : Removed(side, p, gone) BY <1>2
<1> DEFINE ms == Removals(side, p, gone)
<1>4. /\ gone \subseteq Paths /\ Posted' = Posted \o ms
      /\ \A s \in Side : s # side => disk'[s] = disk[s]
      /\ DOMAIN disk'[side] = DOMAIN disk[side] \ gone
  BY <1>2, <1>3 DEF Removed, Tree, Inv, DiskOK
<1>5. /\ ms \in Seq(Messages)
      /\ \A k \in 1..Len(ms) : ms[k].type = "remove" /\ ms[k].side = side /\ ms[k].path \in gone
  BY <1>2, <1>4, RemovalsAre
<1>6. ReportsOK' BY <1>1, <1>2 DEF HeldInv, ReportsOK
<1> HIDE DEF ms
<1>7. WillFind(Posted, ms, disk, done) BY <1>5 DEF WillFind
<1>8. ToldFiles(ms, disk, done, disk', done')
  <2> SUFFICES ASSUME NEW s \in Side, NEW x \in DOMAIN disk'[s] \ Dirs
               PROVE  x \in DOMAIN disk[s] /\ \A j \in 1..Len(ms) : ~Vacates(ms[j], s, x)
    BY <1>2 DEF ToldFiles
  <2>1. CASE s # side BY <2>1, <1>4, <1>5 DEF Vacates
  <2>2. CASE s = side BY <2>2, <1>4, <1>5 DEF Vacates
  <2> QED BY <2>1, <2>2
<1> QED BY <1>1, <1>4, <1>5, <1>6, <1>7, <1>8, MoreHeldInv

\* A copy is told to rows that show its source, and nothing else is taken out.
LEMMA ToldHeld ==
    ASSUME Inv, HeldInv, ReportsOK', NEW p \in DOMAIN disk["L"], NEW gone \in BOOLEAN, lost' = lost,
           map' = map, disk'["L"] = disk["L"], Posted' = Posted \o Told(p, gone),
           DOMAIN disk'["R"] \ Dirs \subseteq DOMAIN disk["R"] \cup {p},
           done' = done \ {p}
    PROVE  HeldInv'
<1> DEFINE ms == Told(p, gone)
<1>1. p \in Paths BY SideIs DEF Inv, DiskOK
<1>2. /\ ms \in Seq(Messages) /\ Len(ms) >= 1 /\ Len(ms) \in Nat
      /\ \A k \in 1..Len(ms) : /\ ms[k].type \in {"remove", "transfer"}
                               /\ ms[k].side = "R" /\ ms[k].path = p
      /\ ms[Len(ms)].type = "transfer"
  BY <1>1, ToldIs
<1>3. Posted' = Posted \o ms OBVIOUS
<1> HIDE DEF ms
<1>4. WillFind(Posted, ms, disk, done)
  <2>1. ASSUME NEW k \in 1..Len(ms)
        PROVE  /\ ms[k].type # "rename" /\ ms[k].path \in DOMAIN disk["L"]
               /\ \A j \in 1..(k - 1) : ~Vacates(ms[j], "L", ms[k].path)
    <3>1. \A j \in 1..(k - 1) : j \in 1..Len(ms) BY <1>2
    <3>2. \A j \in 1..(k - 1) : ms[j].side # "L" BY <3>1, <1>2
    <3> QED BY <3>2, <1>2 DEF Vacates
  <2> QED BY <2>1 DEF WillFind
<1>5. ToldFiles(ms, disk, done, disk', done')
  <2> SUFFICES ASSUME NEW s \in Side, NEW x \in DOMAIN disk'[s] \ Dirs
               PROVE  \/ /\ x \in DOMAIN disk[s] /\ ~(s = "R" /\ x \in done)
                         /\ \A j \in 1..Len(ms) : ~Vacates(ms[j], s, x)
                      \/ \E j \in 1..Len(ms) : /\ Fills(ms[j], s, x)
                                               /\ \A k \in (j + 1)..Len(ms) : ~Vacates(ms[k], s, x)
                      \/ s = "R" /\ x \in done'
    BY DEF ToldFiles
  <2>1. CASE s = "L" BY <2>1, <1>2 DEF Vacates
  <2>2. CASE s = "R" /\ x = p
    <3>1. Len(ms) \in 1..Len(ms) /\ \A k \in (Len(ms) + 1)..Len(ms) : FALSE BY <1>2
    <3>2. Fills(ms[Len(ms)], s, x) BY <2>2, <3>1, <1>2 DEF Fills
    <3> QED BY <3>1, <3>2
  <2>3. CASE s = "R" /\ x # p
    <3>1. x \in DOMAIN disk["R"] BY <2>3
    <3>2. \A j \in 1..Len(ms) : ~Vacates(ms[j], s, x) BY <2>3, <1>2 DEF Vacates
    <3> QED BY <2>3, <3>1, <3>2
  <2> QED BY <2>1, <2>2, <2>3 DEF Side
<1> QED BY <1>2, <1>3, <1>4, <1>5, MoreHeldInv

LEMMA CopyHeld ==
    ASSUME Inv, HeldInv, NEW p \in Paths, CopyPath(p)
    PROVE  HeldInv'
<1>1. /\ UNCHANGED <<map, backend>> /\ work = "copy" /\ work' = work
      /\ CopySkipped \/ CopyMade(p) \/ CopyFailed(p)
  BY CopyPathInv DEF tables
<1>2. CASE CopySkipped BY <1>1, <1>2, SameHeld DEF CopySkipped
<1>3. CASE CopyMade(p) /\ backend = "rsync"
  <2>1. /\ p \in DOMAIN disk["L"] /\ disk'["L"] = disk["L"] /\ lost' = lost
        /\ DOMAIN disk'["R"] = DOMAIN disk["R"] \cup {p} \cup {d \in Dirs : In(p, d)}
        /\ done' = done \cup {p} /\ Posted' = Posted
    BY <1>3 DEF CopyMade
  <2>2. ReportsOK' BY <1>1, <2>1 DEF HeldInv, ReportsOK
  <2>3. ASSUME ~lost' PROVE FindsRow(map', Posted') /\ FilesHeld(map', Posted', disk', done')
    <3>1. FindsRow(map, Posted) /\ FilesHeld(map, Posted, disk, done) BY <2>1, <2>3 DEF HeldInv
    <3>2. \A s \in Side : \A x \in DOMAIN disk'[s] \ Dirs :
             x \in DOMAIN disk[s] \ Dirs \/ (s = "R" /\ x = p)
      BY <2>1 DEF Side
    <3>3. FilesHeld(map, Posted, disk', done') BY <2>1, <3>1, <3>2 DEF FilesHeld
    <3> QED BY <1>1, <2>1, <3>1, <3>3
  <2> QED BY <2>2, <2>3 DEF HeldInv
<1>4. CASE CopyMade(p) /\ backend # "rsync"
  <2>1. /\ p \in DOMAIN disk["L"] /\ disk'["L"] = disk["L"] /\ lost' = lost
        /\ DOMAIN disk'["R"] = DOMAIN disk["R"] \cup {p} \cup {d \in Dirs : In(p, d)}
        /\ done' = done /\ \E gone \in BOOLEAN : Posted' = Posted \o Told(p, gone)
    BY <1>4 DEF CopyMade
  <2>2. PICK gone \in BOOLEAN : Posted' = Posted \o Told(p, gone) BY <2>1
  <2>3. done = {} BY <1>4 DEF Inv, ThreadOK
  <2>4. done' = done \ {p} BY <2>1, <2>3
  <2>5. ReportsOK' BY <1>1, <2>1, <2>3 DEF ReportsOK
  <2>6. DOMAIN disk'["R"] \ Dirs \subseteq DOMAIN disk["R"] \cup {p} BY <2>1
  <2> QED BY <1>1, <2>1, <2>2, <2>4, <2>5, <2>6, ToldHeld
<1>5. CASE CopyFailed(p)
  <2>1. /\ backend # "rsync" /\ done' = done /\ disk'["L"] = disk["L"] /\ (lost => lost')
    BY <1>5 DEF CopyFailed
  <2>2. PICK gone \in BOOLEAN :
           /\ Posted' = Posted \o Gone(p, gone)
           /\ DOMAIN disk["R"] \ (IF gone THEN {p} ELSE {}) \subseteq DOMAIN disk'["R"]
           /\ ~lost' => DOMAIN disk'["R"] \ Dirs \subseteq DOMAIN disk["R"] \ (IF gone THEN {p} ELSE {})
    BY <1>5 DEF CopyFailed
  <2> DEFINE ms == Gone(p, gone)
  <2>3. /\ ms \in Seq(Messages) /\ (~gone => ms = <<>>)
        /\ \A k \in 1..Len(ms) : ms[k].type = "remove" /\ ms[k].side = "R" /\ ms[k].path = p
    BY GoneIs
  <2>4. Posted' = Posted \o ms BY <2>2
  <2> HIDE DEF ms
  <2>5. done = {} BY <2>1 DEF Inv, ThreadOK
  <2>6. ReportsOK' BY <1>1, <2>1, <2>5 DEF ReportsOK
  <2>7. WillFind(Posted, ms, disk, done) BY <2>3 DEF WillFind
  <2>8. ASSUME ~lost' PROVE ToldFiles(ms, disk, done, disk', done')
    <3> SUFFICES ASSUME NEW s \in Side, NEW x \in DOMAIN disk'[s] \ Dirs
                 PROVE  x \in DOMAIN disk[s] /\ \A j \in 1..Len(ms) : ~Vacates(ms[j], s, x)
      BY <2>5 DEF ToldFiles
    <3>1. CASE s = "L" BY <3>1, <2>1, <2>3 DEF Vacates
    <3>2. CASE s = "R" /\ gone BY <3>2, <2>2, <2>3, <2>8 DEF Vacates
    <3>3. CASE s = "R" /\ ~gone
      <4>1. Len(ms) = 0 /\ \A j \in 1..0 : FALSE BY <3>3, <2>3
      <4> QED BY <4>1, <3>3, <2>2, <2>8
    <3> QED BY <3>1, <3>2, <3>3 DEF Side
  <2> QED BY <1>1, <2>1, <2>3, <2>4, <2>6, <2>7, <2>8, MoreHeldInv
<1> QED BY <1>1, <1>2, <1>3, <1>4, <1>5

LEMMA ReportHeld ==
    ASSUME Inv, HeldInv, NEW p \in Paths, Report(p)
    PROVE  HeldInv'
<1>1. /\ UNCHANGED <<map, disk, backend, lost, work>> /\ work = "report"
      /\ p \in done /\ done' = done \ {p} /\ Posted' = Posted \o Told(p, FALSE)
  BY ReportInv DEF tables
<1>2. p \in DOMAIN disk["L"] /\ FALSE \in BOOLEAN BY <1>1 DEF HeldInv, ReportsOK
<1>3. ReportsOK' BY <1>1 DEF HeldInv, ReportsOK
<1>4. DOMAIN disk'["R"] \ Dirs \subseteq DOMAIN disk["R"] \cup {p} BY <1>1
<1> QED BY <1>1, <1>2, <1>3, <1>4, ToldHeld

LEMMA RenameHeld ==
    ASSUME Inv, HeldInv, ReadAll, NEW s \in Side, NEW r \in DOMAIN rows, NEW q \in Paths,
           Rename(s, r, q), ~untold'
    PROVE  HeldInv'
<1>1. work = "idle" /\ UNCHANGED <<work, done, batch, lost, map, backend>>
  BY RenameInv DEF thread, tables
<1>2. PICK p : /\ MayRename(s, p, q) /\ disk' = RenamedTo(s, p, q)
               /\ Posted' = Posted \o Renamings(s, p, q, Below(s, p))
  BY RenameInv
<1>3. done = {} /\ batch = <<>> /\ Posted = queue
  <2>1. done = {} /\ batch = <<>> /\ queue \in Seq(Messages) BY <1>1 DEF Inv, ThreadOK
  <2> QED BY <2>1 DEF Posted
<1>4. \A k \in 1..Len(Posted) : Posted[k].type # "transfer"
  BY <1>1, <1>3 DEF Inv, VerdictLast
<1> DEFINE ms == Renamings(s, p, q, Below(s, p))
<1>5. ms \in Seq(Messages) /\ Posted \in Seq(Messages) BY <1>2, RenamesAre, PostedIs DEF Inv
<1>6. WillFind(Posted, ms, disk, {}) /\ ToldFiles(ms, disk, {}, disk', {})
  BY <1>2, <1>4, <1>5, RenamesTell DEF Inv
<1>7. ReportsOK' BY <1>1, <1>3 DEF ReportsOK
<1>8. Posted' = Posted \o ms BY <1>2
<1>9. done' = {} BY <1>1, <1>3
<1> HIDE DEF ms
<1> QED BY <1>1, <1>3, <1>5, <1>6, <1>7, <1>8, <1>9, MoreHeldInv

LEMMA NextHeld ==
    ASSUME Inv, HeldInv, ReadAll, [Next]_vars, ~untold'
    PROVE  HeldInv'
<1>1. CASE Handle BY <1>1, HandleHeld
<1>2. CASE FlushBatch BY <1>2, FlushInv, QuietHeld
<1>3. CASE StartCopies \/ EndCopies \/ Abort BY <1>3, PhaseInv, QuietHeld
<1>4. CASE Finish BY <1>4, FinishHeld
<1>5. CASE \E r \in DOMAIN rows : Select(r) BY <1>5, SelectInv, QuietHeld
<1>6. CASE \E s \in Side, r \in DOMAIN rows, q \in Paths : Rename(s, r, q) BY <1>6, RenameHeld
<1>7. CASE \E rule \in Rules : Ignore(rule) BY <1>7, IgnoreHeld
<1>8. CASE \/ \E R \in SUBSET DOMAIN rows : StartSync(R) \/ \E s \in Side : StartApply(s, R)
           \/ \E s \in Side : StartDelete(s)
  BY <1>8, TasksInv, QuietHeld
<1>9. CASE \E t \in todo : DeletePath(t) BY <1>9, DeleteHeld
<1>10. CASE \E p \in Paths : CopyPath(p) BY <1>10, CopyHeld
<1>11. CASE \E p \in Paths : Report(p) BY <1>11, ReportHeld
<1>12. CASE UNCHANGED vars
  <2>1. Posted' = Posted BY <1>12 DEF vars, thread, Posted
  <2> QED BY <2>1, <1>12, StutterInv, QuietHeld
<1> QED BY <1>1, <1>2, <1>3, <1>4, <1>5, <1>6, <1>7, <1>8, <1>9, <1>10, <1>11, <1>12 DEF Next

LEMMA HeldShows ==
    ASSUME Inv, HeldInv
    PROVE  ShownIsOnDisk
<1> SUFFICES ASSUME work = "idle", queue = <<>>, NEW s \in Side
             PROVE  /\ ShownPaths(s) \subseteq DOMAIN disk[s]
                    /\ ~lost => DOMAIN disk[s] \ Dirs \subseteq ShownPaths(s)
  BY DEF ShownIsOnDisk, AtRest
<1>1. batch = <<>> /\ done = {} BY DEF Inv, ThreadOK
<1>2. Posted = <<>> /\ Len(Posted) = 0 /\ \A k \in 1..0 : FALSE BY <1>1 DEF Posted
<1>3. /\ ArraysOK(list, map, rows) /\ RowsPoint(list, rows, {}) /\ EntriesPoint(list, map, rows, {})
      /\ MapPoints(list, map)
  BY DEF Inv, TablesSound, Sound
<1>4. rows \in Seq(RowsType) /\ DOMAIN rows = 1..Len(rows) /\ Len(rows) \in Nat
  BY <1>3 DEF ArraysOK
<1>5. ASSUME NEW x \in ShownPaths(s) PROVE x \in DOMAIN disk[s]
  <2>1. PICK r \in DOMAIN rows : rows[r][s] # 0 /\ x = list[s][rows[r][s]].path
    BY DEF ShownPaths, ShownOn
  <2>2. rows[r][s] \in 1..Len(list[s]) /\ list[s][rows[r][s]].row = r /\ r # 0
    BY <2>1, <1>3, <1>4 DEF RowsPoint
  <2>3. map[s][x] # 0 BY <2>1, <2>2, <1>3 DEF EntriesPoint
  <2>4. x \in Paths BY <2>1, PathOfIs DEF Inv
  <2>5. FreeAt(map, Posted, Len(Posted), s, x) => map[s][x] = 0 BY <1>2 DEF FreeAt
  <2>6. x \notin DOMAIN disk[s] => FreeAt(map, Posted, Len(Posted), s, x)
    BY <2>4 DEF Inv, MessagesOK, GoneFree
  <2> QED BY <2>3, <2>5, <2>6
<1>6. ASSUME ~lost, NEW x \in DOMAIN disk[s] \ Dirs PROVE x \in ShownPaths(s)
  <2>1. x \in Paths BY DEF Inv, DiskOK
  <2>2. HeldAt(map, Posted, Len(Posted), s, x) BY <1>1, <1>6 DEF HeldInv, FilesHeld
  <2>3. map[s][x] # 0 BY <2>2, <1>2 DEF HeldAt
  <2> DEFINE i == map[s][x]
             r == list[s][i].row
  <2>4. i \in 1..Len(list[s]) /\ list[s][i].path = x /\ r # 0
    BY <2>1, <2>3, <1>3 DEF MapPoints
  <2>5. r \in 1..Len(rows) /\ rows[r][s] = i BY <2>4, <1>3 DEF EntriesPoint
  <2> QED BY <2>3, <2>4, <2>5, <1>4 DEF ShownPaths, ShownOn
<1> QED BY <1>5, <1>6

\* When every directory was read and every rename was told, at rest the rows show no path
\* that is gone from its disk and every file that is there, unless a copy was made that was
\* never reported: a run of rsync ended before the second one listed what the first had
\* copied (work_rsync_backend_run), or a manual copy failed in the midst of a file that had no
\* row (work_manual_copy_regular).
THEOREM ShownIsOnDiskAlways ==
    ASSUME ReadAll
    PROVE  Spec => []ShownIsOnDisk
<1>1. Init => (~untold => Inv /\ HeldInv) BY InitInv, InitHeld
<1>2. (~untold => Inv /\ HeldInv) /\ [Next]_vars => (~untold => Inv /\ HeldInv)'
  BY NextInv, NextHeld, UntoldStays
<1>3. (~untold => Inv /\ HeldInv) => ShownIsOnDisk BY HeldShows DEF ShownIsOnDisk, AtRest
<1> QED BY <1>1, <1>2, <1>3, PTL DEF Spec

-----------------------------------------------------------------------------
(***************************************************************************)
(* RowStore implements RowTable: what a message or a click makes of the    *)
(* arrays is one step of the table by path, when every directory was read. *)
(*                                                                         *)
(* The map says which sides a path has a row on, as was proved above. What *)
(* is left to follow through the arrays, as rows move up, split and merge, *)
(* is the selection of the row of a path.                                  *)
(***************************************************************************)

\* Row y of rws shows x.
Shown(lst, rws, x, y) ==
    y \in 1..Len(rws) /\ \E t \in Side : rws[y][t] # 0 /\ lst[t][rws[y][t]].path = x

SidesOf(x) == {s \in Side : map[s][x] # 0}

\* The row of x is selected, or is not.
Marked(x, b) == \E y \in 1..Len(rows) : Shown(list, rows, x, y) /\ rows[y].selected = b

LEMMA TableMeans ==
    /\ T!Init <=> \A v, w \in Table : v.path = w.path => v = w
    /\ \A row, s : T!Remove(row, s) <=>
          /\ s \in row.sides
          /\ Table' = (Table \ {row}) \cup
                 (IF row.sides = {s} THEN {} ELSE {[row EXCEPT !.sides = row.sides \ {s}]})
    /\ \A row : T!Add(row) <=>
          "L" \in row.sides /\ Table' = (Table \ {row}) \cup {[row EXCEPT !.sides = {"L", "R"}]}
BY DEF T!Init, T!Remove, T!Less, T!Add, Table, Row, Side

\* A row shows one path, a path has one row, and the map says on which sides.
LEMMA ShownIs ==
    ASSUME TablesSound
    PROVE  /\ \A x, y, z : Shown(list, rows, x, y) /\ Shown(list, rows, x, z) => y = z
           /\ \A x, w, y : Shown(list, rows, x, y) /\ Shown(list, rows, w, y) => x = w
           /\ \A x, y : Shown(list, rows, x, y) =>
                 /\ x \in Paths /\ x = PathOf(y)
                 /\ \A s \in Side : rows[y][s] # 0 <=> map[s][x] # 0
           /\ \A s \in Side, x \in Paths : map[s][x] # 0 => \E y : Shown(list, rows, x, y)
           /\ \A y \in 1..Len(rows) : Shown(list, rows, PathOf(y), y)
<1>1. /\ RowsPoint(list, rows, {}) /\ EntriesPoint(list, map, rows, {}) /\ MapPoints(list, map)
      /\ NoEmptyRow(rows, {}) /\ OneRowPerPath(list, rows, {})
  BY DEF TablesSound, Sound
<1>2. /\ rows \in Seq(RowsType) /\ DOMAIN rows = 1..Len(rows) /\ Len(rows) \in Nat
      /\ \A y \in 1..Len(rows) : y \in (1..Len(rows)) \ {} /\ y # 0
  BY TablesTypes
<1>3. ASSUME NEW x, NEW y, Shown(list, rows, x, y)
      PROVE  /\ x \in Paths /\ x = PathOf(y) /\ y \in 1..Len(rows)
             /\ \A s \in Side : rows[y][s] # 0 => list[s][rows[y][s]].path = x
             /\ \A s \in Side : rows[y][s] # 0 <=> map[s][x] # 0
  <2>1. PICK t \in Side : y \in 1..Len(rows) /\ rows[y][t] # 0 /\ list[t][rows[y][t]].path = x
    BY <1>3 DEF Shown
  <2>2. x \in Paths /\ x = PathOf(y) /\ \A s \in Side : rows[y][s] # 0 => list[s][rows[y][s]].path = x
    BY <2>1, <1>2, PathOfIs
  <2>3. ASSUME NEW s \in Side, rows[y][s] # 0 PROVE map[s][x] # 0
    <3>1. rows[y][s] \in 1..Len(list[s]) /\ list[s][rows[y][s]].row = y
      BY <2>1, <2>3, <1>1, <1>2 DEF RowsPoint
    <3>2. map[s][list[s][rows[y][s]].path] = rows[y][s] BY <3>1, <2>1, <1>1, <1>2 DEF EntriesPoint
    <3> QED BY <3>2, <2>2, <2>3
  <2>4. ASSUME NEW s \in Side, map[s][x] # 0 PROVE rows[y][s] # 0
    <3>1. /\ list[s][map[s][x]].row \in 1..Len(rows)
          /\ rows[list[s][map[s][x]].row][s] = map[s][x]
          /\ y = list[s][map[s][x]].row
      BY <2>1, <2>2, <2>4, RowOf DEF TablesSound
    <3> QED BY <3>1, <2>4
  <2> QED BY <2>1, <2>2, <2>3, <2>4
<1>4. ASSUME NEW x, NEW y, NEW z, Shown(list, rows, x, y), Shown(list, rows, x, z) PROVE y = z
  <2>1. PICK t \in Side : y \in 1..Len(rows) /\ rows[y][t] # 0 /\ list[t][rows[y][t]].path = x
    BY <1>4 DEF Shown
  <2>2. PICK u \in Side : z \in 1..Len(rows) /\ rows[z][u] # 0 /\ list[u][rows[z][u]].path = x
    BY <1>4 DEF Shown
  <2>3. y \in (1..Len(rows)) \ {} /\ z \in (1..Len(rows)) \ {} BY <2>1, <2>2
  <2>4. rows[y][t] # 0 /\ rows[z][u] # 0 =>
            (y = z <=> list[t][rows[y][t]].path = list[u][rows[z][u]].path)
    BY <2>3, <1>1 DEF OneRowPerPath
  <2> QED BY <2>1, <2>2, <2>4
<1>5. ASSUME NEW s \in Side, NEW x \in Paths, map[s][x] # 0 PROVE \E y : Shown(list, rows, x, y)
  <2>1. /\ list[s][map[s][x]].path = x /\ list[s][map[s][x]].row \in 1..Len(rows)
        /\ rows[list[s][map[s][x]].row][s] = map[s][x]
    BY <1>5, RowOf DEF TablesSound
  <2>2. Shown(list, rows, x, list[s][map[s][x]].row) BY <2>1, <1>5 DEF Shown
  <2> QED BY <2>2
<1>6. ASSUME NEW y \in 1..Len(rows) PROVE Shown(list, rows, PathOf(y), y)
  <2>1. PICK t \in Side : rows[y][t] # 0 BY <1>1, <1>2, SideIs DEF NoEmptyRow
  <2>2. list[t][rows[y][t]].path = PathOf(y) BY <2>1, <1>2, PathOfIs
  <2> QED BY <2>1, <2>2 DEF Shown
<1>7. \A x, w, y : Shown(list, rows, x, y) /\ Shown(list, rows, w, y) => x = w BY <1>3
<1> QED BY <1>3, <1>4, <1>5, <1>6, <1>7

\* The rows by path.
LEMMA TableIs ==
    ASSUME TablesSound
    PROVE  /\ \A v : v \in Table <=> \E x \in Paths, b \in BOOLEAN :
                                        Marked(x, b) /\ v = Row(x, SidesOf(x), b)
           /\ \A x, b, c : Marked(x, b) /\ Marked(x, c) => b = c
           /\ \A x, b : Marked(x, b) => x \in Paths /\ b \in BOOLEAN /\ SidesOf(x) # {}
           /\ \A x \in Paths : SidesOf(x) # {} => \E b \in BOOLEAN : Marked(x, b)
<1>1. /\ rows \in Seq(RowsType) /\ DOMAIN rows = 1..Len(rows)
      /\ \A y \in 1..Len(rows) : rows[y].selected \in BOOLEAN
  <2>1. rows \in Seq(RowsType) BY TablesTypes
  <2>2. \A y \in 1..Len(rows) : rows[y] \in RowsType BY <2>1
  <2>3. \A y \in 1..Len(rows) : rows[y].selected \in BOOLEAN BY <2>2 DEF RowsType
  <2> QED BY <2>1, <2>3
<1>2. ASSUME NEW x, NEW y, Shown(list, rows, x, y)
      PROVE  {s \in Side : rows[y][s] # 0} = SidesOf(x) /\ SidesOf(x) # {} /\ y \in 1..Len(rows)
  <2>1. \A s \in Side : rows[y][s] # 0 <=> map[s][x] # 0 BY <1>2, ShownIs
  <2>2. PICK t \in Side : rows[y][t] # 0 /\ y \in 1..Len(rows) BY <1>2 DEF Shown
  <2> QED BY <2>1, <2>2 DEF SidesOf
<1>3. ASSUME NEW v \in Table
      PROVE \E x \in Paths, b \in BOOLEAN : Marked(x, b) /\ v = Row(x, SidesOf(x), b)
  <2>1. PICK r \in 1..Len(rows) : v = Row(PathOf(r), {s \in Side : rows[r][s] # 0}, rows[r].selected)
    BY <1>1 DEF Table
  <2>2. Shown(list, rows, PathOf(r), r) /\ PathOf(r) \in Paths BY ShownIs
  <2>3. {s \in Side : rows[r][s] # 0} = SidesOf(PathOf(r)) BY <2>2, <1>2
  <2>4. Marked(PathOf(r), rows[r].selected) BY <2>2 DEF Marked
  <2> QED BY <1>1, <2>1, <2>2, <2>3, <2>4
<1>4. ASSUME NEW x, NEW b, Marked(x, b)
      PROVE  x \in Paths /\ b \in BOOLEAN /\ SidesOf(x) # {} /\ Row(x, SidesOf(x), b) \in Table
  <2>1. PICK y \in 1..Len(rows) : Shown(list, rows, x, y) /\ rows[y].selected = b BY <1>4 DEF Marked
  <2>2. x \in Paths /\ x = PathOf(y) BY <2>1, ShownIs
  <2>3. {s \in Side : rows[y][s] # 0} = SidesOf(x) /\ SidesOf(x) # {} BY <2>1, <1>2
  <2>4. Row(PathOf(y), {s \in Side : rows[y][s] # 0}, rows[y].selected) \in Table BY <1>1 DEF Table
  <2> QED BY <1>1, <2>1, <2>2, <2>3, <2>4
<1>5. ASSUME NEW x, NEW b, NEW c, Marked(x, b), Marked(x, c) PROVE b = c
  <2>1. PICK y \in 1..Len(rows) : Shown(list, rows, x, y) /\ rows[y].selected = b BY <1>5 DEF Marked
  <2>2. PICK z \in 1..Len(rows) : Shown(list, rows, x, z) /\ rows[z].selected = c BY <1>5 DEF Marked
  <2>3. y = z BY <2>1, <2>2, ShownIs
  <2> QED BY <2>1, <2>2, <2>3
<1>6. ASSUME NEW x \in Paths, SidesOf(x) # {} PROVE \E b \in BOOLEAN : Marked(x, b)
  <2>1. PICK s \in Side : map[s][x] # 0 BY <1>6 DEF SidesOf
  <2>2. PICK y : Shown(list, rows, x, y) BY <2>1, ShownIs
  <2>3. y \in 1..Len(rows) BY <2>2 DEF Shown
  <2> QED BY <1>1, <2>2, <2>3 DEF Marked
<1> QED BY <1>3, <1>4, <1>5, <1>6

\* What a click and a new name make of the table.
Toggled(w, row, d) ==
    IF w = row \/ (d /\ In(w.path, row.path)) THEN [w EXCEPT !.selected = ~row.selected]
    ELSE IF row.selected /\ In(row.path, w.path) THEN [w EXCEPT !.selected = FALSE]
    ELSE w

LEMMA ToggleMeans ==
    ASSUME NEW row, NEW d, d <=> row.path \in Dirs, Table' = {Toggled(w, row, d) : w \in Table}
    PROVE  T!Toggle(row)
BY DEF T!Toggle, T!Below, In, Table, Row, Side, Toggled

LEMMA RenameMeans ==
    ASSUME NEW row, NEW s, NEW q
    PROVE  T!Rename(row, s, q) <=>
             /\ s \in row.sides /\ q # row.path
             /\ \/ \E to \in Table :
                      /\ to.path = q /\ s \notin to.sides
                      /\ Table' = (Table \ {row, to})
                            \cup (IF row.sides = {s} THEN {} ELSE {[row EXCEPT !.sides = row.sides \ {s}]})
                            \cup {[to EXCEPT !.sides = to.sides \cup {s}]}
                \/ /\ \A to \in Table : to.path # q
                   /\ Table' = (Table \ {row})
                         \cup {[x EXCEPT !.selected = FALSE] :
                               x \in (IF row.sides = {s} THEN {} ELSE {[row EXCEPT !.sides = row.sides \ {s}]})}
                         \cup {[row EXCEPT !.path = q, !.sides = {s}]}
BY DEF T!Rename, T!Less, Table, Row, Side

LEMMA NextMeans ==
    T!Next <=> \E row \in Table :
                  \/ T!Toggle(row) \/ T!Add(row)
                  \/ \E s \in Side : T!Remove(row, s) \/ \E q \in Paths : T!Rename(row, s, q)
BY DEF T!Next, Table, Row, Side

\* The table after a step.
TableMarks ==
    /\ \A v : v \in Table <=> \E x \in Paths, b \in BOOLEAN :
                                 Marked(x, b) /\ v = Row(x, SidesOf(x), b)
    /\ \A x, b, c : Marked(x, b) /\ Marked(x, c) => b = c
    /\ \A x, b : Marked(x, b) => x \in Paths /\ b \in BOOLEAN /\ SidesOf(x) # {}
    /\ \A x \in Paths : SidesOf(x) # {} => \E b \in BOOLEAN : Marked(x, b)

LEMMA Marks == TablesSound => TableMarks
BY TableIs DEF TableMarks

LEMMA MarksNext == TablesSound' => TableMarks'
<1> QED BY Marks, PTL

\* The row of x keeps its selection.
Keeps(x) == \A b : Marked(x, b) => Marked(x, b)'

LEMMA RowKeeps ==
    ASSUME TablesSound, NEW x, NEW y, Shown(list, rows, x, y),
           NEW z \in 1..Len(rows'), NEW t \in Side, rows'[z][t] # 0,
           list'[t][rows'[z][t]].path = x, rows'[z].selected = rows[y].selected
    PROVE  Keeps(x)
<1> SUFFICES ASSUME NEW b, Marked(x, b) PROVE Marked(x, b)' BY DEF Keeps
<1>1. PICK w \in 1..Len(rows) : Shown(list, rows, x, w) /\ rows[w].selected = b BY DEF Marked
<1>2. w = y BY <1>1, ShownIs
<1>3. Shown(list', rows', x, z) BY DEF Shown
<1> QED BY <1>1, <1>2, <1>3 DEF Marked

\* The selections of the paths of S are what they were.
LEMMA SidesNext ==
    ASSUME NEW s \in Side, NEW p \in Paths, NEW out, NEW in, MapIs(map', map, s, out, in)
    PROVE  /\ \A x \in Paths : x \notin out /\ x \notin in => SidesOf(x)' = SidesOf(x)
           /\ \A x \in out \cap Paths : SidesOf(x)' = SidesOf(x) \ {s}
           /\ \A x \in (in \ out) \cap Paths : SidesOf(x)' = SidesOf(x) \cup {s}
BY DEF MapIs, SidesOf

LEMMA MarkNext ==
    ASSUME TablesSound, TablesSound', NEW x \in Paths, Keeps(x), SidesOf(x) # {}
    PROVE  \A b : Marked(x, b)' <=> Marked(x, b)
<1>1. TableMarks /\ TableMarks' BY Marks, MarksNext
<1>2. PICK c : Marked(x, c) BY <1>1 DEF TableMarks
<1>3. Marked(x, c)' BY <1>2 DEF Keeps
<1>4. ASSUME NEW b, Marked(x, b)' PROVE b = c BY <1>1, <1>3, <1>4 DEF TableMarks
<1> QED BY <1>2, <1>3, <1>4 DEF Keeps

\* Nothing changes for the table.
LEMMA TableSame ==
    ASSUME TablesSound, TablesSound', \A x \in Paths : SidesOf(x)' = SidesOf(x), \A x \in Paths : Keeps(x)
    PROVE  Table' = Table
<1>1. TableMarks /\ TableMarks' BY Marks, MarksNext
<1>2. \A x \in Paths : SidesOf(x)' = SidesOf(x) OBVIOUS
<1>3. ASSUME NEW x \in Paths, NEW b PROVE Marked(x, b)' <=> Marked(x, b)
  <2>1. CASE SidesOf(x) # {} BY <2>1, MarkNext
  <2>2. CASE SidesOf(x) = {}
    <3>1. ~Marked(x, b) BY <1>1, <2>2 DEF TableMarks
    <3>2. ~Marked(x, b)' BY <1>1, <1>2, <2>2 DEF TableMarks
    <3> QED BY <3>1, <3>2
  <2> QED BY <2>1, <2>2
<1>4. \A v : v \in Table <=> v \in Table'
  <2>1. \A v : v \in Table <=> \E x \in Paths, b \in BOOLEAN : Marked(x, b) /\ v = Row(x, SidesOf(x), b)
    BY <1>1 DEF TableMarks
  <2>2. \A v : v \in Table' <=> \E x \in Paths, b \in BOOLEAN : Marked(x, b)' /\ v = Row(x, SidesOf(x)', b)
    BY <1>1 DEF TableMarks, Row
  <2> QED BY <2>1, <2>2, <1>2, <1>3
<1> QED BY <1>4

-----------------------------------------------------------------------------
(* Steps of the table, from the map and the selections                     *)

\* The rows of the table, one for every path that has a side.
LEMMA RowsAre ==
    ASSUME TableMarks
    PROVE  /\ \A v \in Table : v.path \in Paths /\ SidesOf(v.path) # {} /\ Marked(v.path, v.selected)
                               /\ v = Row(v.path, SidesOf(v.path), v.selected)
           /\ \A x, b : Marked(x, b) => Row(x, SidesOf(x), b) \in Table
BY DEF TableMarks, Row

LEMMA RowsAreNext ==
    ASSUME TableMarks'
    PROVE  /\ \A v : v \in Table' <=> \E x \in Paths, b \in BOOLEAN :
                                        Marked(x, b)' /\ v = Row(x, SidesOf(x)', b)
           /\ \A x, b, c : Marked(x, b)' /\ Marked(x, c)' => b = c
           /\ \A x, b : Marked(x, b)' => x \in Paths /\ b \in BOOLEAN /\ SidesOf(x)' # {}
           /\ \A x \in Paths : SidesOf(x)' # {} => \E b \in BOOLEAN : Marked(x, b)'
BY DEF TableMarks, Row

\* The fields of a row.
LEMMA RowIs ==
    ASSUME NEW x, NEW S, NEW b
    PROVE  Row(x, S, b).path = x /\ Row(x, S, b).sides = S /\ Row(x, S, b).selected = b
BY DEF Row

LEMMA RowsDiffer ==
    ASSUME NEW x, NEW S, NEW b, NEW y, NEW S2, NEW c, Row(x, S, b) = Row(y, S2, c)
    PROVE  x = y /\ S = S2 /\ b = c
BY DEF Row

\* The table of the next state is what the paths of the map make of it: new(x, S, b) says
\* that x has a row with sides S and selection b.
LEMMA TableFrom ==
    ASSUME TablesSound, TablesSound', NEW V,
           \A x, b : Marked(x, b)' => Row(x, SidesOf(x)', b) \in V,
           \A v \in V : \E x, b : Marked(x, b)' /\ v = Row(x, SidesOf(x)', b)
    PROVE  Table' = V
<1>1. TableMarks' BY MarksNext
<1>2. /\ \A v : v \in Table' <=> \E x \in Paths, b \in BOOLEAN :
                                        Marked(x, b)' /\ v = Row(x, SidesOf(x)', b)
      /\ \A x, b : Marked(x, b)' => x \in Paths /\ b \in BOOLEAN
  BY <1>1, RowsAreNext
<1>3. \A v : v \in Table' <=> v \in V BY <1>2
<1> QED BY <1>3

LEMMA RemoveTable ==
    ASSUME TablesSound, TablesSound', NEW s \in Side, NEW p \in Paths, map[s][p] # 0,
           MapIs(map', map, s, {p}, {}),
           \A x \in Paths : SidesOf(x)' # {} => Keeps(x)
    PROVE  T!Next
<1>1. TableMarks /\ TableMarks' BY Marks, MarksNext
<1>2. /\ \A x \in Paths : x # p => SidesOf(x)' = SidesOf(x)
      /\ SidesOf(p)' = SidesOf(p) \ {s}
  BY SidesNext
<1>3. s \in SidesOf(p) BY DEF SidesOf
<1>4. PICK b \in BOOLEAN : Marked(p, b) BY <1>1, <1>3 DEF TableMarks
<1> PICK row : row = Row(p, SidesOf(p), b) OBVIOUS
<1> DEFINE left == IF SidesOf(p) = {s} THEN {} ELSE {Row(p, SidesOf(p) \ {s}, b)}
           V == (Table \ {row}) \cup left
<1>5. row \in Table /\ row.sides = SidesOf(p) /\ [row EXCEPT !.sides = row.sides \ {s}] = Row(p, SidesOf(p) \ {s}, b)
  <2>1. row \in Table BY <1>1, <1>4, RowsAre
  <2>2. row.sides = SidesOf(p) BY RowIs
  <2>3. \A S : [row EXCEPT !.sides = S] = Row(p, S, b) BY DEF Row
  <2> QED BY <2>1, <2>2, <2>3
<1>6. ASSUME NEW x, NEW c, Marked(x, c)' PROVE Row(x, SidesOf(x)', c) \in V
  <2>1. x \in Paths /\ SidesOf(x)' # {} BY <1>1, <1>6, RowsAreNext
  <2>2. SidesOf(x) # {} BY <2>1, <1>2, <1>3
  <2>3. Marked(x, c) BY <2>1, <2>2, <1>6, MarkNext
  <2>4. CASE x = p
    <3>1. c = b BY <2>3, <2>4, <1>1, <1>4 DEF TableMarks
    <3>2. SidesOf(p) # {s} BY <2>1, <2>4, <1>2
    <3> QED BY <3>1, <3>2, <2>4, <1>2
  <2>5. CASE x # p
    <3>1. Row(x, SidesOf(x), c) \in Table BY <2>3, <1>1, RowsAre
    <3>2. Row(x, SidesOf(x), c) # row BY <2>5, RowsDiffer
    <3> QED BY <3>1, <3>2, <2>1, <2>5, <1>2
  <2> QED BY <2>4, <2>5
<1>7. ASSUME NEW v \in V PROVE \E x, c : Marked(x, c)' /\ v = Row(x, SidesOf(x)', c)
  <2>1. CASE v \in left
    <3>1. v = Row(p, SidesOf(p) \ {s}, b) /\ SidesOf(p) # {s} BY <2>1
    <3>2. SidesOf(p)' # {} BY <3>1, <1>2, <1>3
    <3>3. Marked(p, b)' BY <3>2, <1>4 DEF Keeps
    <3> QED BY <3>1, <3>3, <1>2
  <2>2. CASE v \in Table /\ v # row
    <3>1. /\ v.path \in Paths /\ SidesOf(v.path) # {} /\ Marked(v.path, v.selected)
          /\ v = Row(v.path, SidesOf(v.path), v.selected)
      BY <2>2, <1>1, RowsAre
    <3>2. v.path # p BY <3>1, <2>2, <1>1, <1>4 DEF TableMarks
    <3>3. SidesOf(v.path)' = SidesOf(v.path) BY <3>1, <3>2, <1>2
    <3>4. Marked(v.path, v.selected)' BY <3>1, <3>3 DEF Keeps
    <3> QED BY <3>1, <3>3, <3>4
  <2> QED BY <2>1, <2>2
<1> HIDE DEF V
<1>8. Table' = V BY <1>6, <1>7, TableFrom
<1>9. T!Remove(row, s) BY <1>3, <1>5, <1>8, TableMeans, ZenonT(60) DEF V
<1> QED BY <1>5, <1>9, NextMeans

LEMMA AddTable ==
    ASSUME TablesSound, TablesSound', NEW p \in Paths, map["L"][p] # 0,
           MapIs(map', map, "R", {}, {p}),
           \A x \in Paths : Keeps(x)
    PROVE  T!Next
<1>1. TableMarks /\ TableMarks' BY Marks, MarksNext
<1>2. /\ \A x \in Paths : x # p => SidesOf(x)' = SidesOf(x)
      /\ SidesOf(p)' = SidesOf(p) \cup {"R"}
  <2>1. "R" \in Side BY DEF Side
  <2> QED BY <2>1, SidesNext
<1>3. "L" \in SidesOf(p) /\ SidesOf(p) \cup {"R"} = {"L", "R"} BY DEF SidesOf, Side
<1>4. PICK b \in BOOLEAN : Marked(p, b) BY <1>1, <1>3 DEF TableMarks
<1> PICK row : row = Row(p, SidesOf(p), b) OBVIOUS
<1> DEFINE V == (Table \ {row}) \cup {Row(p, {"L", "R"}, b)}
<1>5. row \in Table /\ row.sides = SidesOf(p) /\ [row EXCEPT !.sides = {"L", "R"}] = Row(p, {"L", "R"}, b)
  <2>1. row \in Table BY <1>1, <1>4, RowsAre
  <2>2. row.sides = SidesOf(p) BY RowIs
  <2>3. \A S : [row EXCEPT !.sides = S] = Row(p, S, b) BY DEF Row
  <2> QED BY <2>1, <2>2, <2>3
<1>6. ASSUME NEW x, NEW c, Marked(x, c)' PROVE Row(x, SidesOf(x)', c) \in V
  <2>1. x \in Paths /\ SidesOf(x)' # {} BY <1>1, <1>6, RowsAreNext
  <2>2. SidesOf(x) # {} BY <2>1, <1>2, <1>3
  <2>3. Marked(x, c) BY <2>1, <2>2, <1>6, MarkNext
  <2>4. CASE x = p
    <3>1. c = b BY <2>3, <2>4, <1>1, <1>4 DEF TableMarks
    <3> QED BY <3>1, <2>4, <1>2, <1>3
  <2>5. CASE x # p
    <3>1. Row(x, SidesOf(x), c) \in Table BY <2>3, <1>1, RowsAre
    <3>2. Row(x, SidesOf(x), c) # row BY <2>5, RowsDiffer
    <3> QED BY <3>1, <3>2, <2>1, <2>5, <1>2
  <2> QED BY <2>4, <2>5
<1>7. ASSUME NEW v \in V PROVE \E x, c : Marked(x, c)' /\ v = Row(x, SidesOf(x)', c)
  <2>1. CASE v = Row(p, {"L", "R"}, b)
    <3>1. Marked(p, b)' BY <1>4 DEF Keeps
    <3> QED BY <3>1, <2>1, <1>2, <1>3
  <2>2. CASE v \in Table /\ v # row
    <3>1. /\ v.path \in Paths /\ SidesOf(v.path) # {} /\ Marked(v.path, v.selected)
          /\ v = Row(v.path, SidesOf(v.path), v.selected)
      BY <2>2, <1>1, RowsAre
    <3>2. v.path # p BY <3>1, <2>2, <1>1, <1>4 DEF TableMarks
    <3>3. SidesOf(v.path)' = SidesOf(v.path) BY <3>1, <3>2, <1>2
    <3>4. Marked(v.path, v.selected)' BY <3>1, <3>3 DEF Keeps
    <3> QED BY <3>1, <3>3, <3>4
  <2> QED BY <2>1, <2>2
<1> HIDE DEF V
<1>8. Table' = V BY <1>6, <1>7, TableFrom
<1>9. T!Add(row) BY <1>3, <1>5, <1>8, TableMeans DEF V
<1> QED BY <1>5, <1>9, NextMeans

LEMMA RowUnselected ==
    \A x, S, b : [Row(x, S, b) EXCEPT !.selected = FALSE] = Row(x, S, FALSE)
<1> SUFFICES ASSUME NEW x, NEW S, NEW b
             PROVE  [Row(x, S, b) EXCEPT !.selected = FALSE] = Row(x, S, FALSE)
  OBVIOUS
<1>1. \A c : [Row(x, S, b) EXCEPT !.selected = c] = Row(x, S, c) BY DEF Row
<1> QED BY <1>1

\* A new name joins the row of that name on the other side, or takes the row along.
LEMMA RenameTable ==
    ASSUME TablesSound, TablesSound', NEW s \in Side, NEW p \in Paths, NEW q \in Paths, p # q,
           map[s][p] # 0, map[s][q] = 0,
           MapIs(map', map, s, {p}, {q}),
           \A x \in Paths : x # p /\ x # q => Keeps(x),
           IF map[Other(s)][q] # 0
           THEN Keeps(q) /\ (map[Other(s)][p] # 0 => Keeps(p))
           ELSE \A b : Marked(p, b) => Marked(q, b)' /\ (map[Other(s)][p] # 0 => Marked(p, FALSE)')
    PROVE  T!Next
<1>1. TableMarks /\ TableMarks' BY Marks, MarksNext
<1>2. /\ \A x \in Paths : x # p /\ x # q => SidesOf(x)' = SidesOf(x)
      /\ SidesOf(p)' = SidesOf(p) \ {s} /\ SidesOf(q)' = SidesOf(q) \cup {s}
  BY SidesNext
<1>3. /\ s \in SidesOf(p) /\ s \notin SidesOf(q)
      /\ (map[Other(s)][p] = 0 <=> SidesOf(p) = {s})
      /\ (map[Other(s)][q] = 0 <=> SidesOf(q) = {})
  BY SideIs DEF SidesOf
<1>4. PICK b \in BOOLEAN : Marked(p, b) BY <1>1, <1>3 DEF TableMarks
<1> PICK row : row = Row(p, SidesOf(p), b) OBVIOUS
<1>5. row \in Table /\ row.sides = SidesOf(p) /\ row.path = p /\ row.selected = b
  <2>1. row \in Table BY <1>1, <1>4, RowsAre
  <2> QED BY <2>1, RowIs
\* The rows of all other paths.
<1>6. ASSUME NEW x, NEW c, x # p, x # q
      PROVE  Marked(x, c)' <=> Marked(x, c)
  <2>1. CASE x \in Paths /\ SidesOf(x) # {} BY <2>1, <1>6, MarkNext
  <2>2. CASE ~(x \in Paths /\ SidesOf(x) # {})
    <3>1. ~Marked(x, c) BY <1>1, <2>2 DEF TableMarks
    <3>2. ~Marked(x, c)' BY <1>1, <1>2, <1>6, <2>2, RowsAreNext
    <3> QED BY <3>1, <3>2
  <2> QED BY <2>1, <2>2
<1>7. \A v \in Table : v # row => v.path # p BY <1>1, <1>4, RowsAre DEF TableMarks
<1>8. CASE map[Other(s)][q] # 0
  <2>1. PICK c \in BOOLEAN : Marked(q, c) BY <1>1, <1>3, <1>8 DEF TableMarks
  <2> PICK to : to = Row(q, SidesOf(q), c) OBVIOUS
  <2> DEFINE left == IF SidesOf(p) = {s} THEN {} ELSE {Row(p, SidesOf(p) \ {s}, b)}
             V == (Table \ {row, to}) \cup left \cup {Row(q, SidesOf(q) \cup {s}, c)}
  <2>2. to \in Table /\ to.path = q /\ to.sides = SidesOf(q)
    <3>1. to \in Table BY <1>1, <2>1, RowsAre
    <3> QED BY <3>1, RowIs
  <2>3. [to EXCEPT !.sides = SidesOf(q) \cup {s}] = Row(q, SidesOf(q) \cup {s}, c)
    <3>1. \A S : [to EXCEPT !.sides = S] = Row(q, S, c) BY DEF Row
    <3> QED BY <3>1
  <2>4. [row EXCEPT !.sides = SidesOf(p) \ {s}] = Row(p, SidesOf(p) \ {s}, b)
    <3>1. \A S : [row EXCEPT !.sides = S] = Row(p, S, b) BY DEF Row
    <3> QED BY <3>1
  <2>5. \A v \in Table : v # to => v.path # q BY <1>1, <2>1, RowsAre DEF TableMarks
  <2>6. ASSUME NEW x, NEW d, Marked(x, d)' PROVE Row(x, SidesOf(x)', d) \in V
    <3>1. x \in Paths /\ SidesOf(x)' # {} BY <1>1, <2>6, RowsAreNext
    <3>2. CASE x = p
      <4>1. SidesOf(p) # {s} BY <3>1, <3>2, <1>2
      <4>2. Marked(p, b)' BY <4>1, <1>3, <1>4, <1>8 DEF Keeps
      <4>3. d = b BY <4>2, <3>2, <2>6, <1>1, RowsAreNext
      <4> QED BY <4>1, <4>3, <3>2, <1>2
    <3>3. CASE x = q
      <4>1. Marked(q, c)' BY <2>1, <1>8 DEF Keeps
      <4>2. d = c BY <4>1, <3>3, <2>6, <1>1, RowsAreNext
      <4> QED BY <4>2, <3>3, <1>2
    <3>4. CASE x # p /\ x # q
      <4>1. Marked(x, d) BY <3>4, <2>6, <1>6
      <4>2. Row(x, SidesOf(x), d) \in Table BY <4>1, <1>1, RowsAre
      <4>3. Row(x, SidesOf(x), d) # row /\ Row(x, SidesOf(x), d) # to BY <3>4, RowsDiffer
      <4> QED BY <4>2, <4>3, <3>1, <3>4, <1>2
    <3> QED BY <3>2, <3>3, <3>4
  <2>7. ASSUME NEW v \in V PROVE \E x, d : Marked(x, d)' /\ v = Row(x, SidesOf(x)', d)
    <3>1. CASE v \in left
      <4>1. v = Row(p, SidesOf(p) \ {s}, b) /\ SidesOf(p) # {s} BY <3>1
      <4>2. Marked(p, b)' BY <4>1, <1>3, <1>4, <1>8 DEF Keeps
      <4> QED BY <4>1, <4>2, <1>2
    <3>2. CASE v = Row(q, SidesOf(q) \cup {s}, c)
      <4>1. Marked(q, c)' BY <2>1, <1>8 DEF Keeps
      <4> QED BY <4>1, <3>2, <1>2
    <3>3. CASE v \in Table /\ v # row /\ v # to
      <4>1. v.path \in Paths /\ Marked(v.path, v.selected) /\ v = Row(v.path, SidesOf(v.path), v.selected)
        BY <3>3, <1>1, RowsAre
      <4>2. v.path # p /\ v.path # q BY <3>3, <1>7, <2>5
      <4>3. Marked(v.path, v.selected)' /\ SidesOf(v.path)' = SidesOf(v.path)
        BY <4>1, <4>2, <1>2, <1>6
      <4> QED BY <4>1, <4>3
    <3> QED BY <3>1, <3>2, <3>3
  <2> HIDE DEF V
  <2>8. Table' = V BY <2>6, <2>7, TableFrom
  <2>9. T!Rename(row, s, q) BY <1>3, <1>5, <2>2, <2>3, <2>4, <2>8, RenameMeans DEF V
  <2> QED BY <1>5, <2>9, NextMeans
<1>9. CASE map[Other(s)][q] = 0
  <2> DEFINE left == IF SidesOf(p) = {s} THEN {} ELSE {Row(p, SidesOf(p) \ {s}, FALSE)}
             V == (Table \ {row}) \cup left \cup {Row(q, {s}, b)}
  <2>1. SidesOf(q) = {} /\ SidesOf(q)' = {s} /\ Marked(q, b)' BY <1>2, <1>3, <1>4, <1>9
  <2>2. \A v \in Table : v.path # q BY <1>1, <2>1, RowsAre
  <2>3. [row EXCEPT !.path = q, !.sides = {s}] = Row(q, {s}, b)
    <3>1. [row EXCEPT !.path = q] = Row(q, SidesOf(p), b) BY DEF Row
    <3>2. [Row(q, SidesOf(p), b) EXCEPT !.sides = {s}] = Row(q, {s}, b) BY DEF Row
    <3>3. [row EXCEPT !.path = q, !.sides = {s}] = [[row EXCEPT !.path = q] EXCEPT !.sides = {s}]
      OBVIOUS
    <3> QED BY <3>1, <3>2, <3>3
  <2>4. {[x EXCEPT !.selected = FALSE] :
           x \in (IF row.sides = {s} THEN {} ELSE {[row EXCEPT !.sides = row.sides \ {s}]})} = left
    <3>1. \A S : [row EXCEPT !.sides = S] = Row(p, S, b) BY DEF Row
    <3>2. \A S : [Row(p, S, b) EXCEPT !.selected = FALSE] = Row(p, S, FALSE) BY RowUnselected
    <3>3. CASE SidesOf(p) = {s} BY <3>3, <1>5
    <3>4. CASE SidesOf(p) # {s}
      <4>1. {[x EXCEPT !.selected = FALSE] :
               x \in (IF row.sides = {s} THEN {} ELSE {[row EXCEPT !.sides = row.sides \ {s}]})} =
            {[x EXCEPT !.selected = FALSE] : x \in {Row(p, SidesOf(p) \ {s}, b)}}
        BY <3>1, <3>4, <1>5
      <4> QED BY <4>1, <3>2, <3>4
    <3> QED BY <3>3, <3>4
  <2>5. ASSUME NEW x, NEW d, Marked(x, d)' PROVE Row(x, SidesOf(x)', d) \in V
    <3>1. x \in Paths /\ SidesOf(x)' # {} BY <1>1, <2>5, RowsAreNext
    <3>2. CASE x = p
      <4>1. SidesOf(p) # {s} BY <3>1, <3>2, <1>2
      <4>2. Marked(p, FALSE)' BY <4>1, <1>3, <1>4, <1>9
      <4>3. d = FALSE BY <4>2, <3>2, <2>5, <1>1, RowsAreNext
      <4> QED BY <4>1, <4>3, <3>2, <1>2
    <3>3. CASE x = q
      <4>1. d = b BY <2>1, <3>3, <2>5, <1>1, RowsAreNext
      <4> QED BY <4>1, <3>3, <2>1
    <3>4. CASE x # p /\ x # q
      <4>1. Marked(x, d) BY <3>4, <2>5, <1>6
      <4>2. Row(x, SidesOf(x), d) \in Table BY <4>1, <1>1, RowsAre
      <4>3. Row(x, SidesOf(x), d) # row BY <3>4, RowsDiffer
      <4> QED BY <4>2, <4>3, <3>1, <3>4, <1>2
    <3> QED BY <3>2, <3>3, <3>4
  <2>6. ASSUME NEW v \in V PROVE \E x, d : Marked(x, d)' /\ v = Row(x, SidesOf(x)', d)
    <3>1. CASE v \in left
      <4>1. v = Row(p, SidesOf(p) \ {s}, FALSE) /\ SidesOf(p) # {s} BY <3>1
      <4>2. Marked(p, FALSE)' BY <4>1, <1>3, <1>4, <1>9
      <4> QED BY <4>1, <4>2, <1>2
    <3>2. CASE v = Row(q, {s}, b) BY <3>2, <2>1
    <3>3. CASE v \in Table /\ v # row
      <4>1. v.path \in Paths /\ Marked(v.path, v.selected) /\ v = Row(v.path, SidesOf(v.path), v.selected)
        BY <3>3, <1>1, RowsAre
      <4>2. v.path # p /\ v.path # q BY <3>3, <1>7, <2>2
      <4>3. Marked(v.path, v.selected)' /\ SidesOf(v.path)' = SidesOf(v.path)
        BY <4>1, <4>2, <1>2, <1>6
      <4> QED BY <4>1, <4>3
    <3> QED BY <3>1, <3>2, <3>3
  <2> HIDE DEF V, left
  <2>7. Table' = V BY <2>5, <2>6, TableFrom
  <2>8. T!Rename(row, s, q)
    <3>1. s \in row.sides /\ q # row.path BY <1>3, <1>5
    <3>2. Table' = (Table \ {row})
                         \cup {[x EXCEPT !.selected = FALSE] :
                               x \in (IF row.sides = {s} THEN {} ELSE {[row EXCEPT !.sides = row.sides \ {s}]})}
                         \cup {[row EXCEPT !.path = q, !.sides = {s}]}
      BY <2>3, <2>4, <2>7 DEF V
    <3> QED BY <3>1, <3>2, <2>2, RenameMeans
  <2> QED BY <1>5, <2>8, NextMeans
<1> QED BY <1>8, <1>9

-----------------------------------------------------------------------------
(* The selections through the arrays                                       *)

LEMMA KeepsIf ==
    ASSUME NEW x, \A y : Shown(list, rows, x, y) => Keeps(x)
    PROVE  Keeps(x)
BY DEF Keeps, Marked

\* The rows stay, and so do the names of their entries.
LEMMA SameKeeps ==
    ASSUME TablesSound, rows' = rows,
           \A t \in Side : \A i \in 1..Len(list[t]) : list'[t][i].path = list[t][i].path
    PROVE  \A x : Keeps(x)
<1> SUFFICES ASSUME NEW x, NEW y, Shown(list, rows, x, y) PROVE Keeps(x) BY KeepsIf
<1>1. PICK t \in Side : y \in 1..Len(rows) /\ rows[y][t] # 0 /\ list[t][rows[y][t]].path = x BY DEF Shown
<1>2. rows[y][t] \in 1..Len(list[t]) BY <1>1 DEF TablesSound, Sound, RowsPoint
<1>3. list'[t][rows'[y][t]].path = x BY <1>1, <1>2
<1> QED BY <1>1, <1>3, RowKeeps

\* A row is dropped: the rows behind it move up, and their entries keep their names.
LEMMA DropKeeps ==
    ASSUME TablesSound, NEW x, NEW y, Shown(list, rows, x, y),
           NEW rws, rws \in Seq(RowsType), NEW r \in 1..Len(rws), r # y, y \in 1..Len(rws),
           rws[y].selected = rows[y].selected, rows' = Shifted(rws, r),
           NEW t \in Side, rws[y][t] # 0, list'[t][rws[y][t]].path = x
    PROVE  Keeps(x)
<1>1. Up(y, r) \in 1..Len(rows') /\ rows'[Up(y, r)] = rws[y]
  <2>1. y \in (1..Len(rws)) \ {r} OBVIOUS
  <2>2. /\ Len(Shifted(rws, r)) = Len(rws) - 1
        /\ Up(y, r) \in 1..(Len(rws) - 1) /\ Shifted(rws, r)[Up(y, r)] = rws[y]
    BY <2>1, ShiftedIs
  <2> QED BY <2>2
<1> DEFINE z == Up(y, r)
<1>2. z \in 1..Len(rows') /\ rows'[z][t] # 0 /\ list'[t][rows'[z][t]].path = x
      /\ rows'[z].selected = rows[y].selected
  BY <1>1
<1> HIDE DEF z
<1> QED BY <1>2, RowKeeps

LEMMA FollowingPaths ==
    ASSUME NEW lst, lst \in Seq(Entries), NEW s, NEW rws, NEW r
    PROVE  \A i \in 1..Len(lst) : Following(lst, s, rws, r)[i].path = lst[i].path
<1>1. DOMAIN lst = 1..Len(lst) /\ \A i \in 1..Len(lst) : lst[i] \in Entries OBVIOUS
<1>2. \A e \in Entries : \A n : [e EXCEPT !.row = n].path = e.path BY DEF Entries
<1> QED BY <1>1, <1>2 DEF Following

\* The row of p is the row of its entries.
LEMMA RowShows ==
    ASSUME TablesSound, NEW s \in Side, NEW p \in Paths, map[s][p] # 0
    PROVE  LET i == map[s][p]
               r == list[s][i].row
           IN  /\ i \in 1..Len(list[s]) /\ list[s][i].path = p
               /\ r \in 1..Len(rows) /\ r # 0 /\ rows[r][s] = i
               /\ Shown(list, rows, p, r)
               /\ \A x, y : Shown(list, rows, x, y) => (x = p <=> y = r)
               /\ \A t \in Side : rows[r][t] # 0 <=> map[t][p] # 0
<1> DEFINE i == map[s][p]
           r == list[s][i].row
<1>1. i \in 1..Len(list[s]) /\ list[s][i].path = p /\ r \in 1..Len(rows) /\ rows[r][s] = i
  BY RowOf DEF TablesSound
<1>2. r # 0
  <2>1. rows \in Seq(RowsType) BY TablesTypes
  <2> QED BY <2>1, <1>1
<1>3. Shown(list, rows, p, r) BY <1>1 DEF Shown
<1> HIDE DEF i, r
<1>4. \A x, y : Shown(list, rows, x, y) => (x = p <=> y = r) BY <1>3, ShownIs
<1>5. \A t \in Side : rows[r][t] # 0 <=> map[t][p] # 0 BY <1>3, ShownIs
<1> QED BY <1>1, <1>2, <1>3, <1>4, <1>5 DEF i, r

LEMMA RemoveKeeps ==
    ASSUME TablesSound, NEW s \in Side, NEW p \in Paths, map[s][p] # 0, RemoveRow(s, p),
           NEW x, x # p \/ map[Other(s)][p] # 0
    PROVE  Keeps(x)
<1> SUFFICES ASSUME NEW y, Shown(list, rows, x, y) PROVE Keeps(x) BY KeepsIf
<1> DEFINE i == map[s][p]
           r == list[s][i].row
           lists == WithRow(list, s, i, 0)
           nr == WithCell(rows, r, s, 0)
<1>1. /\ map \in [Side -> [Paths -> Nat]] /\ rows \in Seq(RowsType) /\ list \in [Side -> Seq(Entries)]
      /\ Other(s) \in Side /\ Other(s) # s /\ \A t \in Side : t = s \/ t = Other(s)
  BY TablesTypes, SideIs
<1>2. /\ i \in 1..Len(list[s]) /\ r \in 1..Len(rows) /\ r # 0 /\ rows[r][s] = i
      /\ x = p <=> y = r
      /\ \A t \in Side : rows[r][t] # 0 <=> map[t][p] # 0
  BY RowShows
<1>3. /\ map' = [map EXCEPT ![s][p] = 0]
      /\ IF rows[r][Other(s)] = 0 THEN DropRow(lists, rows, r)
         ELSE list' = lists /\ rows' = nr
  BY <1>2 DEF RemoveRow, WithRow, WithCell
<1>5. /\ lists \in [Side -> Seq(Entries)]
      /\ \A t \in Side : Len(lists[t]) = Len(list[t])
      /\ \A t \in Side : \A j \in 1..Len(list[t]) : lists[t][j].path = list[t][j].path
  <2> HIDE DEF i
  <2>1. OnlyRow(lists, list, s, i, 0) BY <1>1, <1>2, SetRow
  <2> HIDE DEF lists
  <2> QED BY <2>1 DEF OnlyRow
<1> HIDE DEF i, r, lists
<1>6. /\ Len(nr) = Len(rows)
      /\ \A v \in 1..Len(rows), t \in Side : nr[v][t] = IF v = r /\ t = s THEN 0 ELSE rows[v][t]
      /\ \A v \in 1..Len(rows) : nr[v].selected = rows[v].selected
  BY <1>1, <1>2, SetCell, 0 \in Nat
<1> HIDE DEF nr
<1>7. PICK t \in Side : y \in 1..Len(rows) /\ rows[y][t] # 0 /\ list[t][rows[y][t]].path = x BY DEF Shown
<1>8. \A u \in Side : rows[y][u] # 0 => list[u][rows[y][u]].path = x /\ rows[y][u] \in 1..Len(list[u])
  <2>1. x = PathOf(y) BY ShownIs
  <2>2. y \in DOMAIN rows BY <1>1, <1>7
  <2> QED BY <2>1, <2>2, PathOfIs
<1>9. PICK u \in Side : nr[y][u] # 0 /\ lists[u][nr[y][u]].path = x
  <2>1. CASE y # r
    <3>1. nr[y][t] = rows[y][t] BY <2>1, <1>6, <1>7
    <3> QED BY <3>1, <1>5, <1>7, <1>8
  <2>2. CASE y = r
    <3>1. rows[y][Other(s)] # 0 BY <2>2, <1>1, <1>2
    <3>2. nr[y][Other(s)] = rows[y][Other(s)] BY <1>1, <1>6, <1>7
    <3> QED BY <3>1, <3>2, <1>1, <1>5, <1>8
  <2> QED BY <2>1, <2>2
<1>10. nr[y].selected = rows[y].selected /\ y \in 1..Len(nr) /\ r \in 1..Len(nr) BY <1>2, <1>6, <1>7
<1>11. CASE rows[r][Other(s)] = 0
  <2>1. /\ rows' = Shifted(rows, r)
        /\ list' = [v \in Side |-> Following(lists[v], v, Shifted(rows, r), r)]
    BY <1>3, <1>11 DEF DropRow
  <2>2. y # r BY <1>1, <1>2, <1>11
  <2>3. lists[t] \in Seq(Entries) /\ rows[y][t] \in 1..Len(lists[t])
    BY <1>5, <1>7, <1>8
  <2>4. list'[t] = Following(lists[t], t, Shifted(rows, r), r) BY <2>1
  <2>5. list'[t][rows[y][t]].path = x
    <3>1. list'[t][rows[y][t]].path = lists[t][rows[y][t]].path BY <2>3, <2>4, FollowingPaths
    <3> QED BY <3>1, <1>5, <1>7, <1>8
  <2>6. rows \in Seq(RowsType) /\ r \in 1..Len(rows) /\ y \in 1..Len(rows) /\ rows[y][t] # 0
    BY <1>1, <1>2, <1>7
  <2>7. rows' = Shifted(rows, r) /\ rows[y].selected = rows[y].selected BY <2>1
  <2> QED BY <2>2, <2>5, <2>6, <2>7, DropKeeps
<1>12. CASE rows[r][Other(s)] # 0
  <2>1. list' = lists /\ rows' = nr BY <1>3, <1>12
  <2> HIDE DEF nr
  <2> QED BY <2>1, <1>9, <1>10, RowKeeps
<1> QED BY <1>11, <1>12

LEMMA StutterKeeps ==
    ASSUME TablesSound, rows' = rows, list' = list
    PROVE  \A x : Keeps(x)
BY SameKeeps

LEMMA TransferKeeps ==
    ASSUME TablesSound, DiskOK, NEW p \in Paths, TransferRow(p)
    PROVE  \A x : Keeps(x)
<1> DEFINE i == map["L"][p]
           r == list["L"][i].row
           old == rows[r]["R"]
           stat == Entry("R", p, r)
<1>1. /\ map \in [Side -> [Paths -> Nat]] /\ rows \in Seq(RowsType)
      /\ list \in [Side -> Seq(Entries)] /\ "L" \in Side /\ "R" \in Side
  BY TablesTypes DEF Side
<1>2. CASE i = 0 \/ ~Exists("R", p)
  <2>1. UNCHANGED tables BY <1>2 DEF TransferRow
  <2> QED BY <2>1, StutterKeeps DEF tables
<1>3. CASE i # 0 /\ Exists("R", p)
  <2>1. /\ r \in 1..Len(rows) /\ r # 0
        /\ Shown(list, rows, p, r)
        /\ \A t \in Side : rows[r][t] # 0 <=> map[t][p] # 0
    BY <1>1, <1>3, RowShows
  <2>2. stat.path = p BY DEF Entry
  <2>3. CASE old # 0
    <3> DEFINE e == [stat EXCEPT !.ignored = list["R"][old].ignored]
    <3>1. /\ list' = [list EXCEPT !["R"][old] = e] /\ rows' = rows
      BY <1>3, <2>1, <2>3 DEF TransferRow
    <3>2. old \in 1..Len(list["R"]) /\ list["R"][old].path = p
      <4>1. p = PathOf(r) /\ r \in DOMAIN rows BY <2>1, <1>1, ShownIs
      <4> QED BY <4>1, <2>3, <1>1, PathOfIs
    <3>3. e.path = p BY <2>2 DEF Entry
    <3> HIDE DEF e, old
    <3>4. \A t \in Side : \A j \in 1..Len(list[t]) : list'[t][j].path = list[t][j].path
      <4>1. \A t \in Side : t # "R" => list'[t] = list[t] BY <3>1, <1>1
      <4>2. \A j \in 1..Len(list["R"]) : list'["R"][j] = IF j = old THEN e ELSE list["R"][j]
        BY <3>1, <1>1
      <4> QED BY <4>1, <4>2, <3>2, <3>3
    <3> QED BY <3>1, <3>4, SameKeeps
  <2>4. CASE old = 0
    <3> SUFFICES ASSUME NEW x, NEW y, Shown(list, rows, x, y) PROVE Keeps(x) BY KeepsIf
    <3>1. map["R"][p] = 0 BY <2>1, <2>4, <1>1
    <3> DEFINE e == [stat EXCEPT !.ignored = list["L"][i].ignored]
               new == Len(list["R"]) + 1
    <3>2. /\ list' = [list EXCEPT !["R"] = Append(list["R"], e)]
          /\ rows' = WithCell(rows, r, "R", new)
      BY <1>3, <2>1, <2>4, <3>1 DEF TransferRow, WithCell
    <3>3. new \in Nat
      <4>1. Len(list["R"]) \in Nat BY <1>1
      <4> QED BY <4>1
    <3>4. \A t \in Side : \A j \in 1..Len(list[t]) : list'[t][j].path = list[t][j].path
      <4> HIDE DEF e
      <4>1. \A t \in Side : t # "R" => list'[t] = list[t] BY <3>2, <1>1
      <4>2. \A j \in 1..Len(list["R"]) : Append(list["R"], e)[j] = list["R"][j]
        <5>1. list["R"] \in Seq(Entries) BY <1>1
        <5> QED BY <5>1
      <4> QED BY <4>1, <4>2, <3>2, <1>1
    <3> HIDE DEF e, r, new, i, stat
    <3>5. /\ Len(rows') = Len(rows)
          /\ \A v \in 1..Len(rows), t \in Side : rows'[v][t] = IF v = r /\ t = "R" THEN new ELSE rows[v][t]
          /\ \A v \in 1..Len(rows) : rows'[v].selected = rows[v].selected
      BY <1>1, <2>1, <3>2, <3>3, SetCell
    <3>6. PICK t \in Side : y \in 1..Len(rows) /\ rows[y][t] # 0 /\ list[t][rows[y][t]].path = x BY DEF Shown
    <3>7. rows[y][t] \in 1..Len(list[t])
      BY <3>6 DEF TablesSound, Sound, RowsPoint
    <3>8. ~(y = r /\ t = "R") BY <3>6, <2>4 DEF old, r, i
    <3>9. rows'[y][t] = rows[y][t] BY <3>5, <3>6, <3>8
    <3>10. y \in 1..Len(rows') /\ rows'[y][t] # 0 /\ list'[t][rows'[y][t]].path = x
           /\ rows'[y].selected = rows[y].selected
      BY <3>4, <3>5, <3>6, <3>7, <3>9
    <3> QED BY <3>10, RowKeeps
  <2> QED BY <2>3, <2>4
<1> QED BY <1>2, <1>3

LEMMA IgnoreKeeps ==
    ASSUME TablesSound, IgnoreRows
    PROVE  \A x : Keeps(x)
<1> DEFINE hit == {r \in DOMAIN rows : PathOf(r) \in rules[Len(rules)]}
<1>1. /\ rows' = rows
      /\ list' = [s \in Side |-> [i \in DOMAIN list[s] |->
            IF list[s][i].row \in hit THEN [list[s][i] EXCEPT !.ignored = TRUE] ELSE list[s][i]]]
  BY DEF IgnoreRows
<1>2. list \in [Side -> Seq(Entries)] BY TablesTypes
<1> HIDE DEF hit
<1>3. ASSUME NEW t \in Side, NEW i \in 1..Len(list[t]) PROVE list'[t][i].path = list[t][i].path
  <2>1. DOMAIN list[t] = 1..Len(list[t]) /\ list[t][i] \in Entries BY <1>2
  <2>2. list'[t][i] = IF list[t][i].row \in hit THEN [list[t][i] EXCEPT !.ignored = TRUE] ELSE list[t][i]
    BY <1>1, <2>1
  <2> QED BY <2>1, <2>2 DEF Entries
<1> QED BY <1>1, <1>3, SameKeeps

\* What a new name makes of the arrays: the entries keep their names but for the new one.
LEMMA RenameParts ==
    ASSUME TablesSound, NEW s \in Side, NEW p \in Paths, NEW q \in Paths, p # q,
           map[s][p] # 0, map[s][q] = 0, RenameRow(s, p, q)
    PROVE  LET r == list[s][map[s][p]].row
               O == Other(s)
               o == rows[r][O]
               m == Partner(s, q)
               new == Len(list[s]) + 1
           IN  /\ \A t \in Side : \A j \in 1..Len(list[t]) : list'[t][j].path = list[t][j].path
               /\ list'[s][new].path = q
               /\ IF m # 0 /\ o # 0
                  THEN rows' = WithCell(WithCell(rows, m, s, new), r, s, 0)
                  ELSE IF m # 0
                  THEN rows' = Shifted(WithCell(rows, m, s, new), r)
                  ELSE IF o # 0
                  THEN rows' = Append(WithCell(WithCell(rows, r, s, new), r, O, 0),
                                      [rows[r] EXCEPT ![s] = 0, !.selected = FALSE])
                  ELSE rows' = WithCell(rows, r, s, new)
<1> DEFINE i == map[s][p]
           r == list[s][i].row
           O == Other(s)
           o == rows[r][O]
           m == Partner(s, q)
           new == Len(list[s]) + 1
           nl == WithRow(list, s, i, 0)
           e(row) == [list[s][i] EXCEPT !.path = q, !.ignored = Matched(q), !.row = row]
           to(row) == WithEntry(nl, s, e(row))
<1>1. /\ rows \in Seq(RowsType) /\ list \in [Side -> Seq(Entries)] /\ O \in Side /\ O # s
      /\ Len(rows) \in Nat
  <2>1. rows \in Seq(RowsType) BY TablesTypes
  <2> QED BY <2>1, TablesTypes, SideIs
<1>2. i \in 1..Len(list[s]) /\ r \in 1..Len(rows) /\ r # 0 /\ r \in Nat
  <2>1. i \in 1..Len(list[s]) /\ r \in 1..Len(rows) /\ r # 0 BY RowShows
  <2> HIDE DEF r, i
  <2> QED BY <2>1, <1>1
<1>3. m # 0 => m \in Nat
  <2>1. m # 0 => m \in 1..Len(rows) BY PartnerIs
  <2> HIDE DEF m
  <2> QED BY <2>1, <1>1
<1>4. list[s][i] \in Entries
  <2>1. list[s] \in Seq(Entries) BY <1>1
  <2> HIDE DEF i
  <2> QED BY <2>1, <1>2
<1>5. \A row \in Nat : e(row) \in Entries /\ e(row).path = q
  <2>1. Matched(q) \in BOOLEAN BY DEF Matched
  <2> HIDE DEF i
  <2> QED BY <1>4, <2>1 DEF Entries
<1>6. IF m # 0 /\ o # 0
      THEN rows' = WithCell(WithCell(rows, m, s, new), r, s, 0) /\ list' = to(m)
      ELSE IF m # 0
      THEN DropRow(to(m), WithCell(rows, m, s, new), r)
      ELSE IF o # 0
      THEN /\ rows' = Append(WithCell(WithCell(rows, r, s, new), r, O, 0),
                             [rows[r] EXCEPT ![s] = 0, !.selected = FALSE])
           /\ list' = WithRow(to(r), O, o, Len(rows) + 1)
      ELSE rows' = WithCell(rows, r, s, new) /\ list' = to(r)
  <2>1. \A row : to(row) = [list EXCEPT ![s] = Append([list[s] EXCEPT ![i].row = 0], e(row))]
    BY <1>1 DEF WithEntry, WithRow
  <2> HIDE DEF to, e, nl
  <2> QED BY <1>2, <2>1 DEF RenameRow, WithCell, WithRow, e
<1> HIDE DEF r, o, m, e
<1>7. ASSUME NEW row \in Nat
      PROVE  /\ to(row) \in [Side -> Seq(Entries)]
             /\ \A t \in Side : Len(list[t]) <= Len(to(row)[t]) /\ Len(list[t]) \in Nat
             /\ \A t \in Side : \A j \in 1..Len(list[t]) : to(row)[t][j].path = list[t][j].path
             /\ to(row)[s][new].path = q /\ new \in 1..Len(to(row)[s])
  <2> HIDE DEF i
  <2>0. 0 \in Nat OBVIOUS
  <2>1. OnlyRow(nl, list, s, i, 0) BY <2>0, <1>1, <1>2, SetRow, Zenon
  <2> HIDE DEF nl
  <2>2. OneMore(to(row), nl, s, e(row)) BY <1>5, <2>1, AppendEntry DEF OnlyRow
  <2> HIDE DEF to
  <2>3. \A t \in Side : Len(list[t]) \in Nat BY <1>1
  <2>4. /\ to(row) \in [Side -> Seq(Entries)]
        /\ \A t \in Side : Len(to(row)[t]) = IF t = s THEN Len(list[t]) + 1 ELSE Len(list[t])
        /\ \A t \in Side : \A j \in 1..Len(list[t]) : to(row)[t][j].path = list[t][j].path
        /\ to(row)[s][new] = e(row)
    BY <2>1, <2>2 DEF OneMore, OnlyRow
  <2> QED BY <2>3, <2>4, <1>5
<1> HIDE DEF to
\* Every way the listings are left.
<1>8. CASE (\E row \in Nat : list' = to(row))
  <2>1. /\ \A t \in Side : \A j \in 1..Len(list[t]) : list'[t][j].path = list[t][j].path
        /\ list'[s][new].path = q
    BY <1>8, <1>7
  <2>2. m # 0 => o # 0 \/ rows' = Shifted(WithCell(rows, m, s, new), r) BY <1>6 DEF DropRow
  <2> QED BY <2>1, <2>2, <1>6 DEF r, o, m
<1>9. CASE m # 0 /\ o = 0
  <2>1. /\ rows' = Shifted(WithCell(rows, m, s, new), r)
        /\ list' = [t \in Side |-> Following(to(m)[t], t, rows', r)]
    BY <1>6, <1>9 DEF DropRow
  <2>2. \A t \in Side : \A j \in 1..Len(to(m)[t]) : list'[t][j].path = to(m)[t][j].path
    <3> SUFFICES ASSUME NEW t \in Side
                 PROVE  \A j \in 1..Len(to(m)[t]) : list'[t][j].path = to(m)[t][j].path
      OBVIOUS
    <3>1. list'[t] = Following(to(m)[t], t, rows', r) BY <2>1
    <3>2. to(m)[t] \in Seq(Entries) BY <1>3, <1>7, <1>9
    <3> QED BY <3>1, <3>2, FollowingPaths
  <2>3. \A t \in Side : \A j \in 1..Len(list[t]) : list'[t][j].path = list[t][j].path
    <3> SUFFICES ASSUME NEW t \in Side, NEW j \in 1..Len(list[t]) PROVE list'[t][j].path = list[t][j].path
      OBVIOUS
    <3>1. m \in Nat /\ Len(list[t]) <= Len(to(m)[t]) /\ Len(list[t]) \in Nat /\ Len(to(m)[t]) \in Nat
      <4>1. m \in Nat BY <1>3, <1>9
      <4>2. to(m)[t] \in Seq(Entries) BY <4>1, <1>7
      <4>3. Len(to(m)[t]) \in Nat BY <4>2
      <4>4. Len(list[t]) <= Len(to(m)[t]) /\ Len(list[t]) \in Nat BY <4>1, <1>7
      <4> QED BY <4>1, <4>3, <4>4
    <3>2. j \in 1..Len(to(m)[t]) BY <3>1
    <3> QED BY <3>1, <3>2, <2>2, <1>7
  <2>4. list'[s][new].path = q
    <3>1. new \in 1..Len(to(m)[s]) /\ to(m)[s][new].path = q BY <1>3, <1>7, <1>9
    <3> QED BY <3>1, <2>2
  <2> QED BY <2>1, <2>3, <2>4, <1>9 DEF r, o, m
<1>10. CASE m = 0 /\ o # 0
  <2>1. list' = WithRow(to(r), O, o, Len(rows) + 1) BY <1>6, <1>10
  <2>2. o \in 1..Len(to(r)[O])
    <3>1. o \in 1..Len(list[O]) BY <1>1, <1>2, <1>10 DEF TablesSound, Sound, RowsPoint, o
    <3>2. to(r)[O] \in Seq(Entries) BY <1>1, <1>2, <1>7
    <3>3. Len(to(r)[O]) \in Nat BY <3>2
    <3> QED BY <3>1, <3>3, <1>1, <1>2, <1>7
  <2>3. OnlyRow(list', to(r), O, o, Len(rows) + 1)
    <3>1. to(r) \in [Side -> Seq(Entries)] /\ Len(rows) + 1 \in Nat BY <1>1, <1>2, <1>7
    <3> QED BY <3>1, <2>1, <2>2, <1>1, SetRow
  <2>4. \A t \in Side : \A j \in 1..Len(to(r)[t]) : list'[t][j].path = to(r)[t][j].path
    BY <2>3 DEF OnlyRow
  <2>5. \A t \in Side : \A j \in 1..Len(list[t]) : list'[t][j].path = list[t][j].path
    <3> SUFFICES ASSUME NEW t \in Side, NEW j \in 1..Len(list[t]) PROVE list'[t][j].path = list[t][j].path
      OBVIOUS
    <3>1. Len(list[t]) <= Len(to(r)[t]) /\ Len(list[t]) \in Nat /\ Len(to(r)[t]) \in Nat
      <4>1. to(r)[t] \in Seq(Entries) BY <1>2, <1>7
      <4>2. Len(to(r)[t]) \in Nat BY <4>1
      <4>3. Len(list[t]) <= Len(to(r)[t]) /\ Len(list[t]) \in Nat BY <1>2, <1>7
      <4> QED BY <4>2, <4>3
    <3>2. j \in 1..Len(to(r)[t]) BY <3>1
    <3> QED BY <3>1, <3>2, <2>4, <1>2, <1>7
  <2>6. list'[s][new].path = q
    <3>1. new \in 1..Len(to(r)[s]) /\ to(r)[s][new].path = q BY <1>2, <1>7
    <3> QED BY <3>1, <2>4
  <2> QED BY <2>5, <2>6, <1>6, <1>10 DEF r, o, m
<1>11. \/ \E row \in Nat : list' = to(row)
       \/ m # 0 /\ o = 0
       \/ m = 0 /\ o # 0
  BY <1>2, <1>3, <1>6
<1> QED BY <1>8, <1>9, <1>10, <1>11

LEMMA RenameKeeps ==
    ASSUME TablesSound, NEW s \in Side, NEW p \in Paths, NEW q \in Paths, p # q,
           map[s][p] # 0, map[s][q] = 0, RenameRow(s, p, q)
    PROVE  /\ \A x \in Paths : x # p /\ x # q => Keeps(x)
           /\ IF map[Other(s)][q] # 0
              THEN Keeps(q) /\ (map[Other(s)][p] # 0 => Keeps(p))
              ELSE \A b : Marked(p, b) => Marked(q, b)' /\ (map[Other(s)][p] # 0 => Marked(p, FALSE)')
<1> DEFINE r == list[s][map[s][p]].row
           O == Other(s)
           o == rows[r][O]
           m == Partner(s, q)
           new == Len(list[s]) + 1
           row == [rows[r] EXCEPT ![s] = 0, !.selected = FALSE]
<1>1. /\ rows \in Seq(RowsType) /\ list \in [Side -> Seq(Entries)] /\ O \in Side /\ O # s
      /\ Len(rows) \in Nat /\ new \in Nat /\ new # 0 /\ \A t \in Side : t = s \/ t = O
  <2>1. rows \in Seq(RowsType) /\ list \in [Side -> Seq(Entries)] BY TablesTypes
  <2>2. Len(list[s]) \in Nat /\ Len(rows) \in Nat BY <2>1
  <2> QED BY <2>1, <2>2, SideIs
<1>2. /\ r \in 1..Len(rows) /\ r # 0 /\ rows[r][s] # 0
      /\ Shown(list, rows, p, r)
      /\ \A x, y : Shown(list, rows, x, y) => (x = p <=> y = r)
      /\ o # 0 <=> map[O][p] # 0
  BY RowShows, <1>1
<1>3. /\ m = 0 <=> map[O][q] = 0
      /\ m # 0 => m \in 1..Len(rows) /\ m # r /\ rows[m][s] = 0
  BY PartnerIs
<1>4. /\ \A t \in Side : \A j \in 1..Len(list[t]) : list'[t][j].path = list[t][j].path
      /\ list'[s][new].path = q
      /\ IF m # 0 /\ o # 0
         THEN rows' = WithCell(WithCell(rows, m, s, new), r, s, 0)
         ELSE IF m # 0
         THEN rows' = Shifted(WithCell(rows, m, s, new), r)
         ELSE IF o # 0
         THEN rows' = Append(WithCell(WithCell(rows, r, s, new), r, O, 0), row)
         ELSE rows' = WithCell(rows, r, s, new)
  BY RenameParts
<1>5. row \in RowsType /\ row[O] = o /\ row.selected = FALSE
  <2>1. rows[r] \in RowsType BY <1>1, <1>2
  <2>2. CASE s = "L" BY <2>1, <2>2 DEF RowsType, Other
  <2>3. CASE s = "R" BY <2>1, <2>3 DEF RowsType, Other
  <2> QED BY <2>2, <2>3 DEF Side
<1> HIDE DEF r, o, m, new, row
\* What a row shows it shows under the same name.
<1>6. ASSUME NEW x, NEW y, Shown(list, rows, x, y)
      PROVE  /\ y \in 1..Len(rows) /\ y \in Nat
             /\ \A t \in Side : rows[y][t] # 0 => list'[t][rows[y][t]].path = x
  <2>0. x = PathOf(y) BY <1>6, ShownIs
  <2>1. x = PathOf(y) /\ y \in 1..Len(rows) /\ y \in DOMAIN rows BY <2>0, <1>1, <1>6 DEF Shown
  <2>2. \A t \in Side : rows[y][t] # 0 => rows[y][t] \in 1..Len(list[t]) /\ list[t][rows[y][t]].path = x
    BY <2>1, PathOfIs
  <2> QED BY <2>1, <2>2, <1>1, <1>4
<1>7. CASE m # 0
  <2> DEFINE mr == WithCell(rows, m, s, new)
  <2>1. /\ mr \in Seq(RowsType) /\ Len(mr) = Len(rows)
        /\ \A y \in 1..Len(rows), t \in Side : mr[y][t] = IF y = m /\ t = s THEN new ELSE rows[y][t]
        /\ \A y \in 1..Len(rows) : mr[y].selected = rows[y].selected
    BY <1>1, <1>3, <1>7, SetCell
  <2> HIDE DEF mr
  <2>2. CASE o # 0
    <3>1. rows' = WithCell(mr, r, s, 0) BY <1>4, <1>7, <2>2 DEF mr
    <3>2. /\ Len(rows') = Len(rows)
          /\ \A y \in 1..Len(rows), t \in Side : rows'[y][t] = IF y = r /\ t = s THEN 0 ELSE mr[y][t]
          /\ \A y \in 1..Len(rows) : rows'[y].selected = rows[y].selected
      BY <2>1, <3>1, <1>2, SetCell, 0 \in Nat
    <3>3. ASSUME NEW x PROVE Keeps(x)
      <4> SUFFICES ASSUME NEW y, Shown(list, rows, x, y) PROVE Keeps(x) BY KeepsIf
      <4>1. y \in 1..Len(rows) /\ \A t \in Side : rows[y][t] # 0 => list'[t][rows[y][t]].path = x BY <1>6
      <4>2. \E t \in Side : rows[y][t] # 0 /\ rows'[y][t] = rows[y][t]
        <5>1. PICK t \in Side : rows[y][t] # 0 BY DEF Shown
        <5>2. CASE y = r
          <6>1. rows[y][O] # 0 /\ y # m BY <5>2, <2>2, <1>3, <1>7 DEF o
          <6>2. rows'[y][O] = rows[y][O] BY <6>1, <4>1, <3>2, <2>1, <1>1
          <6> QED BY <6>1, <6>2, <1>1
        <5>3. CASE y # r
          <6>1. ~(y = m /\ t = s) BY <5>1, <1>3, <1>7
          <6>2. rows'[y][t] = rows[y][t] BY <6>1, <5>3, <4>1, <3>2, <2>1
          <6> QED BY <6>2, <5>1
        <5> QED BY <5>2, <5>3
      <4>3. PICK t \in Side : rows[y][t] # 0 /\ rows'[y][t] = rows[y][t] BY <4>2
      <4>4. /\ y \in 1..Len(rows') /\ rows'[y][t] # 0 /\ list'[t][rows'[y][t]].path = x
            /\ rows'[y].selected = rows[y].selected
        BY <4>1, <4>3, <3>2
      <4> QED BY <4>4, RowKeeps
    <3> QED BY <3>3, <1>3, <1>7
  <2>3. CASE o = 0
    <3>1. rows' = Shifted(mr, r) BY <1>4, <1>7, <2>3 DEF mr
    <3>2. ASSUME NEW x, x # p PROVE Keeps(x)
      <4> SUFFICES ASSUME NEW y, Shown(list, rows, x, y) PROVE Keeps(x) BY KeepsIf
      <4>1. y \in 1..Len(rows) /\ \A t \in Side : rows[y][t] # 0 => list'[t][rows[y][t]].path = x BY <1>6
      <4>2. r # y BY <1>2, <3>2
      <4>3. PICK t \in Side : rows[y][t] # 0 BY DEF Shown
      <4>4. mr[y][t] = rows[y][t]
        <5>1. ~(y = m /\ t = s) BY <4>3, <1>3, <1>7
        <5> QED BY <5>1, <4>1, <2>1
      <4>5. mr[y][t] # 0 /\ list'[t][mr[y][t]].path = x /\ mr[y].selected = rows[y].selected
            /\ y \in 1..Len(mr) /\ r \in 1..Len(mr)
        BY <4>1, <4>3, <4>4, <2>1, <1>2
      <4> QED BY <4>2, <4>5, <3>1, <2>1, DropKeeps
    <3>3. map[O][p] = 0 BY <1>2, <2>3
    <3> QED BY <3>2, <3>3, <1>3, <1>7
  <2> QED BY <2>2, <2>3
<1>8. CASE m = 0
  <2> DEFINE mr == WithCell(rows, r, s, new)
  <2>1. /\ mr \in Seq(RowsType) /\ Len(mr) = Len(rows)
        /\ \A y \in 1..Len(rows), t \in Side : mr[y][t] = IF y = r /\ t = s THEN new ELSE rows[y][t]
        /\ \A y \in 1..Len(rows) : mr[y].selected = rows[y].selected
    BY <1>1, <1>2, SetCell
  <2> HIDE DEF mr
  <2>2. /\ Len(rows') \in Nat /\ Len(rows) <= Len(rows')
        /\ \A y \in 1..Len(rows), t \in Side : y # r \/ t = s => rows'[y][t] = mr[y][t]
        /\ \A y \in 1..Len(rows) : rows'[y].selected = rows[y].selected
        /\ o # 0 => /\ Len(rows) + 1 \in 1..Len(rows')
                    /\ rows'[Len(rows) + 1] = row
    <3>1. CASE o # 0
      <4> DEFINE er == WithCell(mr, r, O, 0)
      <4>1. rows' = Append(er, row) BY <1>4, <1>8, <3>1 DEF mr
      <4>a. r \in 1..Len(mr) /\ O \in Side /\ 0 \in Nat /\ mr \in Seq(RowsType)
        BY <2>1, <1>1, <1>2
      <4>b. /\ er \in Seq(RowsType) /\ Len(er) = Len(mr)
            /\ \A y \in 1..Len(mr), t \in Side : er[y][t] = IF y = r /\ t = O THEN 0 ELSE mr[y][t]
            /\ \A y \in 1..Len(mr) : er[y].selected = mr[y].selected
        BY <4>a, SetCell
      <4> HIDE DEF er
      <4>2. /\ er \in Seq(RowsType) /\ Len(er) = Len(rows)
            /\ \A y \in 1..Len(rows), t \in Side : er[y][t] = IF y = r /\ t = O THEN 0 ELSE mr[y][t]
            /\ \A y \in 1..Len(rows) : er[y].selected = rows[y].selected
        BY <4>b, <2>1
      <4>3. /\ Len(rows') = Len(rows) + 1 /\ rows'[Len(rows) + 1] = row
            /\ \A y \in 1..Len(rows) : rows'[y] = er[y]
        BY <4>1, <4>2, <1>5, AppendRow
      <4>4. ASSUME NEW y \in 1..Len(rows), NEW t \in Side, y # r \/ t = s
            PROVE  rows'[y][t] = mr[y][t]
        <5>1. ~(y = r /\ t = O) BY <4>4, <1>1
        <5> QED BY <5>1, <4>2, <4>3
      <4>5. \A y \in 1..Len(rows) : rows'[y].selected = rows[y].selected BY <4>2, <4>3, <2>1
      <4>6. Len(rows') \in Nat /\ Len(rows) <= Len(rows') /\ Len(rows) + 1 \in 1..Len(rows')
        BY <4>3, <1>1
      <4> QED BY <4>3, <4>4, <4>5, <4>6
    <3>2. CASE o = 0
      <4>1. rows' = mr BY <1>4, <1>8, <3>2 DEF mr
      <4> QED BY <4>1, <2>1, <1>1, <3>2
    <3> QED BY <3>1, <3>2
  <2>3. ASSUME NEW x, x # p PROVE Keeps(x)
    <3> SUFFICES ASSUME NEW y, Shown(list, rows, x, y) PROVE Keeps(x) BY KeepsIf
    <3>1. y \in 1..Len(rows) /\ \A t \in Side : rows[y][t] # 0 => list'[t][rows[y][t]].path = x BY <1>6
    <3>2. y # r BY <1>2, <2>3
    <3>3. PICK t \in Side : rows[y][t] # 0 BY DEF Shown
    <3>4. rows'[y][t] = rows[y][t] BY <3>1, <3>2, <2>1, <2>2
    <3>5. y \in 1..Len(rows') BY <3>1, <2>2, <1>1
    <3>6. rows'[y][t] # 0 /\ list'[t][rows'[y][t]].path = x /\ rows'[y].selected = rows[y].selected
      BY <3>1, <3>3, <3>4, <2>2
    <3> QED BY <3>5, <3>6, RowKeeps
  <2>4. ASSUME NEW b, Marked(p, b) PROVE Marked(q, b)' /\ (map[O][p] # 0 => Marked(p, FALSE)')
    <3>1. PICK y \in 1..Len(rows) : Shown(list, rows, p, y) /\ rows[y].selected = b BY <2>4 DEF Marked
    <3>2. y = r BY <3>1, <1>2
    <3>3. r \in 1..Len(rows') /\ rows'[r][s] = new /\ rows'[r].selected = b
      BY <3>1, <3>2, <2>1, <2>2, <1>1, <1>2
    <3>4. Shown(list', rows', q, r) BY <3>3, <1>1, <1>4 DEF Shown
    <3>5. Marked(q, b)' BY <3>3, <3>4 DEF Marked
    <3>6. ASSUME map[O][p] # 0 PROVE Marked(p, FALSE)'
      <4>1. o # 0 BY <3>6, <1>2
      <4> DEFINE z == Len(rows) + 1
      <4>2. z \in 1..Len(rows') /\ rows'[z] = row BY <4>1, <2>2
      <4> HIDE DEF z
      <4>3. rows'[z][O] = o /\ rows'[z].selected = FALSE BY <4>2, <1>5
      <4>4. list'[O][o].path = p BY <4>1, <1>1, <1>2, <1>6 DEF o
      <4>5. Shown(list', rows', p, z) BY <4>1, <4>2, <4>3, <4>4, <1>1 DEF Shown
      <4> QED BY <4>2, <4>3, <4>5 DEF Marked
    <3> QED BY <3>5, <3>6
  <2> QED BY <2>3, <2>4, <1>3, <1>8
<1> QED BY <1>7, <1>8

-----------------------------------------------------------------------------
(* The steps                                                               *)

\* A click selects the row of a path as it selects the row of the arrays.
LEMMA SelectTable ==
    ASSUME TablesSound, NEW r \in DOMAIN rows, Select(r)
    PROVE  T!Next
<1> DEFINE takes(x) == x = r \/ (PathOf(r) \in Dirs /\ In(PathOf(x), PathOf(r)))
           drops(x) == rows[r].selected /\ In(PathOf(r), PathOf(x))
           W(x) == Row(PathOf(x), {s \in Side : rows[x][s] # 0}, rows[x].selected)
           V(x) == Row(PathOf(x), {s \in Side : rows[x][s] # 0}, rows'[x].selected)
<1>1. /\ rows' = [x \in DOMAIN rows |->
             IF takes(x) THEN [rows[x] EXCEPT !.selected = ~rows[r].selected]
             ELSE IF drops(x) THEN [rows[x] EXCEPT !.selected = FALSE] ELSE rows[x]]
      /\ list' = list
  BY DEF Select
<1>2. /\ rows \in Seq(RowsType) /\ DOMAIN rows = 1..Len(rows) /\ DOMAIN rows' = DOMAIN rows
  BY <1>1, TablesTypes
<1> HIDE DEF takes, drops
<1>3. ASSUME NEW x \in DOMAIN rows
      PROVE  /\ \A s \in Side : rows'[x][s] = rows[x][s]
             /\ rows'[x].selected = IF takes(x) THEN ~rows[r].selected
                                    ELSE IF drops(x) THEN FALSE ELSE rows[x].selected
             /\ PathOf(x)' = PathOf(x)
  <2>1. rows[x] \in RowsType BY <1>2
  <2>2. \A b : /\ \A s \in Side : [rows[x] EXCEPT !.selected = b][s] = rows[x][s]
               /\ [rows[x] EXCEPT !.selected = b].selected = b
    BY <2>1 DEF RowsType, Side
  <2>3. rows'[x] = IF takes(x) THEN [rows[x] EXCEPT !.selected = ~rows[r].selected]
                   ELSE IF drops(x) THEN [rows[x] EXCEPT !.selected = FALSE] ELSE rows[x]
    BY <1>1
  <2>4. \A s \in Side : rows'[x][s] = rows[x][s]
    <3>1. CASE takes(x) BY <3>1, <2>2, <2>3
    <3>2. CASE ~takes(x) /\ drops(x) BY <3>2, <2>2, <2>3
    <3>3. CASE ~takes(x) /\ ~drops(x) BY <3>3, <2>3
    <3> QED BY <3>1, <3>2, <3>3
  <2>5. rows'[x].selected = IF takes(x) THEN ~rows[r].selected
                            ELSE IF drops(x) THEN FALSE ELSE rows[x].selected
    <3>1. CASE takes(x) BY <3>1, <2>2, <2>3
    <3>2. CASE ~takes(x) /\ drops(x) BY <3>2, <2>2, <2>3
    <3>3. CASE ~takes(x) /\ ~drops(x) BY <3>3, <2>3
    <3> QED BY <3>1, <3>2, <3>3
  <2>6. rows'[x].L = rows[x].L /\ rows'[x].R = rows[x].R
    <3>1. rows'[x]["L"] = rows[x]["L"] /\ rows'[x]["R"] = rows[x]["R"] BY <2>4 DEF Side
    <3> QED BY <3>1
  <2>7. PathOf(x)' = PathOf(x) BY <2>6, <1>1 DEF PathOf
  <2> QED BY <2>4, <2>5, <2>7
<1>4. Table = {W(x) : x \in DOMAIN rows} BY DEF Table
<1>5. Table' = {V(x) : x \in DOMAIN rows}
  <2>1. Table' = {Row(PathOf(x)', {s \in Side : rows'[x][s] # 0}, rows'[x].selected) : x \in DOMAIN rows'}
    BY DEF Table, Row
  <2>2. \A x \in DOMAIN rows :
           Row(PathOf(x)', {s \in Side : rows'[x][s] # 0}, rows'[x].selected) = V(x)
    <3> SUFFICES ASSUME NEW x \in DOMAIN rows
                 PROVE  Row(PathOf(x)', {s \in Side : rows'[x][s] # 0}, rows'[x].selected) = V(x)
      OBVIOUS
    <3>1. {s \in Side : rows'[x][s] # 0} = {s \in Side : rows[x][s] # 0} BY <1>3
    <3> QED BY <3>1, <1>3
  <2> QED BY <2>1, <2>2, <1>2
<1> PICK row : row = W(r) OBVIOUS
<1> PICK d \in BOOLEAN : d <=> PathOf(r) \in Dirs OBVIOUS
<1>6. row \in Table /\ row.path = PathOf(r) /\ row.selected = rows[r].selected
  <2>1. row \in Table BY <1>4
  <2> QED BY <2>1, RowIs
<1> DEFINE F(w) == Toggled(w, row, d)
<1>7. ASSUME NEW x \in DOMAIN rows PROVE V(x) = F(W(x))
  <2>1. W(x) = row <=> x = r
    <3>1. x = r => W(x) = row OBVIOUS
    <3>2. ASSUME W(x) = row PROVE x = r
      <4>1. PathOf(x) = PathOf(r) BY <3>2, RowsDiffer
      <4>2. Shown(list, rows, PathOf(x), x) /\ Shown(list, rows, PathOf(r), r) BY <1>2, ShownIs
      <4> QED BY <4>1, <4>2, ShownIs
    <3> QED BY <3>1, <3>2
  <2>2. W(x).path = PathOf(x) BY RowIs
  <2>3. takes(x) <=> W(x) = row \/ (d /\ In(W(x).path, row.path)) BY <2>1, <2>2, <1>6 DEF takes
  <2>4. drops(x) <=> row.selected /\ In(row.path, W(x).path) BY <2>2, <1>6 DEF drops
  <2> DEFINE S == {s \in Side : rows[x][s] # 0}
  <2>5. \A c : [Row(PathOf(x), S, rows[x].selected) EXCEPT !.selected = c] = Row(PathOf(x), S, c)
    <3> HIDE DEF S
    <3> QED BY DEF Row
  <2>6. \A c : [W(x) EXCEPT !.selected = c] = Row(PathOf(x), S, c) BY <2>5
  <2>7. V(x) = Row(PathOf(x), S, rows'[x].selected) /\ W(x) = Row(PathOf(x), S, rows[x].selected) OBVIOUS
  <2> HIDE DEF W, V, S
  <2>8. CASE takes(x)
    <3>1. F(W(x)) = [W(x) EXCEPT !.selected = ~row.selected] BY <2>8, <2>3 DEF Toggled
    <3>2. rows'[x].selected = ~row.selected BY <2>8, <1>3, <1>6
    <3> QED BY <3>1, <3>2, <2>6, <2>7
  <2>9. CASE ~takes(x) /\ drops(x)
    <3>1. F(W(x)) = [W(x) EXCEPT !.selected = FALSE] BY <2>9, <2>3, <2>4 DEF Toggled
    <3>2. rows'[x].selected = FALSE BY <2>9, <1>3
    <3> HIDE DEF F
    <3> QED BY <3>1, <3>2, <2>6, <2>7
  <2>10. CASE ~takes(x) /\ ~drops(x)
    <3>1. F(W(x)) = W(x) BY <2>10, <2>3, <2>4 DEF Toggled
    <3>2. rows'[x].selected = rows[x].selected BY <2>10, <1>3
    <3> HIDE DEF F
    <3> QED BY <3>1, <3>2, <2>7
  <2> QED BY <2>8, <2>9, <2>10
<1>8. Table' = {F(w) : w \in Table}
  <2> HIDE DEF F, V, W
  <2>1. {F(w) : w \in Table} = {F(W(x)) : x \in DOMAIN rows} BY <1>4
  <2> QED BY <2>1, <1>5, <1>7
<1>9. T!Toggle(row)
  <2>1. d <=> row.path \in Dirs BY <1>6
  <2> QED BY <2>1, <1>8, ToggleMeans
<1> QED BY <1>6, <1>9, NextMeans

LEMMA HandleTable ==
    ASSUME Inv, TablesSound', Handle
    PROVE  T!Next \/ Table' = Table
<1> DEFINE m == Head(queue)
<1>1. m \in Messages /\ m = Posted[1] /\ 1 \in 1..Len(Posted) BY PostedIs DEF Handle, Inv
<1>2. /\ m.type \in {"ignore", "finished"} \cup RowMessages /\ m.side \in Side
      /\ m.type \in RowMessages => m.path \in Paths /\ m.to \in Paths
  BY <1>1, MessageIs
<1>3. TablesSound /\ DiskOK /\ NamesFree(map, Posted) BY DEF Inv, MessagesOK
<1>4. /\ m.type = "remove" => RemoveRow(m.side, m.path)
      /\ m.type = "transfer" => TransferRow(m.path)
      /\ m.type = "rename" => RenameRow(m.side, m.path, m.to)
      /\ m.type = "ignore" => IgnoreRows
      /\ m.type = "finished" => UNCHANGED tables
  BY DEF Handle
<1> PICK s \in Side : s = m.side BY <1>2
<1>5. CASE UNCHANGED tables
  <2>1. \A x \in Paths : Keeps(x) BY <1>3, <1>5, StutterKeeps DEF tables
  <2>2. \A x \in Paths : SidesOf(x)' = SidesOf(x) BY <1>5 DEF tables, SidesOf
  <2> QED BY <2>1, <2>2, <1>3, TableSame
<1>6. CASE m.type = "remove"
  <2> PICK p \in Paths : p = m.path BY <1>2, <1>6 DEF RowMessages
  <2>1. RemoveRow(s, p) BY <1>4, <1>6
  <2>2. CASE map[s][p] = 0
    <3>1. UNCHANGED tables BY <2>1, <2>2 DEF RemoveRow
    <3> QED BY <3>1, <1>5
  <2>3. CASE map[s][p] # 0
    <3>1. MapIs(map', map, s, {p}, {}) BY <2>1, <1>3, RemoveRowSound
    <3>2. ASSUME NEW x \in Paths, SidesOf(x)' # {} PROVE Keeps(x)
      <4>1. x # p \/ map[Other(s)][p] # 0
        <5> SUFFICES ASSUME x = p, map[Other(s)][p] = 0 PROVE FALSE OBVIOUS
        <5>1. SidesOf(p)' = SidesOf(p) \ {s} BY <3>1, SidesNext
        <5>2. SidesOf(p) = {s} BY <2>3, SideIs DEF SidesOf
        <5> QED BY <5>1, <5>2, <3>2
      <4> QED BY <4>1, <2>1, <2>3, <1>3, RemoveKeeps
    <3> QED BY <3>1, <3>2, <2>3, <1>3, RemoveTable
  <2> QED BY <2>2, <2>3
<1>7. CASE m.type = "transfer"
  <2> PICK p \in Paths : p = m.path BY <1>2, <1>7 DEF RowMessages
  <2>1. TransferRow(p) BY <1>4, <1>7
  <2>2. \A x \in Paths : Keeps(x) BY <2>1, <1>3, TransferKeeps
  <2>3. MapIs(map', map, "R", {}, {}) \/ MapIs(map', map, "R", {}, {p})
    BY <2>1, <1>3, TransferRowSound
  <2>4. CASE MapIs(map', map, "R", {}, {})
    <3>1. \A x \in Paths : SidesOf(x)' = SidesOf(x)
      <4>1. "R" \in Side BY DEF Side
      <4> QED BY <4>1, <2>4, SidesNext
    <3> QED BY <3>1, <2>2, <1>3, TableSame
  <2>5. CASE MapIs(map', map, "R", {}, {p}) /\ map["L"][p] # 0
    BY <2>5, <2>2, <1>3, AddTable
  <2>6. CASE map["L"][p] = 0
    <3>1. UNCHANGED tables BY <2>1, <2>6 DEF TransferRow
    <3> QED BY <3>1, <1>5
  <2> QED BY <2>3, <2>4, <2>5, <2>6
<1>8. CASE m.type = "rename"
  <2> PICK p \in Paths : p = m.path BY <1>2, <1>8 DEF RowMessages
  <2> PICK q \in Paths : q = m.to BY <1>2, <1>8 DEF RowMessages
  <2>1. RenameRow(s, p, q) BY <1>4, <1>8
  <2>2. p # q /\ map[s][q] = 0
    <3>1. m.path # m.to /\ FreeAt(map, Posted, 1 - 1, m.side, m.to)
      BY <1>1, <1>3, <1>8 DEF NamesFree
    <3>2. \A j \in 1..(1 - 1) : FALSE OBVIOUS
    <3> QED BY <3>1, <3>2 DEF FreeAt
  <2>3. CASE map[s][p] = 0
    <3>1. UNCHANGED tables BY <2>1, <2>3 DEF RenameRow
    <3> QED BY <3>1, <1>5
  <2>4. CASE map[s][p] # 0
    <3>1. MapIs(map', map, s, {p}, {q}) BY <2>1, <2>2, <2>4, <1>3, RenameRowSound
    <3>2. /\ \A x \in Paths : x # p /\ x # q => Keeps(x)
          /\ IF map[Other(s)][q] # 0
             THEN Keeps(q) /\ (map[Other(s)][p] # 0 => Keeps(p))
             ELSE \A b : Marked(p, b) => Marked(q, b)' /\ (map[Other(s)][p] # 0 => Marked(p, FALSE)')
      BY <2>1, <2>2, <2>4, <1>3, RenameKeeps, ZenonT(60)
    <3> QED BY <3>1, <3>2, <2>2, <2>4, <1>3, RenameTable
  <2> QED BY <2>3, <2>4
<1>9. CASE m.type = "ignore"
  <2>1. IgnoreRows BY <1>4, <1>9
  <2>2. \A x \in Paths : Keeps(x) BY <2>1, <1>3, IgnoreKeeps
  <2>3. map' = map BY <2>1, <1>3, IgnoreRowsSound
  <2>4. \A x \in Paths : SidesOf(x)' = SidesOf(x) BY <2>3 DEF SidesOf
  <2> QED BY <2>2, <2>4, <1>3, TableSame
<1>10. CASE m.type = "finished" BY <1>4, <1>5, <1>10
<1> QED BY <1>2, <1>6, <1>7, <1>8, <1>9, <1>10 DEF RowMessages

\* Every other step leaves the arrays alone.
LEMMA OtherTable ==
    ASSUME [Next]_vars
    PROVE  Handle \/ (\E r \in DOMAIN rows : Select(r)) \/ UNCHANGED tables
<1>1. CASE UNCHANGED vars BY <1>1 DEF vars
<1>2. CASE FlushBatch \/ StartCopies \/ EndCopies \/ Abort \/ Finish
  <2>1. CASE FlushBatch BY <2>1 DEF FlushBatch
  <2>2. CASE StartCopies BY <2>2 DEF StartCopies
  <2>3. CASE EndCopies BY <2>3 DEF EndCopies
  <2>4. CASE Abort BY <2>4 DEF Abort
  <2>5. CASE Finish BY <2>5 DEF Finish
  <2> QED BY <1>2, <2>1, <2>2, <2>3, <2>4, <2>5
<1>3. CASE \E s \in Side, r \in DOMAIN rows, q \in Paths : Rename(s, r, q)
  <2> PICK s \in Side, r \in DOMAIN rows, q \in Paths : Rename(s, r, q) BY <1>3
  <2>1. UNCHANGED tables BY DEF Rename
  <2> QED BY <2>1
<1>4. CASE \E rule \in Rules : Ignore(rule) BY <1>4 DEF Ignore
<1>5. CASE \/ \E R \in SUBSET DOMAIN rows : StartSync(R) \/ \E s \in Side : StartApply(s, R)
           \/ \E s \in Side : StartDelete(s)
  BY <1>5 DEF StartSync, StartApply, StartDelete, Start
<1>6. CASE \E t \in todo : DeletePath(t) BY <1>6 DEF DeletePath
<1>7. CASE \E p \in Paths : CopyPath(p) BY <1>7 DEF CopyPath
<1>8. CASE \E p \in Paths : Report(p) BY <1>8 DEF Report
<1> QED BY <1>1, <1>2, <1>3, <1>4, <1>5, <1>6, <1>7, <1>8 DEF Next

LEMMA NextTable ==
    ASSUME Inv, ReadAll, [Next]_vars, ~untold'
    PROVE  T!Next \/ Table' = Table
<1>1. TablesSound /\ TablesSound' BY NextInv DEF Inv
<1>2. CASE Handle BY <1>1, <1>2, HandleTable
<1>3. CASE \E r \in DOMAIN rows : Select(r) BY <1>1, <1>3, SelectTable
<1>4. CASE UNCHANGED tables
  <2>1. \A x \in Paths : Keeps(x) BY <1>1, <1>4, StutterKeeps DEF tables
  <2>2. \A x \in Paths : SidesOf(x)' = SidesOf(x) BY <1>4 DEF tables, SidesOf
  <2> QED BY <2>1, <2>2, <1>1, TableSame
<1> QED BY <1>2, <1>3, <1>4, OtherTable

LEMMA InitTable ==
    ASSUME Inv
    PROVE  T!Init
<1>1. TableMarks BY Marks DEF Inv
<1>2. \A v, w \in Table : v.path = w.path => v = w
  <2> SUFFICES ASSUME NEW v \in Table, NEW w \in Table, v.path = w.path PROVE v = w OBVIOUS
  <2>1. /\ Marked(v.path, v.selected) /\ v = Row(v.path, SidesOf(v.path), v.selected)
        /\ Marked(w.path, w.selected) /\ w = Row(w.path, SidesOf(w.path), w.selected)
    BY <1>1, RowsAre
  <2>2. v.selected = w.selected BY <2>1, <1>1 DEF TableMarks
  <2> QED BY <2>1, <2>2
<1> QED BY <1>2, TableMeans

\* What an untold rename changes are not the rows.
LEMMA UntoldTable ==
    ASSUME [Next]_vars, ~untold, untold'
    PROVE  Table' = Table
<1>1. UNCHANGED untold => FALSE OBVIOUS
<1>2. ~Handle BY <1>1 DEF Handle
<1>3. ~\E r \in DOMAIN rows : Select(r) BY <1>1 DEF Select
<1>4. UNCHANGED tables BY <1>2, <1>3, OtherTable
<1> QED BY <1>4 DEF Table, Row, PathOf, tables

\* When every directory was read, the arrays of rows, entries and the maps behave as one
\* table by path, until a rename goes untold: no message or click touches a path it does
\* not name (update.c).
THEOREM TableImplemented ==
    ASSUME ReadAll
    PROVE  Spec => ImplementsTable
<1>1. Init => T!Init
  <2>1. Init => Inv BY InitInv
  <2> QED BY <2>1, InitTable
<1>2. (~untold => Inv) /\ [Next]_vars => untold \/ T!Next \/ Table' = Table
  BY NextTable, UntoldTable
<1>3. (~untold => Inv) /\ [Next]_vars => [untold \/ T!Next]_Table BY <1>2
<1>4. Spec => T!Init /\ [][untold \/ T!Next]_Table BY <1>1, <1>3, TablesAlways, PTL DEF Spec
<1> QED BY <1>4 DEF ImplementsTable

-----------------------------------------------------------------------------
(***************************************************************************)
(* The groups of hard links of the source: at rest a group lists, once     *)
(* each, the paths that are there with its inode.                          *)
(*                                                                         *)
(* Cells is what the map of the source makes of a path: nothing, or what   *)
(* its entry says of its link. Every message changes it as After says, and *)
(* the messages posted so far lead from it to what is on the disk.         *)
(***************************************************************************)
LinkOf(e) == [ino |-> e.ino, linked |-> e.linked]
Cells(lst, mp) ==
    [x \in Paths |-> IF mp["L"][x] = 0 THEN {} ELSE {LinkOf(lst["L"][mp["L"][x]])}]
InodesOf(c) == [x \in Paths |-> {l.ino : l \in c[x]}]
Files(dk) == [x \in Paths |-> IF x \in DOMAIN dk["L"] THEN {dk["L"][x]} ELSE {}]

\* What message m makes of the paths of the source.
Fill(m, x) == m.type = "rename" /\ m.side = "L" /\ m.to = x
After(m, h) ==
    [x \in Paths |-> IF Vacates(m, "L", x) THEN {}
                     ELSE IF Fill(m, x) /\ h[m.path] # {} THEN h[m.path] ELSE h[x]]

\* The messages of q, one after another, lead from a to b.
Leads(h, q, a, b) ==
    /\ h[0] = a /\ h[Len(q)] = b
    /\ \A n \in 1..Len(q) : h[n] = After(q[n], h[n - 1])
Traced(q, a, b) == \E h : Leads(h, q, a, b)

\* The members of group i, and a group that lists the members M.
MembersOf(c, i) == {x \in Paths : [ino |-> i, linked |-> TRUE] \in c[x]}
GoodGroup(g, M) ==
    /\ M \subseteq Paths /\ g.hash = M /\ g.names \in Seq(M)
    /\ \A j, k \in 1..Len(g.names) : g.names[j] = g.names[k] => j = k
    /\ \A x \in M : \E k \in 1..Len(g.names) : g.names[k] = x

LinksOK ==
    /\ inode_map = [s \in Side |-> inode_map[s]]
    /\ inode_map["L"] = [i \in Inodes |-> inode_map["L"][i]]
    /\ \A i \in Inodes : GoodGroup(inode_map["L"][i], MembersOf(Cells(list, map), i))

\* No names are taken out by a pattern before there is one.
NoPattern ==
    /\ rules \in Seq(Rules)
    /\ rules = <<>> => \A k \in 1..Len(Posted) : Posted[k].type # "ignore"

TraceOK == Traced(Posted, InodesOf(Cells(list, map)), Files(disk))
GroupsInv == TraceOK /\ NoPattern /\ (rules = <<>> => LinksOK)

-----------------------------------------------------------------------------
(* Groups                                                                  *)

\* A path is taken out of its group, or is in none.
LEMMA WithoutGood ==
    ASSUME NEW g, NEW M, GoodGroup(g, M), NEW p
    PROVE  GoodGroup(WithoutLink(g, p), M \ {p})
<1> DEFINE n == Len(g.names)
           w == WithoutLink(g, p)
<1>1. /\ g.names \in Seq(M) /\ n \in Nat /\ DOMAIN g.names = 1..n
      /\ \A k \in 1..n : g.names[k] \in M
      /\ \A j, k \in 1..n : g.names[j] = g.names[k] => j = k
  BY DEF GoodGroup
<1>2. CASE p \notin M
  <2>1. w = g BY <1>1, <1>2 DEF WithoutLink
  <2>2. M \ {p} = M BY <1>2
  <2> QED BY <2>1, <2>2
<1>3. CASE p \in M
  <2>1. PICK k \in 1..n : g.names[k] = p BY <1>3 DEF GoodGroup
  <2>2. \A j \in DOMAIN g.names : g.names[j] = p <=> j = k BY <2>1, <1>1
  <2> DEFINE c == CHOOSE j \in DOMAIN g.names :
                      g.names[j] = p /\ \A i \in 1..(j - 1) : g.names[i] # p
             f == [j \in 1..(n - 1) |-> g.names[IF j < k THEN j ELSE j + 1]]
  <2>3. \A i \in 1..(k - 1) : i \in DOMAIN g.names /\ i # k BY <2>1, <1>1
  <2>4. k \in DOMAIN g.names /\ g.names[k] = p /\ \A i \in 1..(k - 1) : g.names[i] # p
    BY <2>1, <2>2, <2>3, <1>1
  <2>5. c \in DOMAIN g.names /\ g.names[c] = p BY <2>4
  <2>6. c = k BY <2>2, <2>5
  <2>7. w = [names |-> f, hash |-> Toggle(g.hash, p)] BY <2>4, <2>6 DEF WithoutLink
  <2>8. w.names = f /\ w.hash = M \ {p} BY <2>7, <1>3 DEF Toggle, GoodGroup
  <2>9. ASSUME NEW j \in 1..(n - 1)
        PROVE  /\ (IF j < k THEN j ELSE j + 1) \in 1..n
               /\ f[j] = g.names[IF j < k THEN j ELSE j + 1] /\ f[j] \in M \ {p}
    <3>1. (IF j < k THEN j ELSE j + 1) \in 1..n /\ (IF j < k THEN j ELSE j + 1) # k
      BY <1>1, <2>1
    <3> QED BY <3>1, <1>1, <2>2
  <2>10. f \in [1..(n - 1) -> M \ {p}]
    <3>1. f = [j \in 1..(n - 1) |-> f[j]] OBVIOUS
    <3> HIDE DEF f
    <3> QED BY <2>9, <3>1
  <2> HIDE DEF f, w, c
  <2>11. f \in Seq(M \ {p}) /\ Len(f) = n - 1 BY <2>10, <2>1, <1>1
  <2>12. ASSUME NEW i \in 1..(n - 1), NEW j \in 1..(n - 1), f[i] = f[j] PROVE i = j
    <3>1. (IF i < k THEN i ELSE i + 1) = (IF j < k THEN j ELSE j + 1) BY <2>9, <2>12, <1>1
    <3> QED BY <3>1, <2>1, <1>1
  <2>13. ASSUME NEW x \in M \ {p} PROVE \E j \in 1..(n - 1) : f[j] = x
    <3>1. PICK i \in 1..n : g.names[i] = x BY DEF GoodGroup
    <3>2. i # k BY <3>1, <2>1
    <3>3. CASE i < k
      <4>1. i \in 1..(n - 1) BY <3>3, <2>1, <1>1
      <4> QED BY <4>1, <3>1, <3>3, <2>9
    <3>4. CASE i > k
      <4>1. (i - 1) \in 1..(n - 1) /\ ~((i - 1) < k) /\ (i - 1) + 1 = i BY <3>4, <2>1, <1>1
      <4> QED BY <4>1, <3>1, <2>9
    <3> QED BY <3>2, <3>3, <3>4, <2>1
  <2>14. M \ {p} \subseteq Paths BY DEF GoodGroup
  <2> QED BY <2>8, <2>11, <2>12, <2>13, <2>14 DEF GoodGroup, w
<1> QED BY <1>2, <1>3

\* A member is renamed to a path that is not in the group.
LEMMA RenamedGood ==
    ASSUME NEW g, NEW M, GoodGroup(g, M), NEW p \in M, NEW q \in Paths \ M
    PROVE  GoodGroup(Renamed(g, p, q), (M \ {p}) \cup {q})
<1> DEFINE n == Len(g.names)
           w == Renamed(g, p, q)
           f == [k \in 1..n |-> IF g.names[k] = p THEN q ELSE g.names[k]]
           N == (M \ {p}) \cup {q}
           at == {k \in DOMAIN g.names : g.names[k] = p}
<1>1. /\ g.names \in Seq(M) /\ n \in Nat /\ DOMAIN g.names = 1..n /\ g.hash = M
      /\ \A k \in 1..n : g.names[k] \in M
      /\ \A j, k \in 1..n : g.names[j] = g.names[k] => j = k
  BY DEF GoodGroup
<1>2. \A k \in 1..n : (k \in at /\ \A j \in at : k <= j) <=> g.names[k] = p
  <2>1. \A k \in at : \A j \in at : j = k /\ k \in Nat BY <1>1
  <2>2. \A k \in 1..n : k \in at <=> g.names[k] = p BY <1>1
  <2> HIDE DEF at
  <2> QED BY <2>1, <2>2
<1>3. w.names = f
  <2>1. w.names = [k \in 1..n |-> IF k \in at /\ \A j \in at : k <= j THEN q ELSE g.names[k]]
    BY <1>1 DEF Renamed
  <2> HIDE DEF at
  <2> QED BY <2>1, <1>2
<1>4. w.hash = N BY <1>1 DEF Renamed, Toggle
<1>5. \A k \in 1..n : f[k] \in N /\ (f[k] = q <=> g.names[k] = p) BY <1>1
<1>6. f \in [1..n -> N]
  <2>1. f = [k \in 1..n |-> f[k]] OBVIOUS
  <2> HIDE DEF f, N
  <2> QED BY <2>1, <1>5
<1>7. f \in Seq(N) /\ Len(f) = n
  <2> HIDE DEF f, N
  <2> QED BY <1>1, <1>6
<1>8. \A j, k \in 1..n : f[j] = f[k] => j = k BY <1>1, <1>5
<1>9. ASSUME NEW x \in N PROVE \E k \in 1..n : f[k] = x
  <2>1. CASE x = q
    <3>1. PICK k \in 1..n : g.names[k] = p BY DEF GoodGroup
    <3> QED BY <2>1, <3>1
  <2>2. CASE x # q
    <3>1. PICK k \in 1..n : g.names[k] = x BY <2>2 DEF GoodGroup
    <3> QED BY <2>2, <3>1
  <2> QED BY <2>1, <2>2
<1>10. N \subseteq Paths BY DEF GoodGroup
<1> HIDE DEF f, N, w
<1> QED BY <1>3, <1>4, <1>7, <1>8, <1>9, <1>10 DEF GoodGroup, w, N

-----------------------------------------------------------------------------
(* Traces                                                                  *)

\* The message that is handled is the first of them.
LEMMA TraceTail ==
    ASSUME NEW q \in Seq(Messages), q # <<>>, NEW a, NEW b, Traced(q, a, b)
    PROVE  Traced(Tail(q), After(q[1], a), b)
<1>1. PICK h : Leads(h, q, a, b) BY DEF Traced
<1> DEFINE t == Tail(q)
           N == Len(q)
           f == [n \in 0..(N - 1) |-> h[n + 1]]
<1>2. /\ N \in Nat /\ N >= 1 /\ Len(t) = N - 1 /\ \A k \in 1..(N - 1) : t[k] = q[k + 1]
  BY TailIs
<1>3. f[0] = After(q[1], a)
  <2>1. f[0] = h[1] BY <1>2
  <2>2. h[1] = After(q[1], h[1 - 1]) BY <1>1, <1>2 DEF Leads
  <2> QED BY <2>1, <2>2, <1>1 DEF Leads
<1>4. f[N - 1] = b BY <1>1, <1>2 DEF Leads
<1>5. ASSUME NEW n \in 1..(N - 1) PROVE f[n] = After(t[n], f[n - 1])
  <2>1. f[n] = h[n + 1] /\ f[n - 1] = h[(n - 1) + 1] /\ (n - 1) + 1 = n /\ (n + 1) - 1 = n
    BY <1>2
  <2>2. h[n + 1] = After(q[n + 1], h[(n + 1) - 1]) BY <1>1, <1>2 DEF Leads
  <2> QED BY <2>1, <2>2, <1>2
<1> HIDE DEF f
<1>6. Leads(f, t, After(q[1], a), b) BY <1>2, <1>3, <1>4, <1>5 DEF Leads
<1> QED BY <1>6 DEF Traced

\* Messages are posted after the rest.
LEMMA TraceMore ==
    ASSUME NEW q \in Seq(Messages), NEW ms \in Seq(Messages), NEW a, NEW b, NEW c,
           Traced(q, a, b), Traced(ms, b, c)
    PROVE  Traced(q \o ms, a, c)
<1>1. PICK h : Leads(h, q, a, b) BY DEF Traced
<1>2. PICK k : Leads(k, ms, b, c) BY DEF Traced
<1> DEFINE w == q \o ms
           l == Len(q)
           N == Len(ms)
           f == [n \in 0..(l + N) |-> IF n <= l THEN h[n] ELSE k[n - l]]
<1>3. /\ l \in Nat /\ N \in Nat /\ Len(w) = l + N
      /\ \A n \in 1..l : w[n] = q[n]
      /\ \A n \in 1..N : w[l + n] = ms[n]
  BY BothIs
<1>4. \A n \in 0..N : f[l + n] = k[n]
  <2> SUFFICES ASSUME NEW n \in 0..N PROVE f[l + n] = k[n] OBVIOUS
  <2>1. CASE n = 0
    <3>1. f[l + n] = h[l] BY <2>1, <1>3
    <3> QED BY <3>1, <2>1, <1>1, <1>2 DEF Leads
  <2>2. CASE n # 0
    <3>1. ~(l + n <= l) /\ (l + n) - l = n /\ l + n \in 0..(l + N) BY <2>2, <1>3
    <3> QED BY <3>1
  <2> QED BY <2>1, <2>2
<1>5. \A n \in 0..l : f[n] = h[n] BY <1>3
<1> HIDE DEF f
<1>6. f[0] = a BY <1>1, <1>3, <1>5 DEF Leads
<1>7. f[l + N] = c BY <1>2, <1>3, <1>4 DEF Leads
<1>8. ASSUME NEW n \in 1..(l + N) PROVE f[n] = After(w[n], f[n - 1])
  <2>1. CASE n <= l
    <3>1. n \in 1..l /\ n \in 0..l /\ n - 1 \in 0..l BY <2>1, <1>3
    <3>2. h[n] = After(q[n], h[n - 1]) BY <3>1, <1>1 DEF Leads
    <3> QED BY <3>1, <3>2, <1>3, <1>5
  <2>2. CASE n > l
    <3> DEFINE j == n - l
    <3>1. j \in 1..N /\ j \in 0..N /\ j - 1 \in 0..N /\ l + j = n /\ l + (j - 1) = n - 1
      BY <2>2, <1>3
    <3>2. k[j] = After(ms[j], k[j - 1]) BY <3>1, <1>2 DEF Leads
    <3> HIDE DEF j
    <3>3. f[n] = k[j] /\ f[n - 1] = k[j - 1] BY <3>1, <1>4
    <3>4. w[n] = ms[j] BY <3>1, <1>3
    <3> QED BY <3>2, <3>3, <3>4
  <2> QED BY <2>1, <2>2, <1>3
<1>9. Leads(f, w, a, c) BY <1>3, <1>6, <1>7, <1>8 DEF Leads
<1> QED BY <1>9 DEF Traced, w

\* Messages that are not about a path of the source change nothing of it.
LEMMA TraceSame ==
    ASSUME NEW ms \in Seq(Messages), NEW F, NEW a, a = [x \in Paths |-> F[x]],
           \A k \in 1..Len(ms) : ms[k].side = "L" => ms[k].type \notin {"remove", "rename"}
    PROVE  Traced(ms, a, a)
<1> DEFINE h == [n \in 0..Len(ms) |-> a]
<1>1. Len(ms) \in Nat OBVIOUS
<1>2. \A m : (m.side = "L" => m.type \notin {"remove", "rename"}) => After(m, a) = a
  BY DEF After, Vacates, Fill
<1>3. \A n \in 1..Len(ms) : n \in 0..Len(ms) /\ n - 1 \in 0..Len(ms) BY <1>1
<1>4. Leads(h, ms, a, a) BY <1>1, <1>2, <1>3 DEF Leads
<1> QED BY <1>4 DEF Traced

\* What is removed.
LEMMA TraceRemovals ==
    ASSUME NEW s \in Side, NEW p, NEW gone, gone \subseteq Paths, NEW dk,
           dk["L"] = [x \in DOMAIN disk["L"] \ (IF s = "L" THEN gone ELSE {}) |-> disk["L"][x]]
    PROVE  Traced(Removals(s, p, gone), Files(disk), Files(dk))
<1> DEFINE ms == Removals(s, p, gone)
           N == Len(ms)
           D == gone
           a == Files(disk)
           b == Files(dk)
<1>1. /\ ms \in Seq(Messages) /\ N \in Nat
      /\ \A k \in 1..N : ms[k].type = "remove" /\ ms[k].side = s /\ ms[k].path \in D
      /\ \A c \in D : \E k \in 1..N : ms[k].path = c
  BY RemovalsAre
<1>2. \A x \in Paths : b[x] = IF s = "L" /\ x \in D THEN {} ELSE a[x]
  BY DEF Files
<1>3. a = [x \in Paths |-> a[x]] /\ b = [x \in Paths |-> b[x]] BY DEF Files
<1> HIDE DEF ms, D, a, b
<1>4. CASE s = "L"
  <2> DEFINE out(n) == {x \in Paths : \E j \in 1..n : ms[j].path = x}
             h == [n \in 0..N |-> [x \in Paths |-> IF x \in out(n) THEN {} ELSE a[x]]]
  <2>1. h[0] = a
    <3>1. \A j \in 1..0 : FALSE OBVIOUS
    <3>2. 0 \in 0..N BY <1>1
    <3>3. out(0) = {} BY <3>1
    <3> HIDE DEF out
    <3>4. h[0] = [x \in Paths |-> a[x]] BY <3>2, <3>3
    <3> QED BY <3>4, <1>3
  <2>2. h[N] = b
    <3>1. \A x \in Paths : x \in out(N) <=> x \in D BY <1>1
    <3>2. N \in 0..N BY <1>1
    <3> HIDE DEF out
    <3>3. h[N] = [x \in Paths |-> IF x \in out(N) THEN {} ELSE a[x]] BY <3>2
    <3>4. \A x \in Paths : (IF x \in out(N) THEN {} ELSE a[x]) = b[x] BY <3>1, <1>2, <1>4
    <3> QED BY <3>3, <3>4, <1>3
  <2>3. ASSUME NEW n \in 1..N PROVE h[n] = After(ms[n], h[n - 1])
    <3>1. n \in 0..N /\ n - 1 \in 0..N BY <1>1
    <3>2. \A x \in Paths : x \in out(n) <=> x \in out(n - 1) \/ ms[n].path = x
      <4>1. \A j \in 1..n : j \in 1..(n - 1) \/ j = n OBVIOUS
      <4>2. n \in 1..n /\ \A j \in 1..(n - 1) : j \in 1..n OBVIOUS
      <4> QED BY <4>1, <4>2
    <3>3. \A x \in Paths : /\ Vacates(ms[n], "L", x) <=> ms[n].path = x
                           /\ ~Fill(ms[n], x)
      BY <1>1, <1>4 DEF Vacates, Fill
    <3> HIDE DEF out
    <3>4. h[n] = [x \in Paths |-> IF x \in out(n) THEN {} ELSE a[x]] BY <3>1
    <3>5. \A x \in Paths : h[n - 1][x] = IF x \in out(n - 1) THEN {} ELSE a[x] BY <3>1
    <3> HIDE DEF h
    <3>6. \A x \in Paths : (IF x \in out(n) THEN {} ELSE a[x])
                           = IF Vacates(ms[n], "L", x) THEN {} ELSE h[n - 1][x]
      BY <3>2, <3>3, <3>5
    <3>7. After(ms[n], h[n - 1]) = [x \in Paths |-> IF Vacates(ms[n], "L", x) THEN {} ELSE h[n - 1][x]]
      BY <3>3 DEF After
    <3> QED BY <3>4, <3>6, <3>7
  <2> HIDE DEF h
  <2>4. Leads(h, ms, a, b) BY <2>1, <2>2, <2>3 DEF Leads
  <2> QED BY <2>4 DEF Traced, ms, a, b
<1>5. CASE s # "L"
  <2>1. b = a BY <1>2, <1>3, <1>5
  <2>2. Traced(ms, a, a) BY <1>1, <1>3, <1>5, TraceSame
  <2> QED BY <2>1, <2>2 DEF ms, a, b
<1> QED BY <1>4, <1>5

\* What a rename posts, the children first.
LEMMA TraceRename ==
    ASSUME DiskOK, NEW s \in Side, NEW p, NEW q, MayRename(s, p, q), disk' = RenamedTo(s, p, q)
    PROVE  Traced(Renamings(s, p, q, Below(s, p)), Files(disk), Files(disk'))
<1> DEFINE ms == Renamings(s, p, q, Below(s, p))
           N == Len(ms)
           W == Tree(s, p)
           a == Files(disk)
           b == Files(disk')
<1>1. /\ ms \in Seq(Messages) /\ N \in Nat
      /\ \A k \in 1..N : /\ ms[k].type = "rename" /\ ms[k].side = s
                         /\ ms[k].path \in W /\ ms[k].to = Place(ms[k].path, p, q)
      /\ \A j, k \in 1..N : ms[j].path = ms[k].path => j = k
      /\ \A c \in W : \E k \in 1..N : ms[k].path = c
  BY RenamesAre
<1>2. /\ \A c \in W : /\ c \in DOMAIN disk[s] /\ c \in Paths
                      /\ Place(c, p, q) \in Paths \ DOMAIN disk[s]
                      /\ Place(c, p, q) = q \/ In(Place(c, p, q), q)
                      /\ Place(Place(c, p, q), q, p) = c
      /\ q \in Paths \ DOMAIN disk[s]
  BY TreeIs DEF MayRename
<1>3. a = [x \in Paths |-> a[x]] /\ b = [x \in Paths |-> b[x]] BY DEF Files
<1>4. CASE s = "L"
  <2>1. disk'["L"] = [x \in (DOMAIN disk["L"] \ W) \cup {Place(c, p, q) : c \in W} |->
            IF x = q \/ In(x, q) THEN disk["L"][Place(x, q, p)] ELSE disk["L"][x]]
    <3>1. disk = [t \in Side |-> disk[t]] BY DEF DiskOK
    <3> QED BY <3>1, <1>4 DEF RenamedTo, Side
  <2>2. \A x \in DOMAIN disk["L"] : ~(x = q \/ In(x, q))
    <3> SUFFICES ASSUME NEW x \in DOMAIN disk["L"], x = q \/ In(x, q) PROVE FALSE OBVIOUS
    <3>1. x \in Seq(STRING) BY <1>4, PathsAre DEF DiskOK
    <3> QED BY <3>1, <1>2, <1>4, NotThere
  <2>3. \A c \in W : b[Place(c, p, q)] = {disk["L"][c]} /\ a[c] = {disk["L"][c]}
                     /\ a[Place(c, p, q)] = {}
    <3> HIDE DEF W
    <3> QED BY <2>1, <1>2, <1>4 DEF Files
  <2>4. \A c \in W : b[c] = {}
    <3> SUFFICES ASSUME NEW c \in W PROVE b[c] = {} OBVIOUS
    <3>1. c \notin {Place(d, p, q) : d \in W} BY <1>2, <1>4
    <3> HIDE DEF W
    <3> QED BY <3>1, <2>1, <1>2, <1>4 DEF Files
  <2>5. ASSUME NEW x \in Paths, x \notin W, \A c \in W : Place(c, p, q) # x PROVE b[x] = a[x]
    <3> HIDE DEF W
    <3>1. x \in DOMAIN disk'["L"] <=> x \in DOMAIN disk["L"] BY <2>1, <2>5
    <3>2. x \in DOMAIN disk["L"] => disk'["L"][x] = disk["L"][x] BY <2>1, <2>2, <2>5
    <3> QED BY <3>1, <3>2 DEF Files
  <2> DEFINE left(n) == {x \in Paths : \E j \in 1..n : ms[j].path = x}
             came(n) == {x \in Paths : \E j \in 1..n : ms[j].to = x}
             val(n, x) == IF x \in left(n) THEN {}
                          ELSE IF x \in came(n) THEN a[Place(x, q, p)] ELSE a[x]
             h == [n \in 0..N |-> [x \in Paths |-> val(n, x)]]
  <2> HIDE DEF W, a, b, ms
  <2>6. h[0] = a
    <3>1. \A j \in 1..0 : FALSE OBVIOUS
    <3>2. left(0) = {} /\ came(0) = {} BY <3>1
    <3>3. 0 \in 0..N BY <1>1
    <3>4. \A x \in Paths : val(0, x) = a[x] BY <3>2
    <3> HIDE DEF val
    <3>5. h[0] = [x \in Paths |-> val(0, x)] BY <3>3
    <3> QED BY <3>4, <3>5, <1>3
  <2>7. \A x \in Paths : x \in left(N) <=> x \in W BY <1>1
  <2>8. \A x \in Paths : x \in came(N) <=> \E c \in W : Place(c, p, q) = x BY <1>1
  <2>9. h[N] = b
    <3>1. N \in 0..N BY <1>1
    <3>2. ASSUME NEW x \in Paths PROVE val(N, x) = b[x]
      <4> HIDE DEF left, came
      <4>1. CASE x \in W BY <4>1, <2>4, <2>7
      <4>2. CASE x \notin W /\ \E c \in W : Place(c, p, q) = x
        <5>1. PICK c \in W : Place(c, p, q) = x BY <4>2
        <5>2. Place(x, q, p) = c BY <5>1, <1>2
        <5>3. val(N, x) = a[c] BY <4>2, <5>2, <2>7, <2>8
        <5> QED BY <5>1, <5>3, <2>3
      <4>3. CASE x \notin W /\ \A c \in W : Place(c, p, q) # x
        BY <4>3, <2>5, <2>7, <2>8
      <4> QED BY <4>1, <4>2, <4>3
    <3> HIDE DEF val
    <3>3. h[N] = [x \in Paths |-> val(N, x)] BY <3>1
    <3> QED BY <3>2, <3>3, <1>3
  <2>10. ASSUME NEW n \in 1..N PROVE h[n] = After(ms[n], h[n - 1])
    <3> DEFINE c == ms[n].path
               y == ms[n].to
               g == h[n - 1]
    <3>1. n \in 0..N /\ n - 1 \in 0..N BY <1>1
    <3>2. c \in W /\ c \in Paths /\ y = Place(c, p, q) /\ y \in Paths /\ y \notin W
          /\ Place(y, q, p) = c
      BY <1>1, <1>2, <1>4
    <3>3. \A x \in Paths : /\ x \in left(n) <=> x \in left(n - 1) \/ x = c
                           /\ x \in came(n) <=> x \in came(n - 1) \/ x = y
      <4>1. \A j \in 1..n : j \in 1..(n - 1) \/ j = n OBVIOUS
      <4>2. n \in 1..n /\ \A j \in 1..(n - 1) : j \in 1..n OBVIOUS
      <4> QED BY <4>1, <4>2
    <3>4. c \notin left(n - 1) /\ c \notin came(n - 1)
      <4>1. \A j \in 1..(n - 1) : j \in 1..N /\ j # n BY <1>1
      <4>2. \A j \in 1..(n - 1) : ms[j].path # c BY <4>1, <1>1
      <4>3. \A j \in 1..(n - 1) : ms[j].to # c BY <4>1, <3>2, <1>1, <1>2
      <4> QED BY <4>2, <4>3
    <3>5. y \notin left(n) /\ \A j \in 1..N : ms[j].path # y BY <1>1, <3>2
    <3>6. \A x \in Paths : /\ Vacates(ms[n], "L", x) <=> x = c
                           /\ Fill(ms[n], x) <=> x = y
      BY <1>1, <1>4 DEF Vacates, Fill
    <3> HIDE DEF left, came
    <3>7. g[c] = a[c] /\ a[c] # {}
      <4>1. g[c] = val(n - 1, c) BY <3>1, <3>2
      <4>2. a[c] # {}
        <5> HIDE DEF c
        <5>1. a[c] = {disk["L"][c]} BY <3>2, <2>3
        <5> QED BY <5>1
      <4> QED BY <4>1, <4>2, <3>4
    <3>8. \A x \in Paths : g[x] = val(n - 1, x) BY <3>1
    <3>9. h[n] = [x \in Paths |-> val(n, x)] BY <3>1
    <3> HIDE DEF h, g
    <3>10. ASSUME NEW x \in Paths
           PROVE  val(n, x) = IF Vacates(ms[n], "L", x) THEN {}
                              ELSE IF Fill(ms[n], x) /\ g[c] # {} THEN g[c] ELSE g[x]
      <4> HIDE DEF c, y
      <4>1. CASE x = c
        <5>1. x \in left(n) /\ Vacates(ms[n], "L", x) BY <4>1, <3>3, <3>6
        <5> QED BY <5>1
      <4>2. CASE x = y
        <5>1. x \notin left(n) /\ x \in came(n) /\ x # c BY <4>2, <3>2, <3>3, <3>5
        <5>2. val(n, x) = a[c] BY <5>1, <4>2, <3>2
        <5>3. ~Vacates(ms[n], "L", x) /\ Fill(ms[n], x) BY <4>2, <5>1, <3>6
        <5> QED BY <5>2, <5>3, <3>7
      <4>3. CASE x # c /\ x # y
        <5>1. ~Vacates(ms[n], "L", x) /\ ~Fill(ms[n], x) BY <4>3, <3>6
        <5>2. val(n, x) = val(n - 1, x) BY <4>3, <3>3
        <5> QED BY <5>1, <5>2, <3>8
      <4> QED BY <4>1, <4>2, <4>3
    <3> HIDE DEF val
    <3> QED BY <3>9, <3>10 DEF After, g
  <2> HIDE DEF h
  <2>11. Leads(h, ms, a, b) BY <2>6, <2>9, <2>10 DEF Leads
  <2> QED BY <2>11 DEF Traced, ms, a, b
<1>5. CASE s # "L"
  <2>1. disk'["L"] = disk["L"]
    <3>1. disk = [t \in Side |-> disk[t]] BY DEF DiskOK
    <3> QED BY <3>1, <1>5 DEF RenamedTo, Side
  <2>2. b = a BY <2>1 DEF Files
  <2> HIDE DEF ms, a, b
  <2>3. Traced(ms, a, a) BY <1>1, <1>3, <1>5, TraceSame
  <2> QED BY <2>2, <2>3 DEF ms, a, b
<1> QED BY <1>4, <1>5

-----------------------------------------------------------------------------
(* What a message makes of the entries and the groups of the source        *)

\* Entries are moved to other rows, renamed and added; what they say of their links stays.
Kept(new, old) ==
    /\ new \in [Side -> Seq(Entries)]
    /\ \A j \in 1..Len(old["L"]) :
          j \in 1..Len(new["L"]) /\ LinkOf(new["L"][j]) = LinkOf(old["L"][j])

LEMMA KeptSame ==
    ASSUME NEW lst \in [Side -> Seq(Entries)]
    PROVE  Kept(lst, lst)
BY DEF Kept

LEMMA KeptTwice ==
    ASSUME NEW a, NEW b, NEW c, Kept(b, a), Kept(c, b)
    PROVE  Kept(c, a)
BY DEF Kept

LEMMA KeptRow ==
    ASSUME NEW lst \in [Side -> Seq(Entries)], NEW s \in Side, NEW i \in 1..Len(lst[s]), NEW n \in Nat
    PROVE  Kept(WithRow(lst, s, i, n), lst)
<1> DEFINE new == WithRow(lst, s, i, n)
           e == [lst[s][i] EXCEPT !.row = n]
<1>1. OnlyRow(new, lst, s, i, n) BY SetRow
<1>2. new = [lst EXCEPT ![s] = [lst[s] EXCEPT ![i] = e]] BY DEF WithRow
<1>3. LinkOf(e) = LinkOf(lst[s][i])
  <2>1. lst[s] \in Seq(Entries) BY DEF Side
  <2>2. lst[s][i] \in Entries BY <2>1
  <2> QED BY <2>2 DEF LinkOf, Entries
<1> HIDE DEF e, new
<1>4. ASSUME NEW j \in 1..Len(lst["L"]) PROVE LinkOf(new["L"][j]) = LinkOf(lst["L"][j])
  <2>1. CASE s = "L"
    <3>1. lst["L"] \in Seq(Entries) /\ new["L"] = [lst["L"] EXCEPT ![i] = e] BY <2>1, <1>2 DEF Side
    <3>2. new["L"][j] = IF j = i THEN e ELSE lst["L"][j] BY <3>1
    <3> QED BY <3>2, <2>1, <1>3
  <2>2. CASE s # "L" BY <2>2, <1>2 DEF Side
  <2> QED BY <2>1, <2>2
<1>5. "L" \in Side BY DEF Side
<1> QED BY <1>1, <1>4, <1>5 DEF Kept, OnlyRow, new

LEMMA KeptEntry ==
    ASSUME NEW lst \in [Side -> Seq(Entries)], NEW s \in Side, NEW e \in Entries
    PROVE  Kept(WithEntry(lst, s, e), lst)
<1> DEFINE new == WithEntry(lst, s, e)
<1>1. OneMore(new, lst, s, e) BY AppendEntry
<1>2. "L" \in Side /\ lst["L"] \in Seq(Entries) /\ Len(lst["L"]) \in Nat BY DEF Side
<1> HIDE DEF new
<1>3. \A j \in 1..Len(lst["L"]) : new["L"][j] = lst["L"][j] BY <1>1, <1>2 DEF OneMore
<1>4. \A j \in 1..Len(lst["L"]) : j \in 1..Len(new["L"]) BY <1>1, <1>2 DEF OneMore
<1> QED BY <1>1, <1>3, <1>4 DEF Kept, OneMore, new

LEMMA KeptFollowing ==
    ASSUME NEW lst \in [Side -> Seq(Entries)], NEW rws, NEW r,
           NEW new \in [Side -> Seq(Entries)],
           new["L"] = Following(lst["L"], "L", rws, r)
    PROVE  Kept(new, lst)
<1>1. lst["L"] \in Seq(Entries) BY DEF Side
<1>2. DOMAIN lst["L"] = 1..Len(lst["L"]) /\ \A i \in 1..Len(lst["L"]) : lst["L"][i] \in Entries
  BY <1>1
<1>3. \A e \in Entries : \A n : LinkOf([e EXCEPT !.row = n]) = LinkOf(e) BY DEF Entries, LinkOf
<1>4. \A i \in 1..Len(lst["L"]) :
         LinkOf(Following(lst["L"], "L", rws, r)[i]) = LinkOf(lst["L"][i])
  BY <1>2, <1>3 DEF Following
<1>5. DOMAIN new["L"] = 1..Len(lst["L"]) BY <1>2 DEF Following
<1>6. new["L"] \in Seq(Entries) BY DEF Side
<1>7. DOMAIN new["L"] = 1..Len(new["L"]) BY <1>6
<1> QED BY <1>4, <1>5, <1>7 DEF Kept

\* A row is dropped, once an entry of it was taken out of it.
LEMMA KeptDrop ==
    ASSUME NEW lst \in [Side -> Seq(Entries)], NEW rws, NEW r, DropRow(lst, rws, r), TablesSound'
    PROVE  Kept(list', lst)
<1>1. list' = [s \in Side |-> Following(lst[s], s, Shifted(rws, r), r)] BY DEF DropRow
<1>2. list'["L"] = Following(lst["L"], "L", Shifted(rws, r), r) BY <1>1 DEF Side
<1>3. list' \in [Side -> Seq(Entries)] BY DEF TablesSound, Sound, ArraysOK
<1> QED BY <1>2, <1>3, KeptFollowing

\* Group tables are changed on one side, and for one inode.
OnlyGroup(s, i, g) ==
    IF i \in Inodes THEN inode_map' = [inode_map EXCEPT ![s][i] = g] ELSE inode_map' = inode_map

LEMMA RemoveLinks ==
    ASSUME TablesSound, NEW s \in Side, NEW p \in Paths, RemoveRow(s, p)
    PROVE  /\ Kept(list', list) /\ map' = [map EXCEPT ![s][p] = 0]
           /\ LET e == list[s][map[s][p]]
              IN  IF map[s][p] = 0 THEN inode_map' = inode_map
                  ELSE OnlyGroup(s, e.ino, WithoutLink(inode_map[s][e.ino], p))
<1> DEFINE i == map[s][p]
           r == list[s][i].row
           lists == WithRow(list, s, i, 0)
<1>1. /\ map \in [Side -> [Paths -> Nat]] /\ rows \in Seq(RowsType) /\ list \in [Side -> Seq(Entries)]
  BY TablesTypes
<1>2. CASE i = 0
  <2>1. UNCHANGED tables BY <1>2 DEF RemoveRow
  <2>2. map = [map EXCEPT ![s][p] = 0] BY <1>1, <1>2
  <2> QED BY <2>1, <2>2, <1>1, <1>2, KeptSame DEF tables
<1>3. CASE i # 0
  <2>1. i \in 1..Len(list[s]) /\ list[s][i].path = p /\ r \in 1..Len(rows) /\ r # 0
    <3>1. i \in 1..Len(list[s]) /\ list[s][i].path = p /\ r \in 1..Len(rows)
      BY <1>3, RowOf DEF TablesSound
    <3> QED BY <3>1, <1>1
  <2>2. /\ map' = [map EXCEPT ![s][p] = 0]
        /\ inode_map' = Unlinked(s, list[s][i])
        /\ IF rows[r][Other(s)] = 0 THEN DropRow(lists, rows, r) ELSE list' = lists
    BY <1>3, <2>1 DEF RemoveRow, WithRow
  <2>3. TablesSound' BY RemoveRowSound
  <2>4. OnlyGroup(s, list[s][i].ino, WithoutLink(inode_map[s][list[s][i].ino], p))
    BY <2>1, <2>2 DEF OnlyGroup, Unlinked, Group
  <2> HIDE DEF r
  <2>5. Kept(lists, list)
    <3> HIDE DEF i
    <3>1. 0 \in Nat OBVIOUS
    <3> QED BY <3>1, <2>1, <1>1, KeptRow
  <2>6. lists \in [Side -> Seq(Entries)] BY <2>5 DEF Kept
  <2> HIDE DEF lists
  <2>7. Kept(list', lists) BY <2>2, <2>3, <2>6, KeptDrop, KeptSame
  <2>8. Kept(list', list) BY <2>5, <2>7, KeptTwice
  <2> QED BY <1>3, <2>2, <2>4, <2>8
<1> QED BY <1>2, <1>3

LEMMA TransferKept ==
    ASSUME TablesSound, DiskOK, NEW p \in Paths, TransferRow(p)
    PROVE  Kept(list', list) /\ map'["L"] = map["L"]
<1>1. /\ map \in [Side -> [Paths -> Nat]] /\ list \in [Side -> Seq(Entries)]
      /\ "L" \in Side /\ "R" \in Side
  BY TablesTypes DEF Side
<1>2. list' \in [Side -> Seq(Entries)]
  <2>1. TablesSound' BY TransferRowSound
  <2> QED BY <2>1 DEF TablesSound, Sound, ArraysOK
<1>3. /\ list' = list \/ \E f : list' = [list EXCEPT !["R"] = f]
      /\ map' = map \/ \E f : map' = [map EXCEPT !["R"] = f]
  BY DEF TransferRow, tables
<1>4. list'["L"] = list["L"] /\ map'["L"] = map["L"] BY <1>1, <1>3
<1> QED BY <1>2, <1>4, <1>1 DEF Kept

LEMMA TransferLinks ==
    ASSUME NEW p \in Paths, TransferRow(p), inode_map = [s \in Side |-> inode_map[s]]
    PROVE  inode_map' = [s \in Side |-> inode_map'[s]] /\ inode_map'["L"] = inode_map["L"]
<1>1. "L" \in Side BY DEF Side
<1>2. \/ inode_map' = inode_map \/ \E f : inode_map' = [inode_map EXCEPT !["R"] = f]
      \/ \E f, g : inode_map' = [[inode_map EXCEPT !["R"] = f] EXCEPT !["R"] = g]
  BY DEF TransferRow, Unlinked, Group, tables
<1> QED BY <1>1, <1>2

LEMMA RenameLinks ==
    ASSUME TablesSound, NEW s \in Side, NEW p \in Paths, NEW q \in Paths, p # q,
           map[s][q] = 0, map[s][p] # 0, RenameRow(s, p, q)
    PROVE  LET e == list[s][map[s][p]]
               new == Len(list[s]) + 1
           IN  /\ Kept(list', list)
               /\ map' = [map EXCEPT ![s][p] = 0, ![s][q] = new]
               /\ s = "L" => LinkOf(list'["L"][new]) = LinkOf(e)
               /\ IF e.linked /\ inode_map[s][e.ino].names # <<>>
                  THEN OnlyGroup(s, e.ino, Renamed(inode_map[s][e.ino], p, q))
                  ELSE inode_map' = inode_map
<1> DEFINE i == map[s][p]
           r == list[s][i].row
           O == Other(s)
           o == rows[r][O]
           m == Partner(s, q)
           new == Len(list[s]) + 1
           nl == WithRow(list, s, i, 0)
           e(row) == [list[s][i] EXCEPT !.path = q, !.ignored = Matched(q), !.row = row]
           to(row) == WithEntry(nl, s, e(row))
<1>1. /\ map \in [Side -> [Paths -> Nat]] /\ rows \in Seq(RowsType) /\ list \in [Side -> Seq(Entries)]
      /\ O \in Side /\ O # s /\ Len(rows) \in Nat
  <2>1. rows \in Seq(RowsType) BY TablesTypes
  <2> QED BY <2>1, TablesTypes, SideIs
<1>2. i \in 1..Len(list[s]) /\ r \in 1..Len(rows) /\ r # 0 /\ r \in Nat
  <2>1. i \in 1..Len(list[s]) /\ r \in 1..Len(rows) /\ r # 0 BY RowShows
  <2> HIDE DEF r, i
  <2> QED BY <2>1, <1>1
<1>3. m # 0 => m \in Nat
  <2>1. m # 0 => m \in 1..Len(rows) BY PartnerIs
  <2> HIDE DEF m
  <2> QED BY <2>1, <1>1
<1>4. list[s][i] \in Entries
  <2>1. list[s] \in Seq(Entries) BY <1>1
  <2> HIDE DEF i
  <2> QED BY <2>1, <1>2
<1>5. \A row \in Nat : e(row) \in Entries /\ LinkOf(e(row)) = LinkOf(list[s][i])
  <2>1. Matched(q) \in BOOLEAN BY DEF Matched
  <2> HIDE DEF i
  <2> QED BY <1>4, <2>1 DEF Entries, LinkOf
<1>6. \/ list' = to(m) /\ m # 0
      \/ DropRow(to(m), WithCell(rows, m, s, new), r) /\ m # 0
      \/ o # 0 /\ list' = WithRow(to(r), O, o, Len(rows) + 1)
      \/ list' = to(r)
  <2>1. \A row : to(row) = [list EXCEPT ![s] = Append([list[s] EXCEPT ![i].row = 0], e(row))]
    BY <1>1 DEF WithEntry, WithRow
  <2> HIDE DEF to, e, nl
  <2> QED BY <1>2, <2>1 DEF RenameRow, WithCell, WithRow, e
<1>7. map' = [map EXCEPT ![s][p] = 0, ![s][q] = new]
  BY <1>2 DEF RenameRow
<1>8. IF list[s][i].linked /\ inode_map[s][list[s][i].ino].names # <<>>
      THEN OnlyGroup(s, list[s][i].ino, Renamed(inode_map[s][list[s][i].ino], p, q))
      ELSE inode_map' = inode_map
  BY <1>2 DEF RenameRow, OnlyGroup, Group
<1>9. TablesSound' BY RenameRowSound
<1> HIDE DEF e, m, o
<1>10. ASSUME NEW row \in Nat
       PROVE  /\ Kept(to(row), list) /\ to(row) \in [Side -> Seq(Entries)]
              /\ s = "L" => /\ new \in 1..Len(to(row)["L"])
                            /\ LinkOf(to(row)["L"][new]) = LinkOf(list[s][i])
  <2> HIDE DEF i
  <2>0. 0 \in Nat OBVIOUS
  <2>1. Kept(nl, list) /\ nl \in [Side -> Seq(Entries)]
    <3>1. Kept(nl, list) BY <2>0, <1>1, <1>2, KeptRow
    <3> HIDE DEF nl
    <3> QED BY <3>1 DEF Kept
  <2>2. Len(nl[s]) = Len(list[s]) /\ Len(nl[s]) \in Nat
    <3>1. OnlyRow(nl, list, s, i, 0) BY <2>0, <1>1, <1>2, SetRow, Zenon
    <3>2. nl[s] \in Seq(Entries) BY <2>1
    <3> QED BY <3>1, <3>2 DEF OnlyRow
  <2> HIDE DEF nl
  <2>3. e(row) \in Entries BY <1>5
  <2>4. Kept(to(row), nl) BY <2>1, <2>3, KeptEntry
  <2>5. OneMore(to(row), nl, s, e(row)) BY <2>1, <2>3, AppendEntry
  <2> HIDE DEF to
  <2>6. Kept(to(row), list) BY <2>1, <2>4, KeptTwice
  <2>7. Len(to(row)[s]) = new /\ to(row)[s][new] = e(row) BY <2>2, <2>5 DEF OneMore
  <2>8. new \in 1..Len(to(row)[s]) BY <2>2, <2>7
  <2> QED BY <2>6, <2>7, <2>8, <1>5 DEF Kept
<1> HIDE DEF to
<1>11. \E row \in Nat : Kept(list', to(row))
  <2>1. CASE list' = to(m) /\ m # 0
    <3>1. m \in Nat BY <2>1, <1>3
    <3>2. Kept(to(m), to(m)) BY <3>1, <1>10, KeptSame
    <3> QED BY <3>1, <3>2, <2>1
  <2>2. CASE DropRow(to(m), WithCell(rows, m, s, new), r) /\ m # 0
    <3>1. m \in Nat BY <2>2, <1>3
    <3>2. Kept(list', to(m)) BY <3>1, <2>2, <1>9, <1>10, KeptDrop
    <3> QED BY <3>1, <3>2
  <2>3. CASE o # 0 /\ list' = WithRow(to(r), O, o, Len(rows) + 1)
    <3>1. o \in 1..Len(list[O]) BY <1>1, <1>2, <2>3 DEF TablesSound, Sound, RowsPoint, o
    <3>2. to(r) \in [Side -> Seq(Entries)] BY <1>2, <1>10
    <3>3. Len(to(r)[O]) = Len(list[O])
      <4> HIDE DEF i
      <4>0. 0 \in Nat OBVIOUS
      <4>1. OnlyRow(nl, list, s, i, 0) BY <4>0, <1>1, <1>2, SetRow, Zenon
      <4>2. nl \in [Side -> Seq(Entries)] /\ Len(nl[O]) = Len(list[O]) BY <4>1, <1>1 DEF OnlyRow
      <4> HIDE DEF nl
      <4>3. e(r) \in Entries BY <1>2, <1>5
      <4>4. OneMore(to(r), nl, s, e(r)) BY <4>2, <4>3, AppendEntry DEF to
      <4> QED BY <4>2, <4>4, <1>1 DEF OneMore
    <3>4. o \in 1..Len(to(r)[O]) /\ Len(rows) + 1 \in Nat BY <3>1, <3>3, <1>1
    <3>5. Kept(list', to(r)) BY <2>3, <3>2, <3>4, <1>1, KeptRow
    <3> QED BY <3>5, <1>2
  <2>4. CASE list' = to(r)
    <3>1. Kept(to(r), to(r)) BY <1>2, <1>10, KeptSame
    <3> QED BY <3>1, <2>4, <1>2
  <2> QED BY <2>1, <2>2, <2>3, <2>4, <1>6
<1>12. PICK row \in Nat : Kept(list', to(row)) BY <1>11
<1>13. Kept(list', list) BY <1>10, <1>12, KeptTwice
<1>14. s = "L" => LinkOf(list'["L"][new]) = LinkOf(list[s][i]) BY <1>10, <1>12 DEF Kept
<1> QED BY <1>7, <1>8, <1>13, <1>14

LEMMA IgnoreLinks ==
    ASSUME TablesSound, IgnoreRows
    PROVE  Kept(list', list) /\ map' = map
<1>1. list \in [Side -> Seq(Entries)] BY TablesTypes
<1>2. list' \in [Side -> Seq(Entries)]
  <2>1. TablesSound' BY IgnoreRowsSound
  <2> QED BY <2>1 DEF TablesSound, Sound, ArraysOK
<1>3. "L" \in Side /\ list["L"] \in Seq(Entries) /\ list'["L"] \in Seq(Entries) BY <1>1, <1>2 DEF Side
<1>4. \A j \in DOMAIN list["L"] : \/ list'["L"][j] = list["L"][j]
                                  \/ list'["L"][j] = [list["L"][j] EXCEPT !.ignored = TRUE]
  BY <1>3 DEF IgnoreRows
<1>5. DOMAIN list'["L"] = DOMAIN list["L"] BY <1>3 DEF IgnoreRows
<1>6. ASSUME NEW j \in 1..Len(list["L"])
      PROVE  j \in 1..Len(list'["L"]) /\ LinkOf(list'["L"][j]) = LinkOf(list["L"][j])
  <2>1. j \in DOMAIN list["L"] /\ list["L"][j] \in Entries BY <1>3
  <2>2. \A e \in Entries : LinkOf([e EXCEPT !.ignored = TRUE]) = LinkOf(e) BY DEF Entries, LinkOf
  <2>3. LinkOf(list'["L"][j]) = LinkOf(list["L"][j]) BY <2>1, <2>2, <1>4
  <2>4. j \in DOMAIN list'["L"] BY <2>1, <1>5
  <2> QED BY <2>3, <2>4, <1>3
<1>7. map' = map BY DEF IgnoreRows
<1> QED BY <1>2, <1>6, <1>7 DEF Kept

-----------------------------------------------------------------------------
(* A message is handled                                                    *)

LEMMA CellIs ==
    ASSUME TablesSound, NEW x \in Paths
    PROVE  /\ map["L"][x] = 0 => Cells(list, map)[x] = {}
           /\ map["L"][x] # 0 => /\ map["L"][x] \in 1..Len(list["L"])
                                 /\ list["L"][map["L"][x]] \in Entries
                                 /\ Cells(list, map)[x] = {LinkOf(list["L"][map["L"][x]])}
<1>1. "L" \in Side /\ list["L"] \in Seq(Entries) BY TablesTypes DEF Side
<1>2. map["L"][x] # 0 => map["L"][x] \in 1..Len(list["L"])
  BY <1>1 DEF TablesSound, Sound, MapPoints
<1> QED BY <1>1, <1>2 DEF Cells

LEMMA KeptCell ==
    ASSUME TablesSound, Kept(list', list), NEW x \in Paths, map'["L"][x] = map["L"][x]
    PROVE  Cells(list', map')[x] = Cells(list, map)[x]
<1>1. map["L"][x] # 0 => map["L"][x] \in 1..Len(list["L"]) BY CellIs
<1>2. map["L"][x] # 0 => LinkOf(list'["L"][map["L"][x]]) = LinkOf(list["L"][map["L"][x]])
  BY <1>1 DEF Kept
<1> QED BY <1>2 DEF Cells

\* What the messages of a rename that is handled at once is about.
LEMMA RenameFree ==
    ASSUME ThreadOK, MessagesOK, queue # <<>>, Head(queue).type = "rename"
    PROVE  /\ Head(queue).path \in Paths /\ Head(queue).to \in Paths /\ Head(queue).side \in Side
           /\ Head(queue).path # Head(queue).to
           /\ map[Head(queue).side][Head(queue).to] = 0
<1> DEFINE m == Head(queue)
<1>1. m \in Messages /\ m = Posted[1] /\ 1 \in 1..Len(Posted) BY PostedIs
<1>2. m.path \in Paths /\ m.to \in Paths /\ m.side \in Side BY <1>1, MessageIs DEF RowMessages
<1>3. m.path # m.to /\ FreeAt(map, Posted, 1 - 1, m.side, m.to)
  BY <1>1 DEF MessagesOK, NamesFree
<1>4. \A j \in 1..(1 - 1) : FALSE OBVIOUS
<1> QED BY <1>2, <1>3, <1>4 DEF FreeAt

\* A message changes the cells as After says.
LEMMA HandleCells ==
    ASSUME Inv, Handle
    PROVE  Cells(list', map') = After(Head(queue), Cells(list, map))
<1> DEFINE m == Head(queue)
           c == Cells(list, map)
           d == Cells(list', map')
<1>1. /\ TablesSound /\ DiskOK /\ ThreadOK /\ MessagesOK /\ queue # <<>> /\ m \in Messages
      /\ map \in [Side -> [Paths -> Nat]] /\ list \in [Side -> Seq(Entries)] /\ "L" \in Side
  BY TablesTypes, PostedIs DEF Inv, Handle, Side
<1>2. /\ m.type \in {"ignore", "finished"} \cup RowMessages /\ m.side \in Side
      /\ m.type \in RowMessages => m.path \in Paths /\ m.to \in Paths
  BY <1>1, MessageIs
<1>3. d = [x \in Paths |-> d[x]] BY DEF Cells
<1>4. SUFFICES ASSUME NEW x \in Paths
               PROVE  d[x] = IF Vacates(m, "L", x) THEN {}
                             ELSE IF Fill(m, x) /\ c[m.path] # {} THEN c[m.path] ELSE c[x]
  <2> HIDE DEF d, c, m
  <2> QED BY <1>3, <1>4 DEF After, d, c, m
<1>5. ASSUME Kept(list', list), map'["L"][x] = map["L"][x] PROVE d[x] = c[x]
  BY <1>1, <1>5, KeptCell
<1>6. CASE m.type = "remove"
  <2>1. RemoveRow(m.side, m.path) /\ m.path \in Paths BY <1>2, <1>6 DEF Handle, RowMessages
  <2>2. Kept(list', list) /\ map' = [map EXCEPT ![m.side][m.path] = 0]
    BY <2>1, <1>1, <1>2, RemoveLinks
  <2> HIDE DEF m, c, d
  <2>3. ~Fill(m, x) BY <1>6 DEF Fill
  <2>4. CASE m.side = "L" /\ m.path = x
    <3>1. map'["L"][x] = 0 BY <2>2, <2>4, <1>1
    <3>2. d[x] = {} BY <3>1 DEF Cells, d
    <3> QED BY <3>2, <2>4, <1>6 DEF Vacates
  <2>5. CASE ~(m.side = "L" /\ m.path = x)
    <3>1. map'["L"][x] = map["L"][x] BY <2>2, <2>5, <1>1, <1>2
    <3> QED BY <3>1, <2>2, <2>3, <2>5, <1>5 DEF Vacates
  <2> QED BY <2>4, <2>5
<1>7. CASE m.type = "rename"
  <2>1. /\ RenameRow(m.side, m.path, m.to) /\ m.path \in Paths /\ m.to \in Paths
        /\ m.path # m.to /\ map[m.side][m.to] = 0
    <3>1. RenameRow(m.side, m.path, m.to) BY <1>7 DEF Handle
    <3> QED BY <3>1, <1>1, <1>7, RenameFree
  <2>2. CASE map[m.side][m.path] = 0
    <3>1. UNCHANGED tables BY <2>1, <2>2 DEF RenameRow
    <3>2. list' = list /\ map' = map BY <3>1 DEF tables
    <3>3. m.side = "L" => c[m.path] = {} BY <2>1, <2>2, <1>1, CellIs
    <3>4. d[x] = c[x] BY <3>2
    <3> HIDE DEF m, c, d
    <3>5. Fill(m, x) => c[m.path] = {} BY <3>3 DEF Fill
    <3>6. Vacates(m, "L", x) => c[x] = {} BY <3>3, <1>7 DEF Vacates
    <3> QED BY <3>4, <3>5, <3>6
  <2>3. CASE map[m.side][m.path] # 0
    <3> DEFINE new == Len(list[m.side]) + 1
               e == list[m.side][map[m.side][m.path]]
    <3>1. /\ Kept(list', list) /\ map' = [map EXCEPT ![m.side][m.path] = 0, ![m.side][m.to] = new]
          /\ m.side = "L" => LinkOf(list'["L"][new]) = LinkOf(e)
      BY <2>1, <2>3, <1>1, <1>2, RenameLinks
    <3>2. new \in Nat /\ new # 0
      <4>1. list[m.side] \in Seq(Entries) BY <1>1, <1>2
      <4>2. Len(list[m.side]) \in Nat BY <4>1
      <4> QED BY <4>2
    <3>3. m.side = "L" => c[m.path] = {LinkOf(e)} BY <2>1, <2>3, <1>1, CellIs
    <3> HIDE DEF m, c, d, new, e
    <3>4. CASE m.side = "L" /\ x = m.path
      <4>1. map'["L"][x] = 0 BY <3>1, <3>4, <2>1, <1>1
      <4>2. d[x] = {} BY <4>1 DEF Cells, d
      <4> QED BY <4>2, <3>4, <1>7 DEF Vacates
    <3>5. CASE m.side = "L" /\ x = m.to
      <4>1. map'["L"][x] = new BY <3>1, <3>5, <1>1
      <4>2. d[x] = {LinkOf(list'["L"][new])} BY <4>1, <3>2 DEF Cells, d
      <4>3. d[x] = c[m.path] /\ c[m.path] # {} BY <4>2, <3>1, <3>3, <3>5
      <4> QED BY <4>3, <3>5, <2>1, <1>7 DEF Vacates, Fill
    <3>6. CASE ~(m.side = "L" /\ x = m.path) /\ ~(m.side = "L" /\ x = m.to)
      <4>1. map'["L"][x] = map["L"][x] BY <3>1, <3>6, <1>1, <1>2
      <4>2. d[x] = c[x] BY <4>1, <3>1, <1>5
      <4> QED BY <4>2, <3>6 DEF Vacates, Fill
    <3> QED BY <3>4, <3>5, <3>6
  <2> QED BY <2>2, <2>3
<1>8. CASE m.type \in {"transfer", "ignore", "finished"}
  <2>1. Kept(list', list) /\ map'["L"][x] = map["L"][x]
    <3>1. CASE m.type = "transfer"
      <4>1. TransferRow(m.path) /\ m.path \in Paths BY <3>1, <1>2 DEF Handle, RowMessages
      <4> QED BY <4>1, <1>1, TransferKept
    <3>2. CASE m.type = "ignore"
      <4>1. IgnoreRows BY <3>2 DEF Handle
      <4> QED BY <4>1, <1>1, IgnoreLinks
    <3>3. CASE m.type = "finished"
      <4>1. list' = list /\ map' = map BY <3>3 DEF Handle, tables
      <4> QED BY <4>1, <1>1, KeptSame
    <3> QED BY <3>1, <3>2, <3>3, <1>8
  <2>2. d[x] = c[x] BY <2>1, <1>5
  <2> HIDE DEF m, c, d
  <2> QED BY <2>2, <1>8 DEF Vacates, Fill
<1> QED BY <1>2, <1>6, <1>7, <1>8 DEF RowMessages

\* The groups of the source follow the cells: a path that is taken out of its cell or
\* gets a new name is taken out of its group or gets the new name there.
LEMMA HandleLinks ==
    ASSUME Inv, LinksOK, Handle, Head(queue).type # "ignore"
    PROVE  LinksOK'
<1> DEFINE m == Head(queue)
           c == Cells(list, map)
           d == Cells(list', map')
<1>1. /\ TablesSound /\ DiskOK /\ ThreadOK /\ MessagesOK /\ queue # <<>> /\ m \in Messages
      /\ map \in [Side -> [Paths -> Nat]] /\ list \in [Side -> Seq(Entries)]
      /\ "L" \in Side /\ "R" \in Side
  BY TablesTypes, PostedIs DEF Inv, Handle, Side
<1>2. /\ m.type \in {"finished"} \cup RowMessages /\ m.side \in Side
      /\ m.type \in RowMessages => m.path \in Paths /\ m.to \in Paths
  BY <1>1, MessageIs
<1>3. d = After(m, c) BY HandleCells
<1>4. /\ inode_map = [s \in Side |-> inode_map[s]]
      /\ inode_map["L"] = [i \in Inodes |-> inode_map["L"][i]]
      /\ \A i \in Inodes : GoodGroup(inode_map["L"][i], MembersOf(c, i))
  BY DEF LinksOK
<1>5. ASSUME inode_map' = [s \in Side |-> inode_map'[s]], inode_map'["L"] = inode_map["L"], d = c
      PROVE  LinksOK'
  BY <1>4, <1>5 DEF LinksOK
<1>6. ASSUME NEW j \in Inodes, NEW g, inode_map' = [inode_map EXCEPT !["L"][j] = g],
             GoodGroup(g, MembersOf(d, j)),
             \A i \in Inodes : i # j => MembersOf(d, i) = MembersOf(c, i)
      PROVE  LinksOK'
  <2> HIDE DEF c, d
  <2>1. inode_map' = [s \in Side |-> inode_map'[s]]
        /\ inode_map'["L"] = [i \in Inodes |-> inode_map'["L"][i]]
        /\ inode_map'["L"][j] = g
        /\ \A i \in Inodes : i # j => inode_map'["L"][i] = inode_map["L"][i]
    BY <1>1, <1>4, <1>6
  <2>2. \A i \in Inodes : GoodGroup(inode_map'["L"][i], MembersOf(d, i)) BY <2>1, <1>4, <1>6
  <2> QED BY <2>1, <2>2 DEF LinksOK, d
<1>7. ASSUME inode_map' = inode_map, \A i \in Inodes : MembersOf(d, i) = MembersOf(c, i)
      PROVE  LinksOK'
  <2> HIDE DEF c, d
  <2>1. \A i \in Inodes : GoodGroup(inode_map'["L"][i], MembersOf(d, i)) BY <1>4, <1>7
  <2> QED BY <2>1, <1>4, <1>7 DEF LinksOK, d
<1>8. CASE m.type \in RowMessages /\ m.side = "L" /\ map["L"][m.path] = 0 /\ m.type # "transfer"
  <2>1. /\ m.type = "remove" => RemoveRow("L", m.path)
        /\ m.type = "rename" => RenameRow("L", m.path, m.to)
    BY <1>8 DEF Handle
  <2>2. UNCHANGED tables BY <2>1, <1>8 DEF RemoveRow, RenameRow, RowMessages
  <2>3. inode_map' = inode_map /\ d = c BY <2>2 DEF tables
  <2> HIDE DEF c, d, m
  <2> QED BY <2>3, <1>7
<1>9. CASE m.type = "remove" /\ m.side = "L" /\ map["L"][m.path] # 0
  <2> DEFINE p == m.path
             e == list["L"][map["L"][p]]
  <2>1. RemoveRow("L", p) /\ p \in Paths BY <1>2, <1>9 DEF Handle, RowMessages
  <2>2. OnlyGroup("L", e.ino, WithoutLink(inode_map["L"][e.ino], p))
    BY <2>1, <1>1, <1>9, RemoveLinks
  <2>3. c[p] = {LinkOf(e)} BY <2>1, <1>1, <1>9, CellIs
  <2>4. \A i : MembersOf(d, i) = MembersOf(c, i) \ {p}
    <3>1. \A x \in Paths : d[x] = IF x = p THEN {} ELSE c[x]
      BY <1>3, <1>9 DEF After, Vacates, Fill
    <3> HIDE DEF d, c, p, m
    <3> QED BY <3>1 DEF MembersOf
  <2>5. \A i : i # e.ino => p \notin MembersOf(c, i)
    <3> HIDE DEF c, p, e
    <3> QED BY <2>3 DEF MembersOf, LinkOf
  <2> HIDE DEF c, d, p, e
  <2>6. \A i \in Inodes : i # e.ino => MembersOf(d, i) = MembersOf(c, i) BY <2>4, <2>5
  <2>7. CASE e.ino \in Inodes
    <3>1. GoodGroup(WithoutLink(inode_map["L"][e.ino], p), MembersOf(d, e.ino))
      BY <2>4, <2>7, <1>4, WithoutGood
    <3>2. inode_map' = [inode_map EXCEPT !["L"][e.ino] = WithoutLink(inode_map["L"][e.ino], p)]
      BY <2>2, <2>7 DEF OnlyGroup
    <3> QED BY <3>1, <3>2, <2>6, <2>7, <1>6
  <2>8. CASE e.ino \notin Inodes
    <3>1. inode_map' = inode_map BY <2>2, <2>8 DEF OnlyGroup
    <3> QED BY <3>1, <2>6, <2>8, <1>7
  <2> QED BY <2>7, <2>8
<1>10. CASE m.type = "rename" /\ m.side = "L" /\ map["L"][m.path] # 0
  <2> DEFINE p == m.path
             q == m.to
             e == list["L"][map["L"][p]]
             out == Renamed(inode_map["L"][e.ino], p, q)
  <2>1. RenameRow("L", p, q) /\ p \in Paths /\ q \in Paths /\ p # q /\ map["L"][q] = 0
    <3>1. RenameRow("L", p, q) BY <1>10 DEF Handle
    <3> QED BY <3>1, <1>1, <1>10, RenameFree
  <2>2. IF e.linked /\ inode_map["L"][e.ino].names # <<>>
        THEN OnlyGroup("L", e.ino, out) ELSE inode_map' = inode_map
    BY <2>1, <1>1, <1>10, RenameLinks
  <2>3. c[p] = {LinkOf(e)} /\ c[q] = {} /\ e \in Entries BY <2>1, <1>1, <1>10, CellIs
  <2>4. \A i : MembersOf(d, i) = IF p \in MembersOf(c, i) THEN (MembersOf(c, i) \ {p}) \cup {q}
                                 ELSE MembersOf(c, i)
    <3>1. \A x \in Paths : d[x] = IF x = p THEN {} ELSE IF x = q THEN c[p] ELSE c[x]
      <4>1. c[p] # {} BY <2>3
      <4> QED BY <4>1, <1>3, <1>10 DEF After, Vacates, Fill
    <3> HIDE DEF d, c, p, q, m, e
    <3> QED BY <3>1, <2>1, <2>3 DEF MembersOf
  <2>5. \A i : p \in MembersOf(c, i) <=> i = e.ino /\ e.linked
    <3>1. e.linked \in BOOLEAN BY <2>3 DEF Entries
    <3> HIDE DEF c, p, e
    <3>2. \A i : p \in MembersOf(c, i) <=> [ino |-> i, linked |-> TRUE] = [ino |-> e.ino, linked |-> e.linked]
      BY <2>1, <2>3 DEF MembersOf, LinkOf
    <3> QED BY <3>1, <3>2
  <2>6. \A i : q \notin MembersOf(c, i)
    <3> HIDE DEF c, q
    <3> QED BY <2>3 DEF MembersOf
  <2> HIDE DEF c, d, p, q, e
  <2>7. CASE e.linked /\ e.ino \in Inodes
    <3>1. p \in MembersOf(c, e.ino) /\ GoodGroup(inode_map["L"][e.ino], MembersOf(c, e.ino))
      BY <2>5, <2>7, <1>4
    <3>2. GoodGroup(out, MembersOf(d, e.ino)) BY <3>1, <2>1, <2>4, <2>6, RenamedGood
    <3>3. inode_map["L"][e.ino].names # <<>>
      <4>1. PICK k \in 1..Len(inode_map["L"][e.ino].names) : inode_map["L"][e.ino].names[k] = p
        BY <3>1 DEF GoodGroup
      <4>2. Len(inode_map["L"][e.ino].names) # 0 BY <4>1
      <4> QED BY <4>2
    <3> HIDE DEF out
    <3>4. inode_map' = [inode_map EXCEPT !["L"][e.ino] = out] BY <3>3, <2>2, <2>7 DEF OnlyGroup
    <3>5. \A i \in Inodes : i # e.ino => MembersOf(d, i) = MembersOf(c, i) BY <2>4, <2>5
    <3> QED BY <3>2, <3>4, <3>5, <2>7, <1>6
  <2>8. CASE ~(e.linked /\ e.ino \in Inodes)
    <3>1. inode_map' = inode_map BY <2>2, <2>8 DEF OnlyGroup
    <3>2. \A i \in Inodes : MembersOf(d, i) = MembersOf(c, i) BY <2>4, <2>5, <2>8
    <3> QED BY <3>1, <3>2, <1>7
  <2> QED BY <2>7, <2>8
<1>11. CASE m.type = "transfer" \/ m.type = "finished" \/ (m.type \in RowMessages /\ m.side = "R")
  <2>1. d = c
    <3>1. c = [x \in Paths |-> c[x]] BY DEF Cells
    <3> HIDE DEF c, d, m
    <3>2. After(m, c) = [x \in Paths |-> c[x]] BY <1>11 DEF After, Vacates, Fill, RowMessages
    <3> QED BY <3>1, <3>2, <1>3
  <2>2. inode_map' = [s \in Side |-> inode_map'[s]] /\ inode_map'["L"] = inode_map["L"]
    <3>1. CASE m.type = "transfer"
      <4>1. TransferRow(m.path) /\ m.path \in Paths BY <3>1, <1>2 DEF Handle, RowMessages
      <4> QED BY <4>1, <1>4, TransferLinks
    <3>2. CASE m.type = "finished"
      <4>1. inode_map' = inode_map BY <3>2 DEF Handle, tables
      <4> QED BY <4>1, <1>4
    <3>3. ASSUME NEW i, NEW g, OnlyGroup("R", i, g)
          PROVE  inode_map' = [s \in Side |-> inode_map'[s]] /\ inode_map'["L"] = inode_map["L"]
      BY <3>3, <1>1, <1>4 DEF OnlyGroup
    <3>4. CASE m.type = "remove" /\ m.side = "R"
      <4>1. RemoveRow("R", m.path) /\ m.path \in Paths BY <3>4, <1>2 DEF Handle, RowMessages
      <4>2. \/ inode_map' = inode_map \/ \E i, g : OnlyGroup("R", i, g)
        BY <4>1, <1>1, RemoveLinks
      <4> QED BY <4>2, <3>3, <1>4
    <3>5. CASE m.type = "rename" /\ m.side = "R"
      <4>1. /\ RenameRow("R", m.path, m.to) /\ m.path \in Paths /\ m.to \in Paths
            /\ m.path # m.to /\ map["R"][m.to] = 0
        <5>1. RenameRow("R", m.path, m.to) BY <3>5 DEF Handle
        <5> QED BY <5>1, <3>5, <1>1, RenameFree
      <4>2. \/ inode_map' = inode_map \/ \E i, g : OnlyGroup("R", i, g)
        <5>1. CASE map["R"][m.path] = 0
          <6>1. UNCHANGED tables BY <4>1, <5>1 DEF RenameRow
          <6> QED BY <6>1 DEF tables
        <5>2. CASE map["R"][m.path] # 0
          <6> DEFINE e == list["R"][map["R"][m.path]]
                     out == Renamed(inode_map["R"][e.ino], m.path, m.to)
          <6>1. IF e.linked /\ inode_map["R"][e.ino].names # <<>>
                THEN OnlyGroup("R", e.ino, out) ELSE inode_map' = inode_map
            BY <4>1, <5>2, <1>1, RenameLinks
          <6> HIDE DEF e, out
          <6> QED BY <6>1
        <5> QED BY <5>1, <5>2
      <4> QED BY <4>2, <3>3, <1>4
    <3> QED BY <3>1, <3>2, <3>4, <3>5, <1>11 DEF RowMessages
  <2> HIDE DEF c, d, m
  <2> QED BY <2>1, <2>2, <1>5
<1> HIDE DEF c, d, m
<1>12. m.side = "L" \/ m.side = "R" BY <1>2 DEF Side
<1> QED BY <1>2, <1>8, <1>9, <1>10, <1>11, <1>12 DEF RowMessages

-----------------------------------------------------------------------------
(* The groups agree                                                        *)

\* What is posted leads on to what is on the disk.
LEMMA TraceGoesOn ==
    ASSUME TraceOK, Inv, UNCHANGED <<list, map>>, NEW ms \in Seq(Messages),
           Posted' = Posted \o ms, Traced(ms, Files(disk), Files(disk'))
    PROVE  TraceOK'
<1>1. Posted \in Seq(Messages) BY PostedIs DEF Inv
<1>2. Traced(Posted \o ms, InodesOf(Cells(list, map)), Files(disk'))
  BY <1>1, TraceMore DEF TraceOK
<1> QED BY <1>2 DEF TraceOK

LEMMA TraceStays ==
    ASSUME TraceOK, UNCHANGED <<list, map>>, Posted' = Posted, Files(disk') = Files(disk)
    PROVE  TraceOK'
BY DEF TraceOK

\* What is told of a copy, and what is not about a row, is not about the source.
LEMMA TraceQuiet ==
    ASSUME TraceOK, Inv, UNCHANGED <<list, map>>, NEW ms \in Seq(Messages),
           Posted' = Posted \o ms, Files(disk') = Files(disk),
           \A k \in 1..Len(ms) : ms[k].side = "L" => ms[k].type \notin {"remove", "rename"}
    PROVE  TraceOK'
<1>1. Files(disk) = [x \in Paths |-> Files(disk)[x]] BY DEF Files
<1>2. Traced(ms, Files(disk), Files(disk)) BY <1>1, TraceSame
<1> QED BY <1>2, TraceGoesOn

\* What is not posted by Ignore is no pattern.
LEMMA PatternStays ==
    ASSUME NoPattern, Inv, rules' = rules, NEW ms \in Seq(Messages),
           Posted' = Posted \o ms, \A k \in 1..Len(ms) : ms[k].type # "ignore"
    PROVE  NoPattern'
<1>1. Posted \in Seq(Messages) BY PostedIs DEF Inv
<1> DEFINE b == Posted \o ms
           l == Len(Posted)
<1>2. /\ l \in Nat /\ Len(ms) \in Nat /\ Len(b) = l + Len(ms)
      /\ \A k \in 1..l : b[k] = Posted[k]
      /\ \A k \in 1..Len(ms) : b[l + k] = ms[k]
  BY <1>1, BothIs
<1> HIDE DEF b, l
<1>3. ASSUME rules = <<>>, NEW k \in 1..Len(b) PROVE b[k].type # "ignore"
  <2>1. CASE k \in 1..l BY <2>1, <1>2, <1>3 DEF NoPattern, l
  <2>2. CASE k \notin 1..l
    <3>1. (k - l) \in 1..Len(ms) /\ l + (k - l) = k BY <1>2, <2>2
    <3>2. b[k] = ms[k - l] BY <3>1, <1>2
    <3> QED BY <3>1, <3>2
  <2> QED BY <2>1, <2>2
<1>4. rules' = <<>> => \A k \in 1..Len(b) : b[k].type # "ignore" BY <1>3
<1> QED BY <1>4 DEF NoPattern, b

LEMMA PatternSame ==
    ASSUME NoPattern, rules' = rules, Posted' = Posted
    PROVE  NoPattern'
BY DEF NoPattern

LEMMA LinksSame ==
    ASSUME LinksOK, UNCHANGED <<list, map, inode_map>>
    PROVE  LinksOK'
BY DEF LinksOK

\* A step that posts ms, which are no patterns, and leaves the tables alone.
LEMMA GroupsGoOn ==
    ASSUME GroupsInv, Inv, UNCHANGED <<list, map, inode_map, rules>>, NEW ms \in Seq(Messages),
           Posted' = Posted \o ms, \A k \in 1..Len(ms) : ms[k].type # "ignore",
           Traced(ms, Files(disk), Files(disk'))
    PROVE  GroupsInv'
BY TraceGoesOn, PatternStays, LinksSame DEF GroupsInv

LEMMA GroupsQuiet ==
    ASSUME GroupsInv, UNCHANGED <<list, map, inode_map, rules>>, Posted' = Posted,
           Files(disk') = Files(disk)
    PROVE  GroupsInv'
BY TraceStays, PatternSame, LinksSame DEF GroupsInv

LEMMA HandleGroups ==
    ASSUME Inv, GroupsInv, Handle
    PROVE  GroupsInv'
<1> DEFINE m == Head(queue)
           c == Cells(list, map)
<1>1. /\ Posted \in Seq(Messages) /\ Posted # <<>> /\ Posted[1] = m /\ 1 \in 1..Len(Posted)
      /\ m \in Messages /\ rules' = rules /\ disk' = disk
  BY PostedIs DEF Inv, Handle
<1>2. Posted' = Tail(Posted) BY HandleMessages DEF Inv
<1>3. InodesOf(Cells(list', map')) = After(m, InodesOf(c))
  <2>1. Cells(list', map') = After(m, c) BY HandleCells
  <2>2. m.type = "rename" => m.path \in Paths BY <1>1, MessageIs DEF RowMessages
  <2> HIDE DEF m, c
  <2>3. \A x \in Paths : {l.ino : l \in After(m, c)[x]} = After(m, InodesOf(c))[x]
    <3> SUFFICES ASSUME NEW x \in Paths
                 PROVE  {l.ino : l \in After(m, c)[x]} = After(m, InodesOf(c))[x]
      OBVIOUS
    <3>1. \A y \in Paths : InodesOf(c)[y] = {l.ino : l \in c[y]} BY DEF InodesOf
    <3>2. CASE Vacates(m, "L", x) BY <3>2 DEF After
    <3>3. CASE ~Vacates(m, "L", x) /\ Fill(m, x) /\ c[m.path] # {}
      <4>1. m.path \in Paths BY <3>3, <2>2 DEF Fill
      <4>2. InodesOf(c)[m.path] # {} BY <3>1, <3>3, <4>1
      <4>3. After(m, c)[x] = c[m.path] BY <3>3 DEF After
      <4>4. After(m, InodesOf(c))[x] = InodesOf(c)[m.path] BY <3>3, <4>2 DEF After
      <4> QED BY <4>1, <4>3, <4>4, <3>1
    <3>4. CASE ~Vacates(m, "L", x) /\ Fill(m, x) /\ c[m.path] = {}
      <4>1. m.path \in Paths BY <3>4, <2>2 DEF Fill
      <4>2. InodesOf(c)[m.path] = {} BY <3>1, <3>4, <4>1
      <4>3. After(m, c)[x] = c[x] BY <3>4 DEF After
      <4>4. After(m, InodesOf(c))[x] = InodesOf(c)[x] BY <3>4, <4>2 DEF After
      <4> QED BY <4>3, <4>4, <3>1
    <3>5. CASE ~Vacates(m, "L", x) /\ ~Fill(m, x)
      <4>1. After(m, c)[x] = c[x] /\ After(m, InodesOf(c))[x] = InodesOf(c)[x] BY <3>5 DEF After
      <4> QED BY <4>1, <3>1
    <3> QED BY <3>2, <3>3, <3>4, <3>5
  <2>4. After(m, InodesOf(c)) = [x \in Paths |-> After(m, InodesOf(c))[x]] BY DEF After
  <2>5. InodesOf(After(m, c)) = [x \in Paths |-> {l.ino : l \in After(m, c)[x]}] BY DEF InodesOf
  <2> QED BY <2>1, <2>3, <2>4, <2>5
<1>4. TraceOK'
  <2>1. Traced(Posted, InodesOf(c), Files(disk)) BY DEF GroupsInv, TraceOK
  <2> HIDE DEF m, c
  <2>2. Traced(Tail(Posted), After(m, InodesOf(c)), Files(disk)) BY <1>1, <2>1, TraceTail
  <2> QED BY <1>1, <1>2, <1>3, <2>2 DEF TraceOK
<1>5. NoPattern'
  <2>1. Len(Posted) \in Nat /\ \A k \in 1..Len(Posted') : k + 1 \in 1..Len(Posted) /\ Posted'[k] = Posted[k + 1]
    BY <1>1, <1>2, TailIs
  <2> QED BY <2>1, <1>1 DEF GroupsInv, NoPattern
<1>6. rules' = <<>> => LinksOK'
  <2> SUFFICES ASSUME rules = <<>> PROVE LinksOK' BY <1>1
  <2>1. m.type # "ignore" /\ LinksOK BY <1>1 DEF GroupsInv, NoPattern
  <2> QED BY <2>1, HandleLinks
<1> QED BY <1>4, <1>5, <1>6 DEF GroupsInv

LEMMA TasksGroups ==
    ASSUME Inv, GroupsInv, \/ \E R \in SUBSET DOMAIN rows : StartSync(R) \/ \E s \in Side : StartApply(s, R)
                           \/ \E s \in Side : StartDelete(s)
    PROVE  GroupsInv'
<1>1. \E s, copy, delete : Start(s, copy, delete) BY DEF StartSync, StartApply, StartDelete
<1>2. UNCHANGED <<disk, list, map, inode_map, rules>> BY <1>1 DEF Start, tables
<1>3. Posted' = Posted BY TasksInv
<1>4. Files(disk') = Files(disk) BY <1>2
<1> QED BY <1>2, <1>3, <1>4, GroupsQuiet

LEMMA QuietGroups ==
    ASSUME Inv, GroupsInv, Posted' = Posted,
           \/ FlushBatch \/ StartCopies \/ EndCopies \/ Abort
           \/ \E r \in DOMAIN rows : Select(r)
           \/ UNCHANGED vars
    PROVE  GroupsInv'
<1>1. UNCHANGED <<disk, list, map, inode_map, rules>>
  BY DEF FlushBatch, StartCopies, EndCopies, Abort, Select, vars, tables
<1>2. Files(disk') = Files(disk) BY <1>1
<1> QED BY <1>1, <1>2, GroupsQuiet

\* Messages that are about the backup, or about no row.
LEMMA AsideGroups ==
    ASSUME Inv, GroupsInv, UNCHANGED <<list, map, inode_map, rules>>, disk'["L"] = disk["L"],
           NEW ms \in Seq(Messages), Posted' = Posted \o ms,
           \A k \in 1..Len(ms) : /\ ms[k].side = "L" => ms[k].type \notin {"remove", "rename"}
                                 /\ ms[k].type # "ignore"
    PROVE  GroupsInv'
<1>1. Files(disk') = Files(disk) BY DEF Files
<1>2. Files(disk) = [x \in Paths |-> Files(disk)[x]] BY DEF Files
<1>3. Traced(ms, Files(disk), Files(disk)) BY <1>2, TraceSame
<1> QED BY <1>1, <1>3, GroupsGoOn

LEMMA FinishGroups ==
    ASSUME Inv, GroupsInv, Finish
    PROVE  GroupsInv'
<1> DEFINE m == Of("finished", side, <<>>)
           ms == <<m>>
<1>1. m \in Messages /\ Posted' = Posted \o ms BY FinishInv
<1>2. m.type = "finished" BY DEF Of, Message
<1>3. UNCHANGED <<list, map, inode_map, rules>> /\ disk' = disk BY DEF Finish, tables
<1> HIDE DEF m
<1>4. ms \in Seq(Messages) /\ Len(ms) = 1 /\ ms[1] = m BY <1>1
<1>5. \A k \in 1..1 : k = 1 OBVIOUS
<1> HIDE DEF ms
<1>6. \A k \in 1..Len(ms) : ms[k].type = "finished" BY <1>2, <1>4, <1>5
<1> QED BY <1>1, <1>3, <1>4, <1>6, AsideGroups

LEMMA IgnoreGroups ==
    ASSUME Inv, GroupsInv, NEW rule \in Rules, Ignore(rule)
    PROVE  GroupsInv'
<1> DEFINE m == Of("ignore", "L", <<>>)
           ms == <<m>>
<1>1. m \in Messages /\ Posted' = Posted \o ms BY IgnoreInv
<1>2. m.type = "ignore" BY DEF Of, Message
<1>3. UNCHANGED <<list, map>> /\ disk' = disk /\ rules' = Append(rules, rule)
  BY DEF Ignore, tables
<1> HIDE DEF m
<1>4. ms \in Seq(Messages) /\ Len(ms) = 1 /\ ms[1] = m BY <1>1
<1>5. \A k \in 1..1 : k = 1 OBVIOUS
<1> HIDE DEF ms
<1>6. \A k \in 1..Len(ms) : ms[k].side = "L" => ms[k].type \notin {"remove", "rename"}
  BY <1>2, <1>4, <1>5
<1>7. Files(disk') = Files(disk) BY <1>3
<1>8. TraceOK' BY <1>1, <1>3, <1>4, <1>6, <1>7, TraceQuiet DEF GroupsInv
<1>9. rules' \in Seq(Rules) /\ rules' # <<>>
  <2>1. rules \in Seq(Rules) BY DEF GroupsInv, NoPattern
  <2> DEFINE R == Rules
  <2> HIDE DEF R
  <2>2. rules \in Seq(R) /\ rule \in R BY <2>1 DEF R
  <2> DEFINE w == Append(rules, rule)
  <2>3. w \in Seq(R) /\ Len(w) = Len(rules) + 1 /\ Len(rules) \in Nat BY <2>2
  <2>4. w # <<>>
    <3>1. Len(w) # 0 BY <2>3
    <3> QED BY <3>1
  <2> QED BY <2>3, <2>4, <1>3 DEF R
<1> QED BY <1>8, <1>9 DEF GroupsInv, NoPattern

LEMMA DeleteGroups ==
    ASSUME Inv, GroupsInv, NEW t \in todo, DeletePath(t)
    PROVE  GroupsInv'
<1> DEFINE p == t.path
<1>1. UNCHANGED <<list, map, inode_map, rules>> BY DEF DeletePath, tables
<1>2. side \in Side /\ \E gone : Removed(side, p, gone) BY DeletePathInv
<1>3. PICK gone : Removed(side, p, gone) BY <1>2
<1> DEFINE ms == Removals(side, p, gone)
<1>4. /\ gone \subseteq Paths /\ Posted' = Posted \o ms /\ disk' = Without(side, gone)
      /\ \A s \in Side : s # side => disk'[s] = disk[s]
  BY <1>2, <1>3 DEF Removed, Tree, Inv, DiskOK
<1>5. /\ ms \in Seq(Messages)
      /\ \A k \in 1..Len(ms) : ms[k].type = "remove" /\ ms[k].side = side
  BY <1>2, <1>4, RemovalsAre
<1>6. CASE side = "R"
  <2>1. disk'["L"] = disk["L"] BY <1>6, <1>4 DEF Side
  <2> HIDE DEF ms
  <2> QED BY <2>1, <1>1, <1>4, <1>5, <1>6, AsideGroups
<1>7. CASE side = "L"
  <2>1. disk = [s \in Side |-> disk[s]] BY DEF Inv, DiskOK
  <2>2. disk'["L"] = [x \in DOMAIN disk["L"] \ (IF side = "L" THEN gone ELSE {}) |-> disk["L"][x]]
    BY <2>1, <1>4, <1>7, SideIs DEF Without
  <2>3. Traced(ms, Files(disk), Files(disk')) BY <2>2, <1>2, <1>4, TraceRemovals
  <2>4. \A k \in 1..Len(ms) : ms[k].type # "ignore" BY <1>5
  <2>5. Posted' = Posted \o ms BY <1>4
  <2> HIDE DEF ms
  <2> QED BY <2>3, <2>4, <2>5, <1>1, <1>5, GroupsGoOn
<1> QED BY <1>6, <1>7, <1>2 DEF Side

\* What is told of a copy.
LEMMA ToldGroups ==
    ASSUME Inv, GroupsInv, UNCHANGED <<list, map, inode_map, rules>>, disk'["L"] = disk["L"],
           NEW p \in Paths, NEW gone \in BOOLEAN, Posted' = Posted \o Told(p, gone)
    PROVE  GroupsInv'
<1> DEFINE ms == Told(p, gone)
<1>1. /\ ms \in Seq(Messages) /\ Posted' = Posted \o ms
      /\ \A k \in 1..Len(ms) : ms[k].type \in {"remove", "transfer"} /\ ms[k].side = "R"
  BY ToldIs
<1> HIDE DEF ms
<1> QED BY <1>1, AsideGroups

LEMMA CopyGroups ==
    ASSUME Inv, GroupsInv, NEW p \in Paths, CopyPath(p)
    PROVE  GroupsInv'
<1>1. UNCHANGED <<list, map, inode_map, rules>> BY DEF CopyPath, tables
<1>2. /\ disk'["L"] = disk["L"]
      /\ \/ Posted' = Posted
         \/ \E gone \in BOOLEAN : Posted' = Posted \o Told(p, gone)
         \/ \E gone \in BOOLEAN : Posted' = Posted \o Gone(p, gone)
  BY CopyPathInv DEF CopySkipped, CopyMade, CopyFailed
<1>3. CASE Posted' = Posted
  <2>1. Files(disk') = Files(disk) BY <1>2 DEF Files
  <2> QED BY <2>1, <1>1, <1>3, GroupsQuiet
<1>4. CASE \E gone \in BOOLEAN : Posted' = Posted \o Told(p, gone) BY <1>1, <1>2, <1>4, ToldGroups
<1>5. CASE \E gone \in BOOLEAN : Posted' = Posted \o Gone(p, gone)
  <2>1. PICK gone \in BOOLEAN : Posted' = Posted \o Gone(p, gone) BY <1>5
  <2> DEFINE ms == Gone(p, gone)
  <2>2. /\ ms \in Seq(Messages) /\ Posted' = Posted \o ms
        /\ \A k \in 1..Len(ms) : ms[k].type = "remove" /\ ms[k].side = "R"
    BY <2>1, GoneIs
  <2> HIDE DEF ms
  <2> QED BY <2>2, <1>1, <1>2, AsideGroups
<1> QED BY <1>2, <1>3, <1>4, <1>5

LEMMA ReportGroups ==
    ASSUME Inv, GroupsInv, NEW p \in Paths, Report(p)
    PROVE  GroupsInv'
<1>1. UNCHANGED <<list, map, inode_map, rules>> BY DEF Report, tables
<1>2. disk' = disk /\ Posted' = Posted \o Told(p, FALSE) BY ReportInv
<1> QED BY <1>1, <1>2, ToldGroups

LEMMA RenameGroups ==
    ASSUME Inv, GroupsInv, ReadAll, NEW s \in Side, NEW r \in DOMAIN rows, NEW q \in Paths,
           Rename(s, r, q), ~untold'
    PROVE  GroupsInv'
<1>1. UNCHANGED <<list, map, inode_map, rules>> BY DEF Rename, tables
<1>2. PICK p : /\ MayRename(s, p, q) /\ disk' = RenamedTo(s, p, q)
               /\ Posted' = Posted \o Renamings(s, p, q, Below(s, p))
  BY RenameInv
<1> DEFINE ms == Renamings(s, p, q, Below(s, p))
<1>3. ms \in Seq(Messages) /\ \A k \in 1..Len(ms) : ms[k].type = "rename"
  BY <1>2, RenamesAre DEF Inv
<1>4. Traced(ms, Files(disk), Files(disk')) BY <1>2, TraceRename DEF Inv
<1>5. Posted' = Posted \o ms BY <1>2
<1> HIDE DEF ms
<1>6. \A k \in 1..Len(ms) : ms[k].type # "ignore" BY <1>3
<1> QED BY <1>1, <1>3, <1>4, <1>5, <1>6, GroupsGoOn

LEMMA NextGroups ==
    ASSUME Inv, GroupsInv, ReadAll, [Next]_vars, ~untold'
    PROVE  GroupsInv'
<1>1. CASE Handle BY <1>1, HandleGroups
<1>2. CASE FlushBatch BY <1>2, FlushInv, QuietGroups
<1>3. CASE StartCopies \/ EndCopies \/ Abort BY <1>3, PhaseInv, QuietGroups
<1>4. CASE Finish BY <1>4, FinishGroups
<1>5. CASE \E r \in DOMAIN rows : Select(r) BY <1>5, SelectInv, QuietGroups
<1>6. CASE \E s \in Side, r \in DOMAIN rows, q \in Paths : Rename(s, r, q) BY <1>6, RenameGroups
<1>7. CASE \E rule \in Rules : Ignore(rule) BY <1>7, IgnoreGroups
<1>8. CASE \/ \E R \in SUBSET DOMAIN rows : StartSync(R) \/ \E s \in Side : StartApply(s, R)
           \/ \E s \in Side : StartDelete(s)
  BY <1>8, TasksGroups
<1>9. CASE \E t \in todo : DeletePath(t) BY <1>9, DeleteGroups
<1>10. CASE \E p \in Paths : CopyPath(p) BY <1>10, CopyGroups
<1>11. CASE \E p \in Paths : Report(p) BY <1>11, ReportGroups
<1>12. CASE UNCHANGED vars
  <2>1. Posted' = Posted BY <1>12 DEF vars, thread, Posted
  <2> QED BY <2>1, <1>12, QuietGroups
<1> QED BY <1>1, <1>2, <1>3, <1>4, <1>5, <1>6, <1>7, <1>8, <1>9, <1>10, <1>11, <1>12 DEF Next

\* The analysis puts every hard link of the source into its group.
LEMMA InitGroups ==
    ASSUME Init, ReadAll
    PROVE  GroupsInv
<1> DEFINE d == disk["L"]
           c == Cells(list, map)
           M(i) == {p \in DOMAIN d : Linked("L", p) /\ d[p] = i}
<1>1. /\ Posted = <<>> /\ DiskOK /\ rules = <<>> BY InitInv DEF Init, Inv
<1>2. "L" \in Side BY SideIs
<1>3. PICK at, row :
         /\ \A s \in Side : Indexed(at[s], DOMAIN disk[s])
         /\ Indexed(row, DOMAIN disk["L"] \cup DOMAIN disk["R"])
         /\ list = [s \in Side |-> [i \in DOMAIN at[s] |-> Entry(s, at[s][i], IndexOf(row, at[s][i]))]]
         /\ map = [s \in Side |-> [p \in Paths |-> IndexOf(at[s], p)]]
         /\ rows = [r \in DOMAIN row |->
               [L |-> IndexOf(at["L"], row[r]), R |-> IndexOf(at["R"], row[r]), selected |-> FALSE]]
  BY InitTables
<1>4. /\ Indexed(at["L"], DOMAIN d) /\ \A x \in Paths : map["L"][x] = IndexOf(at["L"], x)
      /\ \A i \in DOMAIN at["L"] : LinkOf(list["L"][i]) =
            [ino |-> d[at["L"][i]], linked |-> Linked("L", at["L"][i])]
  BY <1>2, <1>3 DEF LinkOf, Entry
<1>5. \A x \in Paths : c[x] = IF x \in DOMAIN d THEN {[ino |-> d[x], linked |-> Linked("L", x)]} ELSE {}
  <2> SUFFICES ASSUME NEW x \in Paths
               PROVE  c[x] = IF x \in DOMAIN d THEN {[ino |-> d[x], linked |-> Linked("L", x)]} ELSE {}
    OBVIOUS
  <2>1. c[x] = IF map["L"][x] = 0 THEN {} ELSE {LinkOf(list["L"][map["L"][x]])} BY DEF Cells
  <2> DEFINE i == IndexOf(at["L"], x)
  <2>2. CASE x \in DOMAIN d
    <3>1. i # 0 /\ i \in 1..Cardinality(DOMAIN d) /\ at["L"][i] = x BY <2>2, <1>4, IndexOfIs
    <3>2. i \in DOMAIN at["L"] BY <3>1, <1>4 DEF Indexed
    <3> QED BY <2>1, <2>2, <3>1, <3>2, <1>4
  <2>3. CASE x \notin DOMAIN d
    <3>1. i = 0 BY <2>3, <1>4, IndexOfIs
    <3> QED BY <2>1, <2>3, <3>1, <1>4
  <2> QED BY <2>2, <2>3
<1>6. \A p : Linked("L", p) \in BOOLEAN BY DEF Linked
<1>7. DOMAIN d \subseteq Paths /\ IsFiniteSet(DOMAIN d)
  <2>1. DOMAIN d \subseteq Paths BY <1>1, <1>2 DEF DiskOK
  <2> QED BY <2>1, PathsAre, FS_Subset
<1> HIDE DEF c
<1>8. TraceOK
  <2>1. InodesOf(c) = [x \in Paths |-> {l.ino : l \in c[x]}] BY DEF InodesOf
  <2>2. \A x \in Paths : {l.ino : l \in c[x]} = IF x \in DOMAIN d THEN {d[x]} ELSE {}
    <3> SUFFICES ASSUME NEW x \in Paths
                 PROVE  {l.ino : l \in c[x]} = IF x \in DOMAIN d THEN {d[x]} ELSE {}
      OBVIOUS
    <3>1. CASE x \in DOMAIN d
      <4>1. c[x] = {[ino |-> d[x], linked |-> Linked("L", x)]} BY <3>1, <1>5
      <4> QED BY <3>1, <4>1
    <3>2. CASE x \notin DOMAIN d BY <3>2, <1>5
    <3> QED BY <3>1, <3>2
  <2>3. InodesOf(c) = Files(disk) BY <2>1, <2>2 DEF Files
  <2> DEFINE a == Files(disk)
  <2>4. Traced(<<>>, a, a)
    <3> HIDE DEF a
    <3>1. Leads([n \in {0} |-> a], <<>>, a, a)
      <4>1. Len(<<>>) = 0 /\ \A n \in 1..0 : FALSE OBVIOUS
      <4> QED BY <4>1 DEF Leads
    <3> QED BY <3>1 DEF Traced
  <2> QED BY <2>3, <2>4, <1>1 DEF TraceOK, c
<1>9. NoPattern
  <2>1. Len(<<>>) = 0 /\ (\A n \in 1..0 : FALSE) /\ <<>> \in Seq(Rules) OBVIOUS
  <2> QED BY <2>1, <1>1 DEF NoPattern
<1>10. LinksOK
  <2>1. Listed("L") = DOMAIN d BY <1>2 DEF Listed, ReadAll
  <2>2. inode_map = [s \in Side |-> [i \in Inodes |->
           [names |-> Enumeration({p \in Listed(s) : Linked(s, p) /\ disk[s][p] = i}),
            hash |-> {p \in Listed(s) : Linked(s, p) /\ disk[s][p] = i}]]]
    BY DEF Init
  <2>3. inode_map["L"] = [i \in Inodes |-> [names |-> Enumeration(M(i)), hash |-> M(i)]]
    BY <2>1, <2>2, <1>2
  <2>4. ASSUME NEW i \in Inodes PROVE GoodGroup(inode_map["L"][i], MembersOf(c, i))
    <3>1. MembersOf(c, i) = M(i)
      <4>1. \A x \in Paths : [ino |-> i, linked |-> TRUE] \in c[x] <=> x \in M(i)
        <5> SUFFICES ASSUME NEW x \in Paths
                     PROVE  [ino |-> i, linked |-> TRUE] \in c[x] <=> x \in M(i)
          OBVIOUS
        <5>1. CASE x \in DOMAIN d
          <6>1. c[x] = {[ino |-> d[x], linked |-> Linked("L", x)]} BY <5>1, <1>5
          <6>2. [ino |-> i, linked |-> TRUE] \in c[x] <=> d[x] = i /\ Linked("L", x) = TRUE BY <6>1
          <6>3. Linked("L", x) = TRUE <=> Linked("L", x) BY <1>6
          <6> QED BY <5>1, <6>2, <6>3
        <5>2. CASE x \notin DOMAIN d BY <5>2, <1>5
        <5> QED BY <5>1, <5>2
      <4>2. M(i) \subseteq Paths BY <1>7
      <4> HIDE DEF M
      <4> QED BY <4>1, <4>2 DEF MembersOf
    <3>2. IsFiniteSet(M(i)) /\ M(i) \subseteq Paths
      <4>1. M(i) \subseteq DOMAIN d OBVIOUS
      <4> HIDE DEF M
      <4> QED BY <4>1, <1>7, FS_Subset
    <3> DEFINE S == M(i)
               f == Enumeration(S)
               n == Cardinality(S)
    <3>3. inode_map["L"][i].names = f /\ inode_map["L"][i].hash = S BY <2>3
    <3> HIDE DEF S
    <3>4. /\ n \in Nat /\ f \in [1..n -> S] /\ \A j, k \in 1..n : f[j] = f[k] => j = k
          /\ \A x \in S : \E k \in 1..n : f[k] = x
      BY <3>2, EnumerationIs DEF S
    <3> HIDE DEF f, n
    <3>5. f \in Seq(S) /\ Len(f) = n BY <3>4
    <3>6. GoodGroup(inode_map["L"][i], S) BY <3>2, <3>3, <3>4, <3>5 DEF GoodGroup, S
    <3> QED BY <3>1, <3>6 DEF S
  <2>5. inode_map = [s \in Side |-> inode_map[s]] BY <2>2
  <2>6. inode_map["L"] = [i \in Inodes |-> inode_map["L"][i]] BY <2>3
  <2> QED BY <2>4, <2>5, <2>6 DEF LinksOK, c
<1> QED BY <1>8, <1>9, <1>10 DEF GroupsInv

\* As many names as members.
LEMMA NamesCount ==
    ASSUME NEW g, NEW M, GoodGroup(g, M), IsFiniteSet(M)
    PROVE  Cardinality(M) = Len(g.names)
<1> DEFINE n == Len(g.names)
           f == g.names
<1>1. /\ f \in Seq(M) /\ n \in Nat /\ f \in [1..n -> M]
      /\ \A j, k \in 1..n : f[j] = f[k] => j = k
      /\ \A x \in M : \E k \in 1..n : f[k] = x
  BY DEF GoodGroup
<1> HIDE DEF f
<1>2. f \in Bijection(1..n, M) BY <1>1 DEF Bijection, Injection, Surjection, IsInjective
<1>3. ExistsBijection(1..n, M) BY <1>2 DEF ExistsBijection
<1>4. IsFiniteSet(1..n) /\ Cardinality(1..n) = n BY <1>1, FS_Interval
<1> QED BY <1>3, <1>4, FS_Bijection DEF f

\* At rest what the messages led to is there, so the groups are those of the disk.
LEMMA GroupsShow ==
    ASSUME Inv, GroupsInv
    PROVE  GroupsAgree
<1> SUFFICES ASSUME AtRest, rules = <<>>, NEW i \in Inodes
             PROVE  LET g == inode_map["L"][i]
                        names == {g.names[k] : k \in DOMAIN g.names}
                    IN  /\ Cardinality(names) = Len(g.names) /\ g.hash = names
                        /\ \A p \in names : Exists("L", p) /\ disk["L"][p] = i
                        /\ \A e \in {list["L"][rows[r].L] : r \in ShownOn("L")} :
                              e.linked /\ e.ino = i => e.path \in names
  BY DEF GroupsAgree
<1> DEFINE c == Cells(list, map)
           M == MembersOf(c, i)
           g == inode_map["L"][i]
           names == {g.names[k] : k \in DOMAIN g.names}
<1>1. Posted = <<>> BY DEF AtRest, Inv, ThreadOK, Posted
<1>2. InodesOf(c) = Files(disk)
  <2>1. PICK h : Leads(h, Posted, InodesOf(c), Files(disk)) BY DEF GroupsInv, TraceOK, Traced
  <2>2. Len(Posted) = 0 BY <1>1
  <2> QED BY <2>1, <2>2 DEF Leads
<1>3. GoodGroup(g, M) BY DEF GroupsInv, LinksOK
<1>4. M \subseteq Paths BY DEF MembersOf
<1>5. IsFiniteSet(M) BY <1>4, PathsAre, FS_Subset
<1>6. ASSUME NEW p \in M PROVE Exists("L", p) /\ disk["L"][p] = i
  <2>1. p \in Paths /\ [ino |-> i, linked |-> TRUE] \in c[p] BY DEF MembersOf
  <2> HIDE DEF c, M
  <2>2. i \in InodesOf(c)[p]
    <3>1. InodesOf(c)[p] = {l.ino : l \in c[p]} BY <2>1 DEF InodesOf
    <3>2. [ino |-> i, linked |-> TRUE].ino = i OBVIOUS
    <3> QED BY <2>1, <3>1, <3>2
  <2>3. i \in Files(disk)[p] BY <2>2, <1>2
  <2> QED BY <2>1, <2>3 DEF Files, Exists
<1>7. ASSUME NEW r \in ShownOn("L"), list["L"][rows[r].L].linked, list["L"][rows[r].L].ino = i
      PROVE  list["L"][rows[r].L].path \in M
  <2> DEFINE k == rows[r].L
             e == list["L"][k]
  <2>1. /\ ArraysOK(list, map, rows) /\ RowsPoint(list, rows, {}) /\ EntriesPoint(list, map, rows, {})
    BY DEF Inv, TablesSound, Sound
  <2>2. r \in 1..Len(rows) /\ k # 0 /\ k = rows[r]["L"] /\ r # 0
    BY <2>1 DEF ShownOn, ArraysOK
  <2>3. k \in 1..Len(list["L"]) /\ e.row = r BY <2>1, <2>2, SideIs DEF RowsPoint
  <2>4. map["L"][e.path] = k BY <2>1, <2>2, <2>3, SideIs DEF EntriesPoint
  <2>5. e \in Entries BY <2>1, <2>3, SideIs DEF ArraysOK
  <2>6. e.path \in Paths /\ e.linked = TRUE /\ e.ino = i
    <3>1. e.path \in Paths /\ e.linked \in BOOLEAN BY <2>5, EntryFields
    <3> QED BY <3>1, <1>7
  <2>7. c[e.path] = {LinkOf(e)} BY <2>2, <2>4, <2>6 DEF Cells
  <2>8. LinkOf(e) = [ino |-> i, linked |-> TRUE] BY <2>6 DEF LinkOf
  <2> QED BY <2>6, <2>7, <2>8 DEF MembersOf
<1> HIDE DEF M, g
<1>8. names = M
  <2>1. g.names \in Seq(M) /\ DOMAIN g.names = 1..Len(g.names) /\ \A k \in 1..Len(g.names) : g.names[k] \in M
    BY <1>3 DEF GoodGroup
  <2>2. \A x \in M : \E k \in 1..Len(g.names) : g.names[k] = x BY <1>3 DEF GoodGroup
  <2> QED BY <2>1, <2>2
<1>9. Cardinality(M) = Len(g.names) /\ g.hash = M BY <1>3, <1>5, NamesCount DEF GoodGroup
<1> HIDE DEF names
<1> QED BY <1>6, <1>7, <1>8, <1>9 DEF g, names

\* When every directory was read and every rename was told, at rest and before any pattern,
\* a group of hard links of the source lists each of its paths once, only paths that are on
\* the disk with its inode, and all that the rows show as its links, and its hash is the one
\* of its names (traversal_add_link, traversal_unlink and hard_link_replace_node keep up with
\* the disk).
THEOREM GroupsAgreeAlways ==
    ASSUME ReadAll
    PROVE  Spec => []GroupsAgree
<1>1. Init => (~untold => Inv /\ GroupsInv) BY InitInv, InitGroups
<1>2. (~untold => Inv /\ GroupsInv) /\ [Next]_vars => (~untold => Inv /\ GroupsInv)'
  BY NextInv, NextGroups, UntoldStays
<1>3. (~untold => Inv /\ GroupsInv) => GroupsAgree BY GroupsShow DEF GroupsAgree, AtRest
<1> QED BY <1>1, <1>2, <1>3, PTL DEF Spec
===============================================================================
