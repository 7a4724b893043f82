--------------------------- MODULE ManualSyncProofs ---------------------------
(***************************************************************************)
(* Theorems about ManualSync.  For all trees, plans, refusals and stops    *)
(* the backup stays a tree and only the planned places of it change.  Of a *)
(* whole synchronisation: with delete-after nothing is written through a   *)
(* symlink, and one that met no error has copied all that was planned,     *)
(* touched nothing else, and made the backup a mirror, hard links included.*)
(***************************************************************************)
EXTENDS ManualSync, FiniteSetTheorems, TLAPS

-----------------------------------------------------------------------------
(* What every tree the work leaves behind has in common: t is the backup, o *)
(* what it was at the analysis, T the places to copy, D those to delete.   *)

Covered(o, T, q) == q \in T \/ \E r \in T : OneFile(o, r, q)

Passed(t, o, T, q) ==
    /\ t[q].kind = "dir"
    /\ o[q].kind = "none" => \E p \in T : q \in Above[p]
    /\ o[q].kind # "none" => t[q] = [o[q] EXCEPT !.mtime = Now]
Allowed(t, o, T, D, q) ==
    t[q] = o[q] \/ q \in D \/ Covered(o, T, q) \/ Passed(t, o, T, q)

IsShape(t) == \A p \in Place : Exists(t, p) => \A a \in Above[p] : t[a].kind = "dir"
\* A file that is written under a target's name has no name that may not change.
Shares(t, o, T) ==
    \A p, q \in Place : OneFile(t, p, q) /\ Covered(o, T, p) => Covered(o, T, q)

Kept(t, o, T, D) ==
    /\ t \in [Place -> Node]
    /\ IsShape(t)
    /\ Shares(t, o, T)
    /\ \A q \in Place : Allowed(t, o, T, D, q)

\* An entry can be made at p.
Reached(t, p) == \A a \in Above[p] : t[a].kind = "dir"

-----------------------------------------------------------------------------
(* The operations on trees.                                                *)

USE DEF Exists

\* Above is the ancestor relation.
LEMMA AboveFacts ==
    /\ \A p \in Place : Above[p] \subseteq Place /\ p \notin Above[p]
    /\ \A p \in Place : \A a \in Above[p] : Above[a] \subseteq Above[p]
  BY AboveAssumption

\* A file has an identity of its own when it is made.
LEMMA FreshNew ==
    ASSUME NEW t \in [Place -> Node]
    PROVE  Fresh(t) \in Inodes /\ \A q \in Place : t[q].ino # Fresh(t)
<1> DEFINE f == [p \in Place |-> t[p].ino]
<1>1. f \in [Place -> Inodes]  BY DEF Node
<1>2. \E i \in Inodes : \A p \in Place : f[p] # i  BY <1>1, SyncAssumption
<1>3. \E i \in Inodes : \A q \in Place : t[q].ino # i  BY <1>2
<1> QED  BY <1>3 DEF Fresh

\* The nodes the work makes up.
LEMMA MadeNodes ==
    /\ Absent \in Node /\ Absent.kind = "none"
    /\ FreshDir \in Node /\ FreshDir.kind = "dir"
    /\ \A n \in Node : [n EXCEPT !.mtime = Now] \in Node
  BY SyncAssumption DEF Node, Absent, FreshDir, Kinds, Partial

\* A new time leaves kind and identity.
LEMMA NewTime ==
    \A n \in Node : [n EXCEPT !.mtime = Now].kind = n.kind /\ [n EXCEPT !.mtime = Now].ino = n.ino
  BY DEF Node

\* A directory may get a new time.
LEMMA TouchAllowed ==
    ASSUME NEW t, NEW u, NEW o, NEW T, NEW D, NEW q, Allowed(t, o, T, D, q),
           t[q].kind = "dir", u[q] = [t[q] EXCEPT !.mtime = Now], u[q].kind = "dir"
    PROVE  Allowed(u, o, T, D, q)
<1>1. CASE t[q] = o[q]  BY <1>1 DEF Allowed, Passed
<1>2. CASE Passed(t, o, T, q)
  <2>1. CASE o[q].kind = "none"  BY <2>1, <1>2 DEF Allowed, Passed
  <2>2. CASE o[q].kind # "none"
    <3>1. t[q] = [o[q] EXCEPT !.mtime = Now]  BY <1>2, <2>2 DEF Passed
    <3>2. u[q] = [o[q] EXCEPT !.mtime = Now]  BY <3>1
    <3> QED  BY <2>2, <3>2 DEF Allowed, Passed
  <2> QED  BY <2>1, <2>2
<1> QED  BY <1>1, <1>2 DEF Allowed

\* The missing directories above a target may be made, from the top.
LEMMA ParentsKept ==
    ASSUME NEW t, NEW o, NEW T \in SUBSET Place, NEW D, Kept(t, o, T, D),
           NEW p \in T, NEW S \in SUBSET Missing(t, p),
           \A a \in S : Above[a] \cap Missing(t, p) \subseteq S,
           S # {} => \A a \in Above[p] : t[a].kind \in {"none", "dir"}
    PROVE  /\ Kept(Parents(t, S), o, T, D)
           /\ Parents(t, S)[p] = t[p]
           /\ \A q \in Place \ S : /\ Parents(t, S)[q].kind = t[q].kind
                                   /\ Parents(t, S)[q].ino = t[q].ino
           /\ \A q \in S : Parents(t, S)[q].kind = "dir"
<1> DEFINE u == Parents(t, S)
           touched(q) == \E s \in S : IsParent(q, s) /\ ~Exists(t, s)
<1>1. p \in Place /\ S \subseteq Place /\ S \subseteq Above[p] /\ \A a \in S : ~Exists(t, a)
  BY AboveFacts DEF Missing
<1>2. t \in [Place -> Node] /\ IsShape(t) /\ Shares(t, o, T) /\ \A q \in Place : Allowed(t, o, T, D, q)
  BY DEF Kept
<1>3. \A q \in Place : u[q] = IF q \in S THEN FreshDir
                              ELSE IF touched(q) THEN [t[q] EXCEPT !.mtime = Now] ELSE t[q]
  BY <1>1 DEF Parents, Enter
<1>4. u \in [Place -> Node]
  <2>1. \A q \in Place : u[q] \in Node  BY <1>2, <1>3, MadeNodes
  <2>2. u = [q \in Place |-> u[q]]  BY DEF Parents, Enter
  <2> QED  BY <2>1, <2>2
<1>5. \A q \in Place \ S : u[q].kind = t[q].kind /\ u[q].ino = t[q].ino
  BY <1>2, <1>3 DEF Node
<1>6. \A q \in S : u[q].kind = "dir" /\ u[q] = FreshDir /\ t[q].kind = "none"
  BY <1>1, <1>3, MadeNodes DEF Exists
<1>7. ASSUME NEW q \in Place \ S, touched(q)  PROVE t[q].kind = "dir"
  <2>1. PICK s \in S : IsParent(q, s)  BY <1>7
  <2>2. q \in Above[s] /\ q \in Above[p]  BY <2>1, <1>1, AboveFacts DEF IsParent
  <2>3. t[q].kind # "none"  BY <2>2, <1>1 DEF Missing
  <2> QED  BY <2>2, <2>3, <1>1
<1>8. u[p] = t[p]
  <2>1. p \notin S  BY <1>1, AboveFacts
  <2>2. ~touched(p)
    BY <1>1, AboveFacts DEF IsParent
  <2> QED  BY <2>1, <2>2, <1>1, <1>3
<1>9. IsShape(u)
  <2> SUFFICES ASSUME NEW q \in Place, u[q].kind # "none", NEW a \in Above[q]
               PROVE  u[a].kind = "dir"
    BY DEF IsShape
  <2>1. a \in Place  BY AboveFacts
  <2>2. CASE q \in S
    <3>1. a \in Above[p]  BY <2>2, <1>1, AboveFacts
    <3>2. CASE a \in S  BY <3>2, <1>6
    <3>3. CASE a \notin S
      <4>1. t[a].kind # "none"  BY <3>1, <3>3, <2>2 DEF Missing
      <4>2. t[a].kind = "dir"  BY <3>1, <4>1, <2>2
      <4> QED  BY <4>2, <2>1, <3>3, <1>5
    <3> QED  BY <3>2, <3>3
  <2>3. CASE q \notin S
    <3>1. t[q].kind # "none"  BY <2>3, <1>5
    <3>2. t[a].kind = "dir"  BY <3>1, <1>2 DEF IsShape
    <3> QED  BY <3>2, <2>1, <1>5, <1>6
  <2> QED  BY <2>2, <2>3
<1>10. Shares(u, o, T)
  <2>1. \A q \in Place : u[q].kind = "file" => t[q].kind = "file" /\ t[q].ino = u[q].ino
    BY <1>5, <1>6
  <2> QED  BY <2>1, <1>2 DEF Shares, OneFile
<1>11. ASSUME NEW q \in Place  PROVE Allowed(u, o, T, D, q)
  <2>1. Allowed(t, o, T, D, q)  BY <1>2
  <2>2. CASE q \in S
    <3>1. u[q].kind = "dir" /\ t[q].kind = "none" /\ q \in Above[p]  BY <2>2, <1>1, <1>6
    <3>2. o[q].kind = "none" \/ t[q] # o[q]  BY <3>1
    <3>3. ~Passed(t, o, T, q)  BY <3>1 DEF Passed
    <3> QED  BY <2>1, <3>1, <3>2, <3>3 DEF Allowed, Passed
  <2>3. CASE q \notin S /\ ~touched(q)  BY <2>1, <2>3, <1>3 DEF Allowed, Passed
  <2>4. CASE q \notin S /\ touched(q)
    <3>1. t[q].kind = "dir" /\ u[q] = [t[q] EXCEPT !.mtime = Now] /\ u[q].kind = "dir"
      BY <2>4, <1>3, <1>5, <1>7
    <3> QED  BY <2>1, <3>1, TouchAllowed
  <2> QED  BY <2>2, <2>3, <2>4
<1> QED  BY <1>4, <1>5, <1>6, <1>8, <1>9, <1>10, <1>11 DEF Kept

\* What is removed is gone, and the rest is what it was.
LEMMA RemoveNodes ==
    ASSUME NEW t \in [Place -> Node], NEW S \in SUBSET Place
    PROVE  /\ \A q \in S : Without(t, S)[q].kind = "none"
           /\ \A q \in Place \ S : /\ Without(t, S)[q].kind = t[q].kind
                                   /\ Without(t, S)[q].ino = t[q].ino
<1> DEFINE u == Without(t, S)
           touched(q) == \E s \in S : IsParent(q, s) /\ Exists(t, s)
<1>1. \A q \in Place : u[q] = IF q \in S THEN Absent
                              ELSE IF touched(q) THEN [t[q] EXCEPT !.mtime = Now] ELSE t[q]
  BY DEF Without
<1>2. \A q \in Place \ S : u[q].kind = t[q].kind /\ u[q].ino = t[q].ino
  <2> SUFFICES ASSUME NEW q \in Place \ S PROVE u[q].kind = t[q].kind /\ u[q].ino = t[q].ino
    OBVIOUS
  <2>2. u[q] = t[q] \/ u[q] = [t[q] EXCEPT !.mtime = Now]  BY <1>1
  <2> QED  BY <2>2, NewTime
<1>3. \A q \in S : u[q].kind = "none"
  BY <1>1, MadeNodes
<1> QED  BY <1>2, <1>3

\* Planned places may be removed, with what is below them or with nothing there.
LEMMA RemoveKept ==
    ASSUME NEW t, NEW o, NEW T \in SUBSET Place, NEW D, Kept(t, o, T, D),
           NEW S \in SUBSET Place,
           \A s \in S : s \in T \/ s \in D,
           \A s \in S : \A q \in Place : s \in Above[q] /\ Exists(t, q) => q \in S
    PROVE  Kept(Without(t, S), o, T, D)
<1> DEFINE u == Without(t, S)
           touched(q) == \E s \in S : IsParent(q, s) /\ Exists(t, s)
<1>2. t \in [Place -> Node] /\ IsShape(t) /\ Shares(t, o, T) /\ \A q \in Place : Allowed(t, o, T, D, q)
  BY DEF Kept
<1>3. \A q \in Place : u[q] = IF q \in S THEN Absent
                              ELSE IF touched(q) THEN [t[q] EXCEPT !.mtime = Now] ELSE t[q]
  BY DEF Without
<1>4. u \in [Place -> Node]
  <2>1. \A q \in Place : u[q] \in Node  BY <1>2, <1>3, MadeNodes
  <2>2. u = [q \in Place |-> u[q]]  BY DEF Without
  <2> QED  BY <2>1, <2>2
<1>5. \A q \in Place \ S : u[q].kind = t[q].kind /\ u[q].ino = t[q].ino
  BY <1>2, RemoveNodes
<1>6. \A q \in S : u[q].kind = "none"
  BY <1>2, RemoveNodes
<1>7. ASSUME NEW q \in Place \ S, touched(q)  PROVE t[q].kind = "dir"
  BY <1>2, <1>7 DEF IsShape, IsParent
<1>9. IsShape(u)
  <2> SUFFICES ASSUME NEW q \in Place, u[q].kind # "none", NEW a \in Above[q]
               PROVE  u[a].kind = "dir"
    BY DEF IsShape
  <2>1. a \in Place /\ q \notin S /\ t[q].kind # "none"  BY AboveFacts, <1>5, <1>6
  <2>2. a \notin S  BY <2>1
  <2>3. t[a].kind = "dir"  BY <2>1, <1>2 DEF IsShape
  <2> QED  BY <2>1, <2>2, <2>3, <1>5
<1>10. Shares(u, o, T)
  <2>1. \A q \in Place : u[q].kind = "file" => t[q].kind = "file" /\ t[q].ino = u[q].ino
    BY <1>5, <1>6
  <2> QED  BY <2>1, <1>2 DEF Shares, OneFile
<1>11. ASSUME NEW q \in Place  PROVE Allowed(u, o, T, D, q)
  <2>1. Allowed(t, o, T, D, q)  BY <1>2
  <2>2. CASE q \in S  BY <2>2 DEF Allowed, Covered
  <2>3. CASE q \notin S /\ ~touched(q)  BY <2>1, <2>3, <1>3 DEF Allowed, Passed
  <2>4. CASE q \notin S /\ touched(q)
    <3>1. t[q].kind = "dir" /\ u[q] = [t[q] EXCEPT !.mtime = Now] /\ u[q].kind = "dir"
      BY <2>4, <1>3, <1>5, <1>7
    <3> QED  BY <2>1, <3>1, TouchAllowed
  <2> QED  BY <2>2, <2>3, <2>4
<1> QED  BY <1>4, <1>9, <1>10, <1>11 DEF Kept

\* An entry may be put at a target, if it fits there: a file that is put is a new
\* one or another name of a covered one.
LEMMA PutKept ==
    ASSUME NEW t, NEW o, NEW T \in SUBSET Place, NEW D, Kept(t, o, T, D),
           NEW p \in T, NEW n \in Node, Reached(t, p),
           n.kind = "dir" \/ \A q \in Place : p \in Above[q] => ~Exists(t, q),
           n.kind = "file" =>
              \A q \in Place : t[q].kind = "file" /\ t[q].ino = n.ino => Covered(o, T, q)
    PROVE  Kept(Enter(t, {p}, n), o, T, D)
<1> DEFINE u == Enter(t, {p}, n)
           touched(q) == IsParent(q, p) /\ ~Exists(t, p)
<1>1. p \in Place  OBVIOUS
<1>2. t \in [Place -> Node] /\ IsShape(t) /\ Shares(t, o, T) /\ \A q \in Place : Allowed(t, o, T, D, q)
  BY DEF Kept
<1>3. \A q \in Place : u[q] = IF q = p THEN n
                              ELSE IF touched(q) THEN [t[q] EXCEPT !.mtime = Now] ELSE t[q]
  BY DEF Enter
<1>4. u \in [Place -> Node]
  <2>1. \A q \in Place : u[q] \in Node  BY <1>2, <1>3, MadeNodes
  <2>2. u = [q \in Place |-> u[q]]  BY DEF Enter
  <2> QED  BY <2>1, <2>2
<1>5. \A q \in Place \ {p} : u[q].kind = t[q].kind /\ u[q].ino = t[q].ino
  BY <1>2, <1>3 DEF Node
<1>6. u[p] = n  BY <1>1, <1>3
<1>7. ASSUME NEW q \in Place \ {p}, touched(q)  PROVE t[q].kind = "dir"
  BY <1>7 DEF IsParent, Reached
<1>9. IsShape(u)
  <2> SUFFICES ASSUME NEW q \in Place, u[q].kind # "none", NEW a \in Above[q]
               PROVE  u[a].kind = "dir"
    BY DEF IsShape
  <2>1. a \in Place /\ a # q  BY AboveFacts
  <2>2. CASE q = p  BY <2>1, <2>2, <1>5 DEF Reached
  <2>3. CASE q # p
    <3>1. t[q].kind # "none"  BY <2>3, <1>5
    <3>2. t[a].kind = "dir"  BY <3>1, <1>2 DEF IsShape
    <3>3. a = p => n.kind = "dir"  BY <3>1 DEF Exists
    <3> QED  BY <2>1, <3>2, <3>3, <1>5, <1>6
  <2> QED  BY <2>2, <2>3
<1>10. Shares(u, o, T)
  <2> SUFFICES ASSUME NEW q \in Place, NEW r \in Place, OneFile(u, q, r), Covered(o, T, q)
               PROVE  Covered(o, T, r)
    BY DEF Shares
  <2>1. CASE r = p  BY <2>1 DEF Covered
  <2>2. CASE r # p /\ q = p  BY <2>2, <1>5, <1>6 DEF OneFile
  <2>3. CASE r # p /\ q # p
    <3>1. OneFile(t, q, r)  BY <2>3, <1>5 DEF OneFile
    <3> QED  BY <3>1, <1>2 DEF Shares
  <2> QED  BY <2>1, <2>2, <2>3
<1>11. ASSUME NEW q \in Place  PROVE Allowed(u, o, T, D, q)
  <2>1. Allowed(t, o, T, D, q)  BY <1>2
  <2>2. CASE q = p  BY <2>2 DEF Allowed, Covered
  <2>3. CASE q # p /\ ~touched(q)  BY <2>1, <2>3, <1>3 DEF Allowed, Passed
  <2>4. CASE q # p /\ touched(q)
    <3>1. t[q].kind = "dir" /\ u[q] = [t[q] EXCEPT !.mtime = Now] /\ u[q].kind = "dir"
      BY <2>4, <1>3, <1>5, <1>7
    <3> QED  BY <2>1, <3>1, TouchAllowed
  <2> QED  BY <2>2, <2>3, <2>4
<1> QED  BY <1>4, <1>9, <1>10, <1>11 DEF Kept

\* A target that is a file may be written, with all its names.
LEMMA WrittenKept ==
    ASSUME NEW t, NEW o, NEW T \in SUBSET Place, NEW D, Kept(t, o, T, D),
           NEW p \in T, t[p].kind = "file", NEW a \in Nat, NEW m \in Nat
    PROVE  /\ Kept(Written(t, p, a, m), o, T, D)
           /\ Written(t, p, a, m)[p].kind = "file"
<1> DEFINE u == Written(t, p, a, m)
<1>1. p \in Place /\ Covered(o, T, p)  BY DEF Covered
<1>2. t \in [Place -> Node] /\ IsShape(t) /\ Shares(t, o, T) /\ \A q \in Place : Allowed(t, o, T, D, q)
  BY DEF Kept
<1>3. \A q \in Place : u[q] = IF OneFile(t, q, p) THEN [t[q] EXCEPT !.attr = a, !.mtime = m] ELSE t[q]
  BY DEF Written, OneFile
<1>4. \A n \in Node : /\ [n EXCEPT !.attr = a, !.mtime = m] \in Node
                      /\ [n EXCEPT !.attr = a, !.mtime = m].kind = n.kind
                      /\ [n EXCEPT !.attr = a, !.mtime = m].ino = n.ino
  BY DEF Node
<1>5. u \in [Place -> Node] /\ \A q \in Place : u[q].kind = t[q].kind /\ u[q].ino = t[q].ino
  <2>1. \A q \in Place : u[q] \in Node /\ u[q].kind = t[q].kind /\ u[q].ino = t[q].ino
    BY <1>2, <1>3, <1>4
  <2>2. u = [q \in Place |-> u[q]]  BY DEF Written
  <2> QED  BY <2>1, <2>2
<1>6. IsShape(u)  BY <1>2, <1>5, AboveFacts DEF IsShape, Exists
<1>7. Shares(u, o, T)  BY <1>2, <1>5 DEF Shares, OneFile
<1>8. ASSUME NEW q \in Place  PROVE Allowed(u, o, T, D, q)
  <2>1. CASE OneFile(t, q, p)
    <3>1. Covered(o, T, q)  BY <2>1, <1>1, <1>2 DEF Shares, OneFile
    <3> QED  BY <3>1 DEF Allowed
  <2>2. CASE ~OneFile(t, q, p)  BY <2>2, <1>2, <1>3 DEF Allowed, Passed
  <2> QED  BY <2>1, <2>2
<1> QED  BY <1>1, <1>5, <1>6, <1>7, <1>8 DEF Kept

-----------------------------------------------------------------------------
(* The invariant.                                                          *)

DoomedPlaces == {q \in Place : Doomed(q)}

\* What is still to be done was asked for.
InputInv == src \in SourceTrees /\ old \in BackupTrees /\ plan.copy \subseteq Keys /\ plan.delete \subseteq Keys
ToDo(k) == k \in Keys /\ k[1] \in Targets
WorkInv ==
    /\ doomed \subseteq plan.delete /\ pending \subseteq plan.copy
    /\ open # {} => phase = "copy"
    /\ \A k \in group : ToDo(k)
    /\ \A k \in again : ToDo(k)
    /\ \A k \in open : ToDo(k) /\ dst[k[1]].kind = "file"
LinkInv == links \subseteq Inodes \X Targets
FlagInv ==
    /\ phase \in {"delete", "copy", "done"}
    /\ own \in BOOLEAN /\ stop \in BOOLEAN /\ errors \in BOOLEAN /\ outside \in BOOLEAN

Invariant ==
    /\ InputInv /\ WorkInv /\ LinkInv /\ FlagInv
    /\ Kept(dst, old, Targets, DoomedPlaces)

\* Keys are of places.
LEMMA KeyFacts ==
    /\ \A k \in Keys : k[1] \in Place
    /\ \A t, p : AllNames(t, p) \subseteq Keys
    /\ \A k : NamesWith(k) \subseteq Keys
<1>1. \A t : KeysOf(t) \subseteq Keys  BY DEF KeysOf, KeyAt, Keys
<1>2. \A t, p : AllNames(t, p) \subseteq Keys  BY <1>1 DEF AllNames, Names
<1>3. \A k : NamesWith(k) \subseteq Keys  BY <1>2 DEF NamesWith
<1> QED  BY <1>2, <1>3 DEF Keys

\* The names that come with a chosen key are targets, as it is.
LEMMA TargetFacts ==
    ASSUME InputInv
    PROVE  /\ Targets \subseteq Place
           /\ \A k \in plan.copy : ToDo(k) /\ \A l \in NamesWith(k) : ToDo(l)
  BY KeyFacts DEF InputInv, Targets, ToDo

\* What is asked for is made of keys.
LEMMA PlansTyped ==
    ASSUME plan \in Plans
    PROVE  plan.copy \subseteq Keys /\ plan.delete \subseteq Keys
<1>1. \A t : KeysOf(t) \subseteq Keys  BY DEF KeysOf, KeyAt, Keys
<1>2. ToTransfer(src, old, opts) \subseteq Keys  BY <1>1 DEF ToTransfer
<1>3. DeletionsOf(src, old, opts) \subseteq Keys  BY <1>1 DEF DeletionsOf
<1>4. TransfersOf(src, old, opts) \subseteq Keys
  BY <1>2, KeyFacts DEF TransfersOf, GroupOf
<1> QED  BY <1>1, <1>2, <1>3, <1>4 DEF Plans, Plan

\* It holds at first.
LEMMA InvariantInit == Init => Invariant
<1> SUFFICES ASSUME Init PROVE Invariant  OBVIOUS
<1>1. InputInv  BY PlansTyped DEF Init, InputInv
<1>2. WorkInv /\ LinkInv /\ FlagInv  BY DEF Init, WorkInv, LinkInv, FlagInv
<1>3. dst = old /\ old \in [Place -> Node] /\ IsTree(old)  BY SyncAssumption DEF Init
<1>4. IsShape(dst)  BY <1>3 DEF IsShape, IsTree, Exists
<1>5. Shares(dst, old, Targets)  BY <1>3 DEF Shares, Covered, OneFile
<1>6. \A q \in Place : Allowed(dst, old, Targets, DoomedPlaces, q)  BY <1>3 DEF Allowed
<1> QED  BY <1>1, <1>2, <1>3, <1>4, <1>5, <1>6 DEF Invariant, Kept

-----------------------------------------------------------------------------
(* Steps. What is asked for does not change, so targets stay targets.      *)

LEMMA InputsStay ==
    ASSUME InputInv, UNCHANGED inputs
    PROVE  InputInv' /\ Targets' = Targets /\ DoomedPlaces' = DoomedPlaces
  BY DEF InputInv, inputs, Targets, DoomedPlaces, Doomed, NamesWith

\* What is left of the invariant when inputs and directories are accounted for.
LEMMA InvariantNext ==
    ASSUME Invariant, UNCHANGED inputs,
           Kept(dst', old, Targets, DoomedPlaces),
           doomed' \subseteq plan.delete, pending' \subseteq plan.copy,
           open' # {} => phase' = "copy", \A k \in group' : ToDo(k), \A k \in again' : ToDo(k),
           \A k \in open' : ToDo(k) /\ dst'[k[1]].kind = "file",
           links' \subseteq Inodes \X Targets, FlagInv'
    PROVE  Invariant'
<1>1. InputInv' /\ Targets' = Targets /\ DoomedPlaces' = DoomedPlaces
  BY InputsStay DEF Invariant
<1>2. old' = old /\ plan' = plan  BY DEF inputs
<1>3. WorkInv'  BY <1>1, <1>2 DEF WorkInv, ToDo
<1>4. LinkInv'  BY <1>1 DEF LinkInv
<1>5. Kept(dst, old, Targets, DoomedPlaces)'  BY <1>1, <1>2
<1> QED  BY <1>1, <1>3, <1>4, <1>5 DEF Invariant

\* A way to a target that is made in part, from above, leaves the tree as it must be.
LEMMA PartKept ==
    ASSUME Invariant, NEW p \in Targets, NEW S \in SUBSET Missing(dst, p),
           \A a \in S : Above[a] \cap Missing(dst, p) \subseteq S, S # {} => Clear(p)
    PROVE  Kept(Parents(dst, S), old, Targets, DoomedPlaces) /\ Parents(dst, S)[p] = dst[p]
<1>1. Kept(dst, old, Targets, DoomedPlaces) /\ Targets \in SUBSET Place
  BY TargetFacts DEF Invariant
<1>2. Above[p] \subseteq Place  BY <1>1, AboveFacts
<1>3. S \in SUBSET Missing(dst, p) /\ \A a \in S : Above[a] \cap Missing(dst, p) \subseteq S
  OBVIOUS
<1>4. CASE S # {}
  <2>1. \A a \in Above[p] : dst[a].kind \in {"none", "dir"}
    <3> SUFFICES ASSUME NEW a \in Above[p]  PROVE dst[a].kind \in {"none", "dir"}
      OBVIOUS
    <3>1. dst[a] \in Node  BY <1>1, <1>2 DEF Kept
    <3>2. dst[a].kind \in Kinds  BY <3>1 DEF Node
    <3> QED  BY <1>4, <3>2 DEF Kinds, Clear, Barred, Diverted
  <2> QED  BY <1>1, <1>3, <2>1, ParentsKept
<1>5. CASE S = {}
  <2>1. dst = [q \in Place |-> dst[q]]  BY <1>1 DEF Kept
  <2>2. Parents(dst, S) = dst  BY <1>5, <2>1 DEF Parents, Enter
  <2> QED  BY <1>1, <2>2
<1> QED  BY <1>4, <1>5

\* The path to a target that no file, special file or symlink bars can be made.
LEMMA WayKept ==
    ASSUME Invariant, NEW p \in Targets, Clear(p), NEW t, t = Parents(dst, Missing(dst, p))
    PROVE  /\ Kept(t, old, Targets, DoomedPlaces) /\ Reached(t, p) /\ t[p] = dst[p]
           /\ \A q \in Place : t[q].kind # "dir" => t[q].kind = dst[q].kind /\ t[q].ino = dst[q].ino
           /\ \A q \in Place : dst[q].kind = "file" => t[q].kind = "file" /\ t[q].ino = dst[q].ino
<1>1. Kept(dst, old, Targets, DoomedPlaces) /\ Targets \subseteq Place
  BY TargetFacts DEF Invariant
<1>2. p \in Place /\ Above[p] \subseteq Place  BY <1>1, AboveFacts
<1>3. \A a \in Above[p] : dst[a].kind \in {"none", "dir"}
  <2> SUFFICES ASSUME NEW a \in Above[p]  PROVE dst[a].kind \in {"none", "dir"}
    OBVIOUS
  <2>1. dst[a] \in Node  BY <1>1, <1>2 DEF Kept
  <2>2. dst[a].kind \in Kinds  BY <2>1 DEF Node
  <2> QED  BY <2>2 DEF Kinds, Clear, Barred, Diverted
<1>4. \A a \in Missing(dst, p) : Above[a] \cap Missing(dst, p) \subseteq Missing(dst, p)
  OBVIOUS
<1>5. /\ Kept(t, old, Targets, DoomedPlaces)
      /\ t[p] = dst[p]
      /\ \A q \in Place \ Missing(dst, p) : t[q].kind = dst[q].kind /\ t[q].ino = dst[q].ino
      /\ \A q \in Missing(dst, p) : t[q].kind = "dir"
  <2>1. PICK S : S = Missing(dst, p)  OBVIOUS
  <2>2. S \in SUBSET Missing(dst, p) /\ \A a \in S : Above[a] \cap Missing(dst, p) \subseteq S
    BY <1>4, <2>1
  <2>3. Targets \in SUBSET Place  BY <1>1
  <2>4. /\ Kept(Parents(dst, S), old, Targets, DoomedPlaces)
        /\ Parents(dst, S)[p] = dst[p]
        /\ \A q \in Place \ S : /\ Parents(dst, S)[q].kind = dst[q].kind
                                /\ Parents(dst, S)[q].ino = dst[q].ino
        /\ \A q \in S : Parents(dst, S)[q].kind = "dir"
    BY <1>1, <1>3, <2>2, <2>3, ParentsKept
  <2> QED  BY <2>1, <2>4
<1>6. \A q \in Missing(dst, p) : dst[q].kind = "none"  BY DEF Missing, Exists
<1>7. Reached(t, p)
  BY <1>2, <1>3, <1>5 DEF Reached, Missing, Exists
<1> QED  BY <1>5, <1>6, <1>7

\* What is not a directory can then be removed.
LEMMA ClearedKept ==
    ASSUME Invariant, NEW p \in Targets, Clear(p), dst[p].kind # "dir",
           NEW t, t = Parents(dst, Missing(dst, p)), NEW u, u = Without(t, {p})
    PROVE  /\ Kept(u, old, Targets, DoomedPlaces) /\ Reached(u, p)
           /\ \A q \in Place : p \in Above[q] => ~Exists(u, q)
           /\ \A q \in Place : u[q].kind = "file" => dst[q].kind = "file" /\ t[q].kind = "file"
           /\ \A q \in Place : u[q].kind = "file" => u[q].ino = dst[q].ino /\ u[q].ino = t[q].ino
<1>1. /\ Kept(t, old, Targets, DoomedPlaces) /\ Reached(t, p) /\ t[p] = dst[p]
      /\ \A q \in Place : t[q].kind # "dir" => t[q].kind = dst[q].kind /\ t[q].ino = dst[q].ino
  BY WayKept
<1>2. Targets \subseteq Place /\ p \in Place  BY TargetFacts DEF Invariant
<1>3. \A q \in Place : p \in Above[q] /\ Exists(t, q) => q \in {p}
  BY <1>1 DEF Kept, IsShape
<1>4. /\ Kept(u, old, Targets, DoomedPlaces)
      /\ \A q \in Place \ {p} : u[q].kind = t[q].kind /\ u[q].ino = t[q].ino
      /\ \A q \in {p} : u[q].kind = "none"
  <2>1. Targets \in SUBSET Place /\ {p} \in SUBSET Place /\ \A s \in {p} : s \in Targets  BY <1>2
  <2>2. \A s \in {p} : \A q \in Place : s \in Above[q] /\ Exists(t, q) => q \in {p}  BY <1>3
  <2>3. PICK S : S = {p}  OBVIOUS
  <2>4. S \in SUBSET Place /\ \A s \in S : s \in Targets \/ s \in DoomedPlaces  BY <2>1, <2>3
  <2>5. \A s \in S : \A q \in Place : s \in Above[q] /\ Exists(t, q) => q \in S  BY <2>2, <2>3
  <2>6. Kept(Without(t, S), old, Targets, DoomedPlaces)
    BY <1>1, <2>1, <2>4, <2>5, RemoveKept
  <2>7. /\ \A q \in S : Without(t, S)[q].kind = "none"
        /\ \A q \in Place \ S : /\ Without(t, S)[q].kind = t[q].kind
                                /\ Without(t, S)[q].ino = t[q].ino
    <3>1. t \in [Place -> Node]  BY <1>1 DEF Kept
    <3> QED  BY <2>4, <3>1, RemoveNodes
  <2> QED  BY <2>3, <2>6, <2>7
<1>5. Reached(u, p)  BY <1>1, <1>2, <1>4, AboveFacts DEF Reached
<1>6. \A q \in Place : p \in Above[q] => ~Exists(u, q)
  BY <1>2, <1>4 DEF Kept, IsShape, Exists
<1>7. \A q \in Place : u[q].kind = "file" =>
         dst[q].kind = "file" /\ t[q].kind = "file" /\ u[q].ino = dst[q].ino /\ u[q].ino = t[q].ino
  BY <1>1, <1>4
<1> QED  BY <1>4, <1>5, <1>6, <1>7

\* A new file at a target.
LEMMA NewFileKept ==
    ASSUME Invariant, NEW p \in Targets, Clear(p), dst[p].kind # "dir",
           NEW t, t = Parents(dst, Missing(dst, p)), NEW u, u = Without(t, {p}),
           NEW n \in Node, n.kind = "file",
           \/ n.ino = Fresh(t)
           \/ n.ino = Fresh(dst)
           \/ \E r \in Targets : dst[r].kind = "file" /\ dst[r].ino = n.ino
    PROVE  Kept(Enter(u, {p}, n), old, Targets, DoomedPlaces)
<1>1. /\ Kept(u, old, Targets, DoomedPlaces) /\ Reached(u, p)
      /\ \A q \in Place : p \in Above[q] => ~Exists(u, q)
      /\ \A q \in Place : u[q].kind = "file" => dst[q].kind = "file" /\ t[q].kind = "file"
      /\ \A q \in Place : u[q].kind = "file" => u[q].ino = dst[q].ino /\ u[q].ino = t[q].ino
  BY ClearedKept
<1>2. Targets \subseteq Place /\ p \in Place  BY TargetFacts DEF Invariant
<1>3. t \in [Place -> Node] /\ dst \in [Place -> Node] /\ Shares(dst, old, Targets)
  BY WayKept DEF Kept, Invariant
<1>4. ASSUME NEW q \in Place, u[q].kind = "file", u[q].ino = n.ino  PROVE Covered(old, Targets, q)
  <2>1. dst[q].kind = "file" /\ dst[q].ino = n.ino /\ t[q].ino = n.ino  BY <1>1, <1>4
  <2>2. n.ino # Fresh(t) /\ n.ino # Fresh(dst)  BY <2>1, <1>3, FreshNew
  <2>3. PICK r \in Targets : dst[r].kind = "file" /\ dst[r].ino = n.ino  BY <2>2
  <2>4. OneFile(dst, r, q) /\ Covered(old, Targets, r)  BY <2>1, <2>3 DEF OneFile, Covered
  <2> QED  BY <2>4, <1>2, <1>3 DEF Shares
<1>5. Targets \in SUBSET Place  BY <1>2
<1> QED  BY <1>1, <1>4, <1>5, PutKept

-----------------------------------------------------------------------------
(* The actions.                                                            *)

\* A deletion: what goes is doomed.
LEMMA DeleteStep == ASSUME Invariant, NEW k \in Keys, Delete(k) PROVE Invariant'
<1>1. k \in doomed /\ k \in plan.delete /\ k[1] \in Place
  BY KeyFacts DEF Delete, Invariant, WorkInv
<1>2. Subtree(k) \subseteq DoomedPlaces
  BY <1>1 DEF Subtree, DoomedPlaces, Doomed, Below
<1>3. Kept(dst, old, Targets, DoomedPlaces) /\ IsShape(dst) /\ Targets \subseteq Place
  BY TargetFacts DEF Invariant, Kept
<1>4. \A q \in Subtree(k) : \A b \in Below(q) : Exists(dst, b) => b \in Subtree(k)
  <2> SUFFICES ASSUME NEW q \in Subtree(k), NEW b \in Below(q), Exists(dst, b)
               PROVE  b \in Subtree(k)
    OBVIOUS
  <2>1. b \in Place /\ q \in Above[b] /\ dst[q].kind = "dir"  BY <1>3 DEF Below, IsShape
  <2>2. CASE k[2] = "dir" /\ dst[k[1]].kind = "dir"
    <3>1. q = k[1] \/ k[1] \in Above[q]  BY <2>2 DEF Subtree, Below
    <3>2. k[1] \in Above[b]  BY <3>1, <2>1, AboveFacts
    <3> QED  BY <2>2, <2>1, <3>2 DEF Subtree, Below
  <2>3. CASE ~(k[2] = "dir" /\ dst[k[1]].kind = "dir")
    BY <2>3, <2>1 DEF Subtree
  <2> QED  BY <2>2, <2>3
<1>5. ASSUME NEW gone \in SUBSET Subtree(k),
             \A q \in gone : \A b \in Below(q) : Exists(dst, b) => b \in gone
      PROVE  Kept(Without(dst, gone), old, Targets, DoomedPlaces)
  <2>1. gone \subseteq DoomedPlaces /\ gone \in SUBSET Place
    BY <1>2 DEF DoomedPlaces
  <2>2. \A q \in gone : \A b \in Place : q \in Above[b] /\ Exists(dst, b) => b \in gone
    BY <1>5 DEF Below
  <2> QED  BY <1>3, <2>1, <2>2, RemoveKept
<1>6. Kept(dst', old, Targets, DoomedPlaces)
  BY <1>4, <1>5 DEF Delete
<1>7. doomed' \subseteq plan.delete /\ FlagInv' /\ UNCHANGED inputs
  BY DEF Delete, Invariant, WorkInv, FlagInv
<1>8. UNCHANGED <<phase, pending, group, again, open, links>> /\ phase = "delete"
  BY DEF Delete
<1>9. \A q \in open : dst'[q[1]].kind = "file"
  BY <1>8 DEF Invariant, WorkInv
<1> QED  BY <1>6, <1>7, <1>8, <1>9, InvariantNext DEF Invariant, WorkInv, LinkInv

\* The steps that leave the backup alone.
LEMMA PlainStep ==
    ASSUME Invariant, StopRequested \/ StartCopies \/ TakeAgain \/ Finish
    PROVE  Invariant'
<1>1. UNCHANGED <<inputs, dst, doomed, pending, open, links>> /\ FlagInv'
  BY DEF Invariant, FlagInv, todo, StopRequested, StartCopies, TakeAgain, Finish
<1>2. \A k \in group' : ToDo(k)
  BY DEF Invariant, WorkInv, todo, StopRequested, StartCopies, TakeAgain, Finish
<1>3. \A k \in again' : ToDo(k)
  BY DEF Invariant, WorkInv, todo, StopRequested, StartCopies, TakeAgain, Finish
<1>4. open' # {} => phase' = "copy"
  BY DEF Invariant, WorkInv, todo, StopRequested, StartCopies, TakeAgain, Finish
<1> QED  BY <1>1, <1>2, <1>3, <1>4, InvariantNext DEF Invariant, WorkInv, LinkInv

\* A row is begun: its names are targets.
LEMMA TakeStep == ASSUME Invariant, NEW k \in Keys, Take(k) PROVE Invariant'
<1>1. UNCHANGED <<inputs, dst, doomed, phase, open, links>> /\ FlagInv'
  BY DEF Invariant, FlagInv, Take
<1>2. ToDo(k) /\ \A l \in NamesWith(k) : ToDo(l)
  BY TargetFacts DEF Invariant, WorkInv, Take
<1>3. \A l \in group' : ToDo(l)  BY <1>2 DEF Take
<1>4. \A l \in again' : ToDo(l)  BY <1>2 DEF Take
<1>5. pending' \subseteq plan.copy  BY DEF Invariant, WorkInv, Take
<1> QED  BY <1>1, <1>3, <1>4, <1>5, InvariantNext DEF Invariant, WorkInv, LinkInv

\* What every copy has in common: its place is a target, and only the directories,
\* the open file and the links are left to look at.
LEMMA TurnFacts ==
    ASSUME Invariant, NEW k \in Keys, Turn(k)
    PROVE  /\ k[1] \in Targets /\ k[1] \in Place /\ ToDo(k)
           /\ Targets \in SUBSET Place
           /\ src \in [Place -> Node] /\ dst \in [Place -> Node]
           /\ open = {} /\ phase = "copy"
<1>1. ToDo(k)  BY DEF Turn, Invariant, WorkInv
<1>2. src \in [Place -> Node]  BY SyncAssumption DEF Invariant, InputInv
<1> QED  BY <1>1, <1>2, TargetFacts DEF ToDo, Turn, Invariant, Kept

LEMMA TurnStep ==
    ASSUME Invariant, NEW k \in Keys, Turn(k),
           Kept(dst', old, Targets, DoomedPlaces),
           open' = {} \/ (open' = {k} /\ dst'[k[1]].kind = "file"),
           links' \subseteq Inodes \X Targets,
           errors' \in BOOLEAN, outside' \in BOOLEAN
    PROVE  Invariant'
<1>1. UNCHANGED inputs /\ doomed' \subseteq plan.delete /\ pending' \subseteq plan.copy /\ phase' = "copy"
  BY DEF Turn, Invariant, WorkInv
<1>2. \A l \in group' : ToDo(l)  BY DEF Turn, Invariant, WorkInv
<1>3. \A l \in again' : ToDo(l)  BY DEF Turn, Invariant, WorkInv
<1>4. \A l \in open' : ToDo(l) /\ dst'[l[1]].kind = "file"  BY TurnFacts
<1>5. FlagInv'  BY <1>1 DEF FlagInv, Turn, Invariant
<1> QED  BY <1>1, <1>2, <1>3, <1>4, <1>5, InvariantNext

\* A copy that is given up.
LEMMA FailStep == ASSUME Invariant, NEW k \in Keys, FailCopy(k) PROVE Invariant'
<1> DEFINE p == k[1]
<1>1. Turn(k) /\ UNCHANGED <<open, links, outside>> /\ errors' = TRUE  BY DEF FailCopy
<1>2. /\ p \in Targets /\ p \in Place /\ Targets \in SUBSET Place
      /\ open = {} /\ Kept(dst, old, Targets, DoomedPlaces) /\ dst \in [Place -> Node]
  BY <1>1, TurnFacts DEF Invariant
<1>3. PICK made \in SUBSET Missing(dst, p), gone \in SUBSET {p} :
         /\ \A a \in made : Above[a] \cap Missing(dst, p) \subseteq made
         /\ made # {} \/ gone # {} => Clear(p)
         /\ gone # {} => Unlinks(k)
         /\ dst' = Without(Parents(dst, made), gone)
  BY DEF FailCopy
<1> DEFINE t == Parents(dst, made)
<1>5. Kept(t, old, Targets, DoomedPlaces) /\ t[p] = dst[p]
  BY <1>2, <1>3, PartKept
<1>6. gone # {} => t[p].kind # "dir"  BY <1>3, <1>5 DEF Unlinks
<1>7. gone \in SUBSET Place /\ \A s \in gone : s \in Targets \/ s \in DoomedPlaces
  BY <1>2
<1>8. \A s \in gone : \A q \in Place : s \in Above[q] /\ Exists(t, q) => q \in gone
  BY <1>5, <1>6 DEF Kept, IsShape
<1>9. Kept(Without(t, gone), old, Targets, DoomedPlaces)
  BY <1>2, <1>5, <1>7, <1>8, RemoveKept
<1>10. links' \subseteq Inodes \X Targets /\ outside' \in BOOLEAN
  BY <1>1 DEF Invariant, LinkInv, FlagInv
<1> QED  BY <1>1, <1>2, <1>3, <1>9, <1>10, TurnStep

\* A copy whose calls act beyond a symlink.
LEMMA ElsewhereStep == ASSUME Invariant, NEW k \in Keys, CopyElsewhere(k) PROVE Invariant'
<1>1. Turn(k) /\ UNCHANGED <<dst, open>> /\ outside' = TRUE  BY DEF CopyElsewhere
<1>2. errors' \in BOOLEAN  BY DEF CopyElsewhere, Invariant, FlagInv
<1>3. k[1] \in Targets /\ k[1] \in Place /\ src \in [Place -> Node] /\ open = {}
  BY <1>1, TurnFacts
<1>4. src[k[1]].ino \in Inodes  BY <1>3 DEF Node
<1>5. links' \subseteq Inodes \X Targets
  BY <1>3, <1>4 DEF CopyElsewhere, Invariant, LinkInv
<1> QED  BY <1>1, <1>2, <1>3, <1>5, TurnStep DEF Invariant

\* A directory.
LEMMA DirStep == ASSUME Invariant, NEW k \in Keys, CopyDir(k) PROVE Invariant'
<1> DEFINE p == k[1]
           made == IF dst[p].kind = "dir" THEN dst[p] ELSE FreshDir
<1>1. Turn(k) /\ Clear(p) /\ UNCHANGED <<open, links, outside>>  BY DEF CopyDir
<1>2. /\ p \in Targets /\ p \in Place /\ Targets \in SUBSET Place /\ open = {}
      /\ dst[p] \in Node /\ src[p] \in Node /\ Kept(dst, old, Targets, DoomedPlaces)
  BY <1>1, TurnFacts DEF Invariant
<1>3. errors' \in BOOLEAN
  BY DEF CopyDir, Invariant, FlagInv
<1>4. links' \subseteq Inodes \X Targets /\ outside' \in BOOLEAN
  BY <1>1 DEF Invariant, LinkInv, FlagInv
<1>5. PICK t : t = Parents(dst, Missing(dst, p))  OBVIOUS
<1>6. Kept(t, old, Targets, DoomedPlaces) /\ Reached(t, p)
  BY <1>1, <1>2, <1>5, WayKept
<1>7. ASSUME NEW a \in {made.attr, src[p].attr}, NEW m \in {made.mtime, src[p].mtime}
      PROVE  Kept(Enter(t, {p}, [made EXCEPT !.attr = a, !.mtime = m]), old, Targets, DoomedPlaces)
  <2> DEFINE n == [made EXCEPT !.attr = a, !.mtime = m]
  <2>1. made \in Node /\ made.kind = "dir"  BY <1>2, MadeNodes
  <2> HIDE DEF made
  <2>2. a \in Nat /\ m \in Nat  BY <1>2, <2>1 DEF Node
  <2>3. n \in Node /\ n.kind = "dir"  BY <2>1, <2>2 DEF Node
  <2> HIDE DEF n
  <2>4. n.kind # "file"  BY <2>3
  <2>5. Kept(Enter(t, {p}, n), old, Targets, DoomedPlaces)
    BY <1>2, <1>6, <2>3, <2>4, PutKept
  <2> QED  BY <2>5 DEF n
<1>8. CASE \E a \in {made.attr, src[p].attr}, m \in {made.mtime, src[p].mtime} :
              dst' = Enter(t, {p}, [made EXCEPT !.attr = a, !.mtime = m])
  <2>1. Kept(dst', old, Targets, DoomedPlaces)  BY <1>7, <1>8
  <2> QED  BY <2>1, <1>1, <1>2, <1>3, <1>4, TurnStep
<1>9. CASE dst[p].kind = "file" /\ dst' = Written(dst, p, Partial, src[p].mtime)
  <2>1. Partial \in Nat /\ src[p].mtime \in Nat  BY <1>2 DEF Node, Partial
  <2>2. Kept(dst', old, Targets, DoomedPlaces)  BY <1>2, <1>9, <2>1, WrittenKept
  <2> QED  BY <2>2, <1>1, <1>2, <1>3, <1>4, TurnStep
<1> QED  BY <1>5, <1>8, <1>9 DEF CopyDir

\* A symlink.
LEMMA SymlinkStep == ASSUME Invariant, NEW k \in Keys, CopySymlink(k) PROVE Invariant'
<1> DEFINE p == k[1]
<1>1. /\ Turn(k) /\ Clear(p) /\ UNCHANGED <<open, links, errors, outside>>
      /\ src[p].kind = "symlink" /\ dst[p].kind # "dir"
  BY DEF CopySymlink
<1>2. /\ p \in Targets /\ p \in Place /\ Targets \in SUBSET Place /\ open = {} /\ src[p] \in Node
  BY <1>1, TurnFacts
<1>3. PICK t : t = Parents(dst, Missing(dst, p))  OBVIOUS
<1>4. PICK u : u = Without(t, {p})  OBVIOUS
<1>5. /\ Kept(u, old, Targets, DoomedPlaces) /\ Reached(u, p)
      /\ \A q \in Place : p \in Above[q] => ~Exists(u, q)
  BY <1>1, <1>2, <1>3, <1>4, ClearedKept
<1>6. PICK n : n = [src[p] EXCEPT !.mtime = Now]  OBVIOUS
<1>7. n \in Node /\ n.kind # "file"  BY <1>1, <1>2, <1>6, MadeNodes, NewTime
<1>8. Kept(Enter(u, {p}, n), old, Targets, DoomedPlaces)  BY <1>2, <1>5, <1>7, PutKept
<1>9. dst' = Enter(u, {p}, n)  BY <1>3, <1>4, <1>6 DEF CopySymlink
<1>10. links' \subseteq Inodes \X Targets /\ errors' \in BOOLEAN /\ outside' \in BOOLEAN
  BY <1>1 DEF Invariant, LinkInv, FlagInv
<1> QED  BY <1>1, <1>2, <1>8, <1>9, <1>10, TurnStep

\* A further name of a file.
LEMMA LinkStep == ASSUME Invariant, NEW k \in Keys, LinkFile(k) PROVE Invariant'
<1> DEFINE p == k[1]
           r == FirstName(p)
           first == IF dst[r].kind = "file" THEN dst[r] ELSE [src[p] EXCEPT !.ino = Fresh(dst)]
<1>1. /\ Turn(k) /\ Clear(p) /\ UNCHANGED <<open, links, errors, outside>>
      /\ src[p].kind = "file" /\ Remembered(p) /\ dst[p].kind # "dir"
  BY DEF LinkFile
<1>2. /\ p \in Targets /\ p \in Place /\ Targets \in SUBSET Place /\ open = {} /\ src[p] \in Node
      /\ dst \in [Place -> Node] /\ Kept(dst, old, Targets, DoomedPlaces)
  BY <1>1, TurnFacts DEF Invariant
<1>3. links' \subseteq Inodes \X Targets /\ errors' \in BOOLEAN /\ outside' \in BOOLEAN
  BY <1>1 DEF Invariant, LinkInv, FlagInv
<1>4. r \in Targets
  <2>1. \E l \in links : l[1] = src[p].ino  BY <1>1 DEF Remembered
  <2>2. PICK i \in Inodes, s \in Targets : <<i, s>> \in links /\ i = src[p].ino
    BY <2>1 DEF Invariant, LinkInv
  <2>3. s \in Place /\ <<src[p].ino, s>> \in links  BY <1>2, <2>2
  <2>4. <<src[p].ino, r>> \in links  BY <2>3 DEF FirstName
  <2> QED  BY <2>4 DEF Invariant, LinkInv
<1>5. /\ first \in Node /\ first.kind = "file"
      /\ \/ first.ino = Fresh(dst)
         \/ dst[r].kind = "file" /\ dst[r].ino = first.ino
  <2>1. dst[r] \in Node  BY <1>2, <1>4
  <2>2. Fresh(dst) \in Inodes  BY <1>2, FreshNew
  <2>3. PICK i \in Inodes : i = Fresh(dst)  BY <2>2
  <2>4. PICK n : n = [src[p] EXCEPT !.ino = i]  OBVIOUS
  <2>5. n \in Node /\ n.kind = src[p].kind /\ n.ino = i  BY <1>2, <2>3, <2>4 DEF Node
  <2>6. first = IF dst[r].kind = "file" THEN dst[r] ELSE n  BY <2>3, <2>4
  <2> QED  BY <1>1, <2>1, <2>3, <2>5, <2>6
<1>6. PICK t : t = Parents(dst, Missing(dst, p))  OBVIOUS
<1>7. PICK u : u = Without(t, {p})  OBVIOUS
<1>8. PICK n : n = first  OBVIOUS
<1>9. n \in Node /\ n.kind = "file"  BY <1>5, <1>8
<1>10. n.ino = Fresh(dst) \/ \E s \in Targets : dst[s].kind = "file" /\ dst[s].ino = n.ino
  BY <1>4, <1>5, <1>8
<1>11. Kept(Enter(u, {p}, n), old, Targets, DoomedPlaces)
  BY <1>1, <1>2, <1>6, <1>7, <1>9, <1>10, NewFileKept
<1>12. dst' = dst \/ dst' = Enter(u, {p}, n)  BY <1>6, <1>7, <1>8 DEF LinkFile
<1> QED  BY <1>1, <1>2, <1>3, <1>11, <1>12, TurnStep

\* A file that is begun.
LEMMA OpenStep == ASSUME Invariant, NEW k \in Keys, OpenFile(k) PROVE Invariant'
<1> DEFINE p == k[1]
<1>1. /\ Turn(k) /\ Clear(p) /\ UNCHANGED <<links, outside>> /\ open' = {k}
      /\ dst[p].kind # "dir" /\ errors' \in BOOLEAN
  BY DEF OpenFile, Invariant, FlagInv, Remembered
<1>2. /\ p \in Targets /\ p \in Place /\ Targets \in SUBSET Place
      /\ dst \in [Place -> Node] /\ Kept(dst, old, Targets, DoomedPlaces)
  BY <1>1, TurnFacts DEF Invariant
<1>3. links' \subseteq Inodes \X Targets /\ outside' \in BOOLEAN
  BY <1>1 DEF Invariant, LinkInv, FlagInv
<1>4. PICK t : t = Parents(dst, Missing(dst, p))  OBVIOUS
<1>5. PICK u : u = Without(t, {p})  OBVIOUS
<1>6. PICK n : n = FreshFile(t)  OBVIOUS
<1>7. n \in Node /\ n.kind = "file" /\ n.ino = Fresh(t)
  <2>1. t \in [Place -> Node]  BY <1>1, <1>2, <1>4, WayKept DEF Kept
  <2>2. Fresh(t) \in Inodes  BY <2>1, FreshNew
  <2> QED  BY <2>2, <1>6, SyncAssumption DEF FreshFile, Node, Kinds, Partial
<1>8. CASE dst' = Enter(u, {p}, n)
  <2>1. Kept(Enter(u, {p}, n), old, Targets, DoomedPlaces)
    BY <1>1, <1>2, <1>4, <1>5, <1>7, NewFileKept
  <2>2. dst'[p].kind = "file"  BY <1>2, <1>7, <1>8 DEF Enter
  <2> QED  BY <1>1, <1>3, <1>8, <2>1, <2>2, TurnStep
<1>9. CASE dst[p].kind = "file" /\ dst' = Written(dst, p, Partial, Now)
  <2>1. Partial \in Nat /\ Now \in Nat  BY SyncAssumption DEF Partial
  <2>2. Kept(dst', old, Targets, DoomedPlaces) /\ dst'[p].kind = "file"
    BY <1>2, <1>9, <2>1, WrittenKept
  <2> QED  BY <1>1, <1>3, <2>2, TurnStep
<1> QED  BY <1>4, <1>5, <1>6, <1>8, <1>9 DEF OpenFile

\* A file that is finished or given up.
LEMMA CloseStep == ASSUME Invariant, NEW k \in Keys, CloseFile(k) PROVE Invariant'
<1> DEFINE p == k[1]
<1>1. /\ UNCHANGED <<inputs, doomed, phase, pending, group, again>> /\ open' = {}
      /\ k \in open /\ FlagInv'
  BY DEF CloseFile, Invariant, FlagInv
<1>2. /\ p \in Targets /\ dst[p].kind = "file" /\ Targets \in SUBSET Place
      /\ Kept(dst, old, Targets, DoomedPlaces) /\ src \in [Place -> Node]
  BY <1>1, TargetFacts, SyncAssumption DEF Invariant, WorkInv, ToDo, InputInv
<1>3. src[p] \in Node /\ src[p].attr \in Nat /\ src[p].mtime \in Nat /\ src[p].ino \in Inodes
  BY <1>2 DEF Node
<1>4. links' \subseteq Inodes \X Targets
  BY <1>2, <1>3 DEF CloseFile, Invariant, LinkInv
<1>5. CASE dst' = dst
  BY <1>1, <1>2, <1>4, <1>5, InvariantNext DEF Invariant, WorkInv
<1>6. CASE \E a \in {Partial, src[p].attr}, m \in {Now, src[p].mtime} : dst' = Written(dst, p, a, m)
  <2>1. PICK a \in {Partial, src[p].attr}, m \in {Now, src[p].mtime} : dst' = Written(dst, p, a, m)
    BY <1>6
  <2>2. a \in Nat /\ m \in Nat  BY <1>3, SyncAssumption DEF Partial
  <2>3. Kept(dst', old, Targets, DoomedPlaces)  BY <1>2, <2>1, <2>2, WrittenKept
  <2> QED  BY <1>1, <1>4, <2>3, InvariantNext DEF Invariant, WorkInv
<1> QED  BY <1>5, <1>6 DEF CloseFile

-----------------------------------------------------------------------------
(* The theorems.                                                           *)

\* Every step keeps the invariant.
LEMMA InvariantStep == Invariant /\ [Next]_vars => Invariant'
<1> SUFFICES ASSUME Invariant, [Next]_vars PROVE Invariant'  OBVIOUS
<1>1. CASE StopRequested \/ StartCopies \/ TakeAgain \/ Finish  BY <1>1, PlainStep
<1>2. ASSUME NEW k \in Keys, Delete(k)  PROVE Invariant'  BY <1>2, DeleteStep
<1>3. ASSUME NEW k \in Keys, Copy(k)  PROVE Invariant'
  BY <1>3, TakeStep, FailStep, ElsewhereStep, DirStep, SymlinkStep, LinkStep, OpenStep, CloseStep
  DEF Copy
<1>4. CASE UNCHANGED vars
  <2>1. UNCHANGED <<inputs, dst, phase, doomed, pending, group, again, own, open, links, stop, errors, outside>>
    BY <1>4 DEF vars, todo
  <2>2. FlagInv'  BY <2>1 DEF Invariant, FlagInv
  <2> QED  BY <2>1, <2>2, InvariantNext DEF Invariant, WorkInv, LinkInv
<1> QED  BY <1>1, <1>2, <1>3, <1>4 DEF Next

\* The invariant holds in every state the work passes through.
THEOREM AlwaysInvariant == Spec => []Invariant
<1> QED  BY InvariantInit, InvariantStep, PTL DEF Spec

\* The backup stays well typed, and what is to be done is made of keys.
THEOREM TypeCorrect == Spec => []TypeOK
<1>1. Invariant => TypeOK
  <2> SUFFICES ASSUME Invariant PROVE TypeOK  OBVIOUS
  <2>1. dst \in [Place -> Node]  BY DEF Invariant, Kept
  <2>2. doomed \subseteq Keys /\ pending \subseteq Keys  BY DEF Invariant, InputInv, WorkInv
  <2>3. group \subseteq Keys /\ again \subseteq Keys /\ open \subseteq Keys
    BY DEF Invariant, WorkInv, ToDo
  <2>4. links \subseteq Inodes \X Place  BY TargetFacts DEF Invariant, LinkInv
  <2>5. FlagInv  BY DEF Invariant
  <2> QED  BY <2>1, <2>2, <2>3, <2>4, <2>5 DEF TypeOK, FlagInv
<1> QED  BY <1>1, AlwaysInvariant, PTL

\* Whatever is refused, wherever the work stops or crashes: only the places that
\* are to be copied or deleted change, with the other names of their files; the
\* directories above them may be made or get a new time.
THEOREM OnlyPlannedChangeAlways == Spec => []OnlyPlannedChange
<1>1. Invariant => OnlyPlannedChange
  <2> SUFFICES ASSUME Invariant, NEW q \in Place
               PROVE  \/ dst[q] = old[q]
                      \/ q \in Targets \/ Doomed(q)
                      \/ \E p \in Targets : OneFile(old, p, q)
                      \/ /\ dst[q].kind = "dir"
                         /\ old[q].kind = "none" => \E p \in Targets : q \in Above[p]
                         /\ old[q].kind # "none" => dst[q] = [old[q] EXCEPT !.mtime = Now]
    BY DEF OnlyPlannedChange
  <2>1. Allowed(dst, old, Targets, DoomedPlaces, q)  BY DEF Invariant, Kept
  <2> QED  BY <2>1 DEF Allowed, Covered, Passed, DoomedPlaces
<1> QED  BY <1>1, AlwaysInvariant, PTL

\* The backup is a tree in every state: nothing is ever left without its directory.
THEOREM TreeAlways == Spec => []IsTree(dst)
<1>1. Invariant => IsTree(dst)
  BY DEF Invariant, Kept, IsShape, IsTree, Node
<1> QED  BY <1>1, AlwaysInvariant, PTL

-----------------------------------------------------------------------------
(* A whole synchronisation: the invariant, in named parts.                 *)

\* What the whole plan is.
PlanInv ==
    plan.from = "all" =>
        /\ plan.copy = TransfersOf(src, old, opts)
        /\ plan.delete = DeletionsOf(src, old, opts)

\* Of the whole plan one key is being copied at a time, and none comes back.
OneByOne ==
    plan.from = "all" =>
        /\ again = {} /\ ~own /\ group \cup open \subseteq plan.copy
        /\ group = {} \/ open = {}
        /\ \A j, k \in group \cup open : j = k
        /\ (group \cup open) \cap pending = {}

\* The deletions come before the copies, and without an error both are over at the end.
InOrder ==
    plan.from = "all" =>
        /\ phase = "delete" => pending = plan.copy /\ links = {} /\ group = {} /\ open = {}
        /\ phase = "copy" => doomed = {}
        /\ phase = "done" /\ ~errors => doomed = {} /\ pending = {} /\ group = {} /\ open = {}

\* With delete-after, what stands on the backup has its place in the source, or is
\* still to be deleted, or is a special file, which is not deleted.
Copyable(p) == Exists(src, p) /\ src[p].kind # "special"
Fits(q) == Copyable(q) /\ KeyAt(dst, q) = KeyAt(src, q)
Special(q) == dst[q].kind = "special" /\ old[q].kind = "special"
RoomInv ==
    plan.from = "all" /\ opts.deleteAfter /\ ~errors =>
        /\ ~outside
        /\ \A q \in Place : Exists(dst, q) => Fits(q) \/ Special(q) \/ KeyAt(dst, q) \in doomed
        /\ NothingIsAbsent(dst)

\* What is planned and has been copied; what is not planned.
Waiting == pending \cup group \cup open
Finished(p) == KeyAt(src, p) \in plan.copy \ Waiting
Spared(p) == Copyable(p) /\ KeyAt(src, p) \notin plan.copy

Right(p) ==
    /\ dst[p].kind = src[p].kind /\ dst[p].attr = src[p].attr
    /\ src[p].kind = "file" => dst[p].mtime = src[p].mtime
Untouched(p) ==
    \/ dst[p] = old[p]
    \/ dst[p].kind = "dir" /\ old[p].kind = "dir" /\ dst[p].attr = old[p].attr

\* What is planned is copied, and nothing else is: among the names of one file the
\* first is remembered, and the others are linked to it.
CopiedInv ==
    /\ \A p \in Place : Spared(p) => Untouched(p)
    /\ \A p \in Place : Finished(p) => Right(p)
LinkedInv ==
    /\ LinksAsSource(dst)
    /\ \A p, q \in Place : OneFile(src, p, q) /\ Finished(p) /\ Finished(q) => OneFile(dst, p, q)
    /\ \A p \in Place : Finished(p) /\ Linked(src, p) => Remembered(p)
    /\ \A l \in links : src[l[2]].kind = "file" /\ src[l[2]].ino = l[1] /\ Finished(l[2])
    /\ \A k \in open : ~Remembered(k[1])
Calm == plan.from = "all" /\ ~errors /\ ~outside /\ LinksAsSource(old)
CalmInv == Calm => CopiedInv /\ LinkedInv

Progress == PlanInv /\ OneByOne /\ InOrder /\ RoomInv /\ CalmInv

-----------------------------------------------------------------------------
(* What the plan contains.                                                 *)

USE DEF Exists

\* The path of a place.
LEMMA KeyAtFacts ==
    ASSUME NEW t, NEW p \in Place
    PROVE  /\ KeyAt(t, p) \in Keys /\ KeyAt(t, p)[1] = p
           /\ KeyAt(t, p) = IF t[p].kind = "dir" THEN <<p, "dir">> ELSE <<p, "leaf">>
  BY DEF KeyAt, Keys

\* The paths of a tree.
LEMMA KeysOfFacts ==
    ASSUME NEW t, NEW k
    PROVE  k \in KeysOf(t) <=>
              /\ k \in Keys /\ k = KeyAt(t, k[1])
              /\ t[k[1]].kind \notin {"none", "special"}
<1>1. ASSUME k \in KeysOf(t)
      PROVE  k \in Keys /\ k = KeyAt(t, k[1]) /\ t[k[1]].kind \notin {"none", "special"}
  <2>1. PICK p \in Place : k = KeyAt(t, p) /\ t[p].kind # "none" /\ t[p].kind # "special"
    BY <1>1 DEF KeysOf
  <2>2. k \in Keys /\ k[1] = p  BY <2>1, KeyAtFacts
  <2> QED  BY <2>1, <2>2
<1>2. ASSUME k \in Keys, k = KeyAt(t, k[1]), t[k[1]].kind \notin {"none", "special"}
      PROVE  k \in KeysOf(t)
  <2>1. k[1] \in Place  BY <1>2 DEF Keys
  <2> QED  BY <1>2, <2>1 DEF KeysOf
<1> QED  BY <1>1, <1>2

\* The trees that are synchronised.
LEMMA TreeFacts ==
    ASSUME InputInv
    PROVE  /\ src \in [Place -> Node] /\ old \in [Place -> Node]
           /\ IsTree(src) /\ IsTree(old) /\ NothingIsAbsent(src) /\ NothingIsAbsent(old)
           /\ \A p, q \in Place : OneFile(src, p, q) => src[p] = src[q]
           /\ \A p \in Place : src[p].mtime < Now
<1>1. src \in SourceTrees \cup BackupTrees /\ old \in SourceTrees \cup BackupTrees
  BY DEF InputInv
<1> QED  BY <1>1, SyncAssumption DEF OneFile

\* The names of a file in a tree are the places that show it.
LEMMA NamesFacts ==
    ASSUME NEW t, NEW p \in Place
    PROVE  /\ Linked(t, p) => AllNames(t, p) = {<<q, "leaf">> : q \in {r \in Place : OneFile(t, p, r)}}
           /\ ~Linked(t, p) => AllNames(t, p) = {}
           /\ Linked(t, p) <=> t[p].kind = "file" /\ \E q \in Place : q # p /\ OneFile(t, p, q)
<1>1. \A q \in Place : t[q].kind = "file" => <<q, "leaf">> \in KeysOf(t)
  BY DEF KeysOf, KeyAt
<1>2. ASSUME Linked(t, p), NEW k \in AllNames(t, p)
      PROVE  k \in {<<q, "leaf">> : q \in {r \in Place : OneFile(t, p, r)}}
  <2>1. k \in Keys /\ k[2] = "leaf" /\ t[k[1]].kind = "file" /\ t[k[1]].ino = t[p].ino
    BY <1>2, KeysOfFacts DEF AllNames, Names
  <2>2. k = <<k[1], "leaf">> /\ k[1] \in Place  BY <2>1 DEF Keys
  <2> QED  BY <1>2, <2>1, <2>2 DEF OneFile, Linked
<1>3. ASSUME Linked(t, p), NEW q \in Place, OneFile(t, p, q)
      PROVE  <<q, "leaf">> \in AllNames(t, p)
  BY <1>1, <1>3 DEF AllNames, Names, OneFile
<1>4. ~Linked(t, p) => AllNames(t, p) = {}  BY DEF AllNames, Names
<1>5. Linked(t, p) <=> t[p].kind = "file" /\ \E q \in Place : q # p /\ OneFile(t, p, q)
  BY DEF Linked, OneFile
<1> QED  BY <1>2, <1>3, <1>4, <1>5

\* A file is linked if it has more than one name.
LEMMA ManyNames ==
    ASSUME NEW t, NEW p \in Place
    PROVE  /\ Linked(t, p) <=> Cardinality(AllNames(t, p)) > 1
           /\ Cardinality(AllNames(t, p)) \in Nat
<1> DEFINE S == AllNames(t, p)
<1>1. IsFiniteSet(Keys)
  <2>1. IsFiniteSet({"dir"})  BY FS_Singleton
  <2>2. {"dir", "leaf"} = {"dir"} \cup {"leaf"}  OBVIOUS
  <2>3. IsFiniteSet({"dir", "leaf"})  BY <2>1, <2>2, FS_AddElement
  <2> QED  BY <2>3, PlaceAssumption, FS_Product DEF Keys
<1>2. IsFiniteSet(S) /\ Cardinality(S) \in Nat
  BY <1>1, KeyFacts, FS_Subset, FS_CardinalityType
<1>3. ASSUME Linked(t, p) PROVE Cardinality(S) > 1
  <2>1. PICK q \in Place : q # p /\ OneFile(t, p, q)  BY <1>3, NamesFacts
  <2>2. <<p, "leaf">> \in S /\ <<q, "leaf">> \in S /\ <<p, "leaf">> # <<q, "leaf">>
    BY <1>3, <2>1, NamesFacts DEF OneFile
  <2>3. Cardinality(S) # 0 /\ Cardinality(S) # 1
    BY <1>2, <2>2, FS_EmptySet, FS_Singleton
  <2> QED  BY <1>2, <2>3
<1>4. ASSUME ~Linked(t, p) PROVE ~(Cardinality(S) > 1)
  BY <1>4, NamesFacts, FS_EmptySet
<1> QED  BY <1>2, <1>3, <1>4

\* The verdict on a path of the source.
LEMMA SourceVerdict ==
    ASSUME NEW l, NEW r, NEW k \in KeysOf(l), NEW o
    PROVE  /\ k \notin KeysOf(r) => VerdictOf(l, r, k, o).src \in Transferring
           /\ Linked(l, k[1]) /\ VerdictOf(l, r, k, o).src \in Transferring
                => VerdictOf(l, r, k, o).src = "hardlink"
           /\ VerdictOf(l, r, k, o).src = "hardlink" => Linked(l, k[1])
           /\ VerdictOf(l, r, k, o).src \in Transferring \cup {"equal", "ignore"}
<1> DEFINE p == k[1]
<1>1. p \in Place  BY KeysOfFacts, KeyFacts
<1>2. Linked(l, p) <=> Cardinality(AllNames(l, p)) > 1  BY <1>1, ManyNames
<1>3. Linked(l, p) => l[p].kind = "file"  BY DEF Linked
<1>4. CASE k \notin KeysOf(r)
  <2>1. VerdictOf(l, r, k, o) = VerdictSourceOnly(l[p], FALSE, AllNames(l, p))
    BY <1>4 DEF VerdictOf
  <2> QED  BY <1>2, <1>3, <2>1 DEF VerdictSourceOnly, Both, Transferring
<1>5. CASE k \in KeysOf(r)
  <2>1. VerdictOf(l, r, k, o)
        = VerdictBothSides(l[p], r[p], FALSE, AllNames(l, p), AllNames(r, p), o)
    BY <1>5 DEF VerdictOf
  <2> QED  BY <1>2, <1>3, <1>5, <2>1 DEF VerdictBothSides, Both, Transferring
<1> QED  BY <1>4, <1>5

\* A plan is of paths of the source, and of all the names of a file or none.
LEMMA PlanFacts ==
    ASSUME InputInv, PlanInv, plan.from = "all"
    PROVE  /\ \A k \in plan.copy : k \in KeysOf(src) /\ k = KeyAt(src, k[1]) /\ Copyable(k[1])
           /\ \A k \in plan.delete : k \in KeysOf(old) /\ k \notin KeysOf(src) /\ opts.deleteAfter
           /\ \A p, q \in Place : OneFile(src, p, q) /\ KeyAt(src, p) \in plan.copy
                                    => KeyAt(src, q) \in plan.copy
           /\ \A p \in Place : Spared(p) =>
                 /\ VerdictOf(src, old, KeyAt(src, p), opts).src \in {"equal", "ignore"}
                 /\ KeyAt(src, p) \in KeysOf(old) /\ KeyAt(src, p) = KeyAt(old, p)
<1>1. plan.copy = TransfersOf(src, old, opts) /\ plan.delete = DeletionsOf(src, old, opts)
  BY DEF PlanInv
<1>2. \A k \in plan.delete : k \in KeysOf(old) /\ k \notin KeysOf(src) /\ opts.deleteAfter
  BY <1>1 DEF DeletionsOf
<1>3. \A t, p : AllNames(t, p) \subseteq KeysOf(t)  BY DEF AllNames, Names
<1>4. plan.copy \subseteq KeysOf(src)
  BY <1>1, <1>3 DEF TransfersOf, ToTransfer, GroupOf
<1>5. \A k \in plan.copy : k \in KeysOf(src) /\ k = KeyAt(src, k[1]) /\ Copyable(k[1])
  BY <1>4, KeysOfFacts DEF Copyable
<1>6. ASSUME NEW p \in Place, NEW q \in Place, OneFile(src, p, q), KeyAt(src, p) \in plan.copy
      PROVE  KeyAt(src, q) \in plan.copy
  <2>1. CASE p = q  BY <1>6, <2>1
  <2>2. CASE p # q
    <3>1. Linked(src, p) /\ KeyAt(src, p) = <<p, "leaf">> /\ KeyAt(src, q) = <<q, "leaf">>
      BY <1>6, <2>2, NamesFacts DEF OneFile, KeyAt
    <3>2. PICK j \in ToTransfer(src, old, opts) :
             KeyAt(src, p) = j \/ KeyAt(src, p) \in GroupOf(src, old, j, opts)
      BY <1>1, <1>6 DEF TransfersOf
    <3>3. j \in KeysOf(src) /\ VerdictOf(src, old, j, opts).src \in Transferring /\ j[1] \in Place
      BY <3>2, KeysOfFacts, KeyFacts DEF ToTransfer
    <3>4. Linked(src, j[1]) /\ OneFile(src, j[1], p)
          /\ VerdictOf(src, old, j, opts).src = "hardlink"
      <4>1. CASE KeyAt(src, p) = j
        <5>1. j[1] = p  BY <3>1, <4>1
        <5> QED  BY <1>6, <3>1, <3>3, <5>1, SourceVerdict DEF OneFile
      <4>2. CASE KeyAt(src, p) \in GroupOf(src, old, j, opts)
        <5>1. VerdictOf(src, old, j, opts).src = "hardlink" /\ <<p, "leaf">> \in AllNames(src, j[1])
          BY <3>1, <4>2 DEF GroupOf
        <5>2. Linked(src, j[1])  BY <3>3, <5>1, NamesFacts
        <5>3. PICK r \in Place : OneFile(src, j[1], r) /\ <<p, "leaf">> = <<r, "leaf">>
          BY <3>3, <5>1, <5>2, NamesFacts
        <5> QED  BY <5>1, <5>2, <5>3
      <4> QED  BY <3>2, <4>1, <4>2
    <3>5. OneFile(src, j[1], q)  BY <1>6, <3>4 DEF OneFile
    <3>6. <<q, "leaf">> \in AllNames(src, j[1])  BY <3>3, <3>4, <3>5, NamesFacts
    <3>7. <<q, "leaf">> \in GroupOf(src, old, j, opts)  BY <3>4, <3>6 DEF GroupOf
    <3> QED  BY <1>1, <3>1, <3>2, <3>7 DEF TransfersOf
  <2> QED  BY <2>1, <2>2
<1>7. ASSUME NEW p \in Place, Spared(p)
      PROVE  /\ VerdictOf(src, old, KeyAt(src, p), opts).src \in {"equal", "ignore"}
             /\ KeyAt(src, p) \in KeysOf(old) /\ KeyAt(src, p) = KeyAt(old, p)
  <2>1. KeyAt(src, p) \in KeysOf(src) /\ KeyAt(src, p)[1] = p
    BY <1>7, KeyAtFacts DEF KeysOf, Spared, Copyable
  <2>2. KeyAt(src, p) \notin ToTransfer(src, old, opts)
    BY <1>1, <1>7 DEF TransfersOf, Spared
  <2>3. VerdictOf(src, old, KeyAt(src, p), opts).src \notin Transferring
    BY <2>1, <2>2 DEF ToTransfer
  <2>4. KeyAt(src, p) \in KeysOf(old)  BY <2>1, <2>3, SourceVerdict
  <2> QED  BY <2>1, <2>3, <2>4, SourceVerdict, KeysOfFacts
<1> QED  BY <1>2, <1>5, <1>6, <1>7

-----------------------------------------------------------------------------
(* What the operations on trees leave alone.                               *)

\* At most the time of a directory changes.
Touched(t, u, q) ==
    u[q] = t[q] \/ (t[q].kind = "dir" /\ u[q] = [t[q] EXCEPT !.mtime = Now])

LEMMA TouchedFacts ==
    ASSUME NEW t \in [Place -> Node], NEW u, NEW q \in Place, Touched(t, u, q)
    PROVE  /\ u[q].kind = t[q].kind /\ u[q].ino = t[q].ino /\ u[q].attr = t[q].attr
           /\ t[q].kind # "dir" => u[q] = t[q]
<1>1. t[q] \in Node  OBVIOUS
<1>2. \A n \in Node : /\ [n EXCEPT !.mtime = Now].kind = n.kind /\ [n EXCEPT !.mtime = Now].ino = n.ino
                      /\ [n EXCEPT !.mtime = Now].attr = n.attr
  BY DEF Node
<1> QED  BY <1>1, <1>2 DEF Touched

LEMMA TouchedAgain ==
    ASSUME NEW t \in [Place -> Node], NEW u, NEW v, NEW q \in Place, Touched(t, u, q), Touched(u, v, q)
    PROVE  Touched(t, v, q)
<1>1. CASE u[q] = t[q]  BY <1>1 DEF Touched
<1>2. CASE v[q] = u[q]  BY <1>2 DEF Touched
<1>3. CASE t[q].kind = "dir" /\ u[q] = [t[q] EXCEPT !.mtime = Now] /\ v[q] = [u[q] EXCEPT !.mtime = Now]
  <2>1. v[q] = [t[q] EXCEPT !.mtime = Now]  BY <1>3
  <2> QED  BY <1>3, <2>1 DEF Touched
<1> QED  BY <1>1, <1>2, <1>3 DEF Touched

\* Removing takes what is removed.
LEMMA WithoutEffect ==
    ASSUME NEW t \in [Place -> Node], IsShape(t), NEW S \in SUBSET Place, NEW q \in Place
    PROVE  IF q \in S THEN Without(t, S)[q] = Absent ELSE Touched(t, Without(t, S), q)
<1>1. CASE q \in S  BY <1>1 DEF Without
<1>2. CASE q \notin S
  <2>1. CASE \E s \in S : IsParent(q, s) /\ Exists(t, s)
    <3>1. t[q].kind = "dir"  BY <2>1 DEF IsShape, IsParent
    <3> QED  BY <1>2, <2>1, <3>1 DEF Without, Touched
  <2>2. CASE ~ \E s \in S : IsParent(q, s) /\ Exists(t, s)
    BY <1>2, <2>2 DEF Without, Touched
  <2> QED  BY <1>2, <2>1, <2>2
<1> QED  BY <1>1, <1>2

\* An entry is made where it can be.
LEMMA EnterEffect ==
    ASSUME NEW t \in [Place -> Node], NEW p \in Place, Reached(t, p), NEW n, NEW q \in Place
    PROVE  IF q = p THEN Enter(t, {p}, n)[q] = n ELSE Touched(t, Enter(t, {p}, n), q)
<1>1. CASE q = p  BY <1>1 DEF Enter
<1>2. CASE q # p
  <2>1. CASE IsParent(q, p) /\ ~Exists(t, p)
    <3>1. t[q].kind = "dir"  BY <2>1 DEF Reached, IsParent
    <3> QED  BY <1>2, <2>1, <3>1 DEF Enter, Touched
  <2>2. CASE ~(IsParent(q, p) /\ ~Exists(t, p))  BY <1>2, <2>2 DEF Enter, Touched
  <2> QED  BY <2>1, <2>2
<1> QED  BY <1>1, <1>2

\* The way to p is made where it is missing.
Made(u, p, q) == Touched(dst, u, q) \/ (q \in Missing(dst, p) /\ u[q] = FreshDir)

LEMMA WayEffect ==
    ASSUME Invariant, NEW p \in Targets, Clear(p), NEW q \in Place
    PROVE  Made(Parents(dst, Missing(dst, p)), p, q)
<1> DEFINE S == Missing(dst, p)
<1>1. p \in Place /\ dst \in [Place -> Node]  BY TargetFacts DEF Invariant, Kept
<1>2. CASE q \in S  BY <1>2 DEF Made, Parents, Enter
<1>3. CASE q \notin S
  <2>1. CASE \E s \in S : IsParent(q, s) /\ ~Exists(dst, s)
    <3>1. PICK s \in S : IsParent(q, s)  BY <2>1
    <3>2. s \in Place /\ s \in Above[p] /\ q \in Above[s]  BY <1>1, <3>1, AboveFacts DEF Missing, IsParent
    <3>3. q \in Above[p]  BY <1>1, <3>2, AboveFacts
    <3>4. dst[q].kind # "none"  BY <1>3, <3>3 DEF Missing
    <3>5. dst[q] \in Node  BY <1>1
    <3>6. dst[q].kind = "dir"  BY <3>3, <3>4, <3>5 DEF Node, Kinds, Clear, Barred, Diverted
    <3> QED  BY <1>3, <2>1, <3>6 DEF Made, Touched, Parents, Enter
  <2>2. CASE ~ \E s \in S : IsParent(q, s) /\ ~Exists(dst, s)
    BY <1>3, <2>2 DEF Made, Touched, Parents, Enter
  <2> QED  BY <2>1, <2>2
<1> QED  BY <1>2, <1>3

\* A directory that is made is as new after one more entry.
LEMMA MadeAgain ==
    ASSUME NEW u, NEW v, NEW p, NEW q \in Place, dst \in [Place -> Node], Made(u, p, q), Touched(u, v, q)
    PROVE  Made(v, p, q)
<1>1. CASE Touched(dst, u, q)  BY <1>1, TouchedAgain DEF Made
<1>2. CASE q \in Missing(dst, p) /\ u[q] = FreshDir
  <2>1. [FreshDir EXCEPT !.mtime = Now] = FreshDir  BY DEF FreshDir
  <2> QED  BY <1>2, <2>1 DEF Made, Touched
<1> QED  BY <1>1, <1>2 DEF Made

\* What a copy to p that succeeds does to the backup: n stands at p, on its way.
Placed(u, p, n) == u[p] = n /\ \A q \in Place \ {p} : Made(u, p, q)

LEMMA PlacedByCopy ==
    ASSUME Invariant, NEW p \in Targets, Clear(p), NEW t, t = Parents(dst, Missing(dst, p)), NEW n
    PROVE  /\ Placed(Enter(t, {p}, n), p, n)
           /\ dst[p].kind # "dir" => Placed(Enter(Without(t, {p}), {p}, n), p, n)
<1>1. p \in Place /\ dst \in [Place -> Node]  BY TargetFacts DEF Invariant, Kept
<1>2. t \in [Place -> Node] /\ IsShape(t) /\ Reached(t, p)  BY WayKept DEF Kept
<1>3. \A q \in Place : Made(t, p, q)  BY WayEffect
<1>4. Placed(Enter(t, {p}, n), p, n)
  <2>1. \A q \in Place : IF q = p THEN Enter(t, {p}, n)[q] = n ELSE Touched(t, Enter(t, {p}, n), q)
    BY <1>1, <1>2, EnterEffect
  <2> QED  BY <1>1, <1>3, <2>1, MadeAgain DEF Placed
<1>5. ASSUME dst[p].kind # "dir" PROVE Placed(Enter(Without(t, {p}), {p}, n), p, n)
  <2>1. PICK u : u = Without(t, {p})  OBVIOUS
  <2>2. u \in [Place -> Node] /\ Reached(u, p)  BY <1>5, <2>1, ClearedKept DEF Kept
  <2>3. PICK S : S = {p}  OBVIOUS
  <2>4. \A q \in Place : IF q \in S THEN Without(t, S)[q] = Absent ELSE Touched(t, Without(t, S), q)
    <3>1. S \in SUBSET Place  BY <1>1, <2>3
    <3> QED  BY <1>2, <3>1, WithoutEffect
  <2>5. \A q \in Place \ {p} : Made(u, p, q)
    BY <1>1, <1>3, <2>1, <2>3, <2>4, MadeAgain
  <2>6. \A q \in Place : IF q = p THEN Enter(u, {p}, n)[q] = n ELSE Touched(u, Enter(u, {p}, n), q)
    BY <1>1, <2>2, EnterEffect
  <2>7. Placed(Enter(u, {p}, n), p, n)
    BY <1>1, <2>5, <2>6, MadeAgain DEF Placed
  <2> QED  BY <2>1, <2>7
<1> QED  BY <1>4, <1>5

-----------------------------------------------------------------------------
(* The order of the work.                                                  *)

\* Nothing else comes with a key of the whole plan.
LEMMA FlowInit == Init => PlanInv /\ OneByOne /\ InOrder
<1> SUFFICES ASSUME Init PROVE PlanInv /\ OneByOne /\ InOrder  OBVIOUS
<1>1. ASSUME plan.from = "all"
      PROVE  plan = Plan("all", TransfersOf(src, old, opts), DeletionsOf(src, old, opts))
  BY <1>1 DEF Init, Plans, Plan
<1>2. PlanInv  BY <1>1 DEF PlanInv, Plan
<1>3. OneByOne /\ InOrder  BY DEF Init, OneByOne, InOrder
<1> QED  BY <1>2, <1>3

LEMMA FlowStep ==
    ASSUME Invariant, PlanInv, OneByOne, InOrder, [Next]_vars
    PROVE  /\ PlanInv' /\ OneByOne' /\ InOrder'
           /\ UNCHANGED inputs /\ (errors => errors') /\ (outside => outside')
<1>1. UNCHANGED inputs /\ (errors => errors') /\ (outside => outside')
  <2>1. UNCHANGED inputs
    BY DEF Next, Delete, Copy, Take, FailCopy, CopyElsewhere, CopyDir, CopySymlink, LinkFile, OpenFile,
           CloseFile, Turn, StopRequested, StartCopies, TakeAgain, Finish, vars
  <2>2. outside => outside'
    BY DEF Next, Delete, Copy, Take, FailCopy, CopyElsewhere, CopyDir, CopySymlink, LinkFile, OpenFile,
           CloseFile, StopRequested, StartCopies, TakeAgain, Finish, vars
  <2>3. errors => errors'
    <3>1. ASSUME NEW k \in Keys, Delete(k) \/ Take(k) \/ FailCopy(k) \/ CopyElsewhere(k)
          PROVE  errors => errors'
      BY <3>1 DEF Delete, Take, FailCopy, CopyElsewhere
    <3>2. ASSUME NEW k \in Keys, CopyDir(k) PROVE errors => errors'
      BY <3>2, Zenon DEF CopyDir
    <3>3. ASSUME NEW k \in Keys, CopySymlink(k) \/ LinkFile(k) PROVE errors => errors'
      BY <3>3 DEF CopySymlink, LinkFile
    <3>4. ASSUME NEW k \in Keys, OpenFile(k) \/ CloseFile(k) PROVE errors => errors'
      BY <3>4, Zenon DEF OpenFile, CloseFile
    <3>5. ASSUME StopRequested \/ StartCopies \/ TakeAgain \/ Finish \/ UNCHANGED vars
          PROVE  errors => errors'
      BY <3>5, Zenon DEF StopRequested, StartCopies, TakeAgain, Finish, vars
    <3> QED  BY <3>1, <3>2, <3>3, <3>4, <3>5 DEF Next, Copy
  <2> QED  BY <2>1, <2>2, <2>3
<1>2. PlanInv'  BY <1>1 DEF PlanInv, inputs
<1> SUFFICES ASSUME plan.from = "all" PROVE OneByOne' /\ InOrder'
  BY <1>1 DEF OneByOne, InOrder, inputs, PlanInv
<1> USE <1>1, <1>2
<1>3. pending \subseteq plan.copy /\ plan' = plan  BY DEF Invariant, WorkInv, inputs
<1>4. CASE StopRequested \/ UNCHANGED vars
  BY <1>4 DEF StopRequested, vars, todo, OneByOne, InOrder, inputs
<1>5. CASE StartCopies
  BY <1>3, <1>5 DEF StartCopies, todo, OneByOne, InOrder
<1>6. CASE TakeAgain  BY <1>6 DEF TakeAgain, OneByOne
<1>7. CASE Finish  BY <1>3, <1>7 DEF Finish, todo, OneByOne, InOrder
<1>8. ASSUME NEW k \in Keys, Delete(k) PROVE OneByOne' /\ InOrder'
  BY <1>3, <1>8 DEF Delete, OneByOne, InOrder
<1>9. ASSUME NEW k \in Keys, Take(k) PROVE OneByOne' /\ InOrder'
  <2>1. NamesWith(k) = {}  BY DEF NamesWith
  <2> QED  BY <1>3, <1>9, <2>1 DEF Take, OneByOne, InOrder
<1>10. ASSUME NEW k \in Keys, Turn(k), open' = {} \/ open' = {k} PROVE OneByOne' /\ InOrder'
  BY <1>3, <1>10 DEF Turn, OneByOne, InOrder
<1>11. ASSUME NEW k \in Keys, CloseFile(k) PROVE OneByOne' /\ InOrder'
  BY <1>3, <1>11 DEF CloseFile, OneByOne, InOrder
<1>12. ASSUME NEW k \in Keys,
              FailCopy(k) \/ CopyElsewhere(k) \/ CopyDir(k) \/ CopySymlink(k) \/ LinkFile(k)
       PROVE  OneByOne' /\ InOrder'
  <2>1. Turn(k) /\ open' = open
    BY <1>12 DEF FailCopy, CopyElsewhere, CopyDir, CopySymlink, LinkFile
  <2>2. open = {}  BY <2>1 DEF Turn
  <2> QED  BY <1>10, <2>1, <2>2
<1>13. ASSUME NEW k \in Keys, OpenFile(k) PROVE OneByOne' /\ InOrder'
  BY <1>10, <1>13 DEF OpenFile
<1> QED
  BY <1>4, <1>5, <1>6, <1>7, <1>8, <1>9, <1>11, <1>12, <1>13 DEF Next, Copy

-----------------------------------------------------------------------------
(* What a step of the whole plan that meets no error can be.               *)

\* The key that is being copied.
LEMMA TurnOfPlan ==
    ASSUME Invariant, PlanInv, OneByOne, InOrder, plan.from = "all", NEW k \in Keys, Turn(k)
    PROVE  /\ k \in plan.copy /\ k = KeyAt(src, k[1]) /\ Copyable(k[1])
           /\ k[1] \in Place /\ k[1] \in Targets
           /\ group = {k} /\ group' = {} /\ open = {} /\ pending' = pending /\ k \notin pending
           /\ doomed = {} /\ doomed' = {} /\ phase = "copy"
<1>1. k \in group /\ group' = group \ {k} /\ open = {} /\ pending' = pending /\ doomed' = doomed
      /\ phase = "copy"
  BY DEF Turn
<1>2. group = {k} /\ k \notin pending /\ k \in plan.copy /\ doomed = {}
  BY <1>1 DEF OneByOne, InOrder
<1> QED  BY <1>1, <1>2, PlanFacts, TurnFacts DEF Invariant

\* A copy puts at p what it should be, or begins it, or happens elsewhere.
WholeAt(n, p) ==
    /\ n.kind = src[p].kind /\ n.attr = src[p].attr
    /\ src[p].kind = "file" => n.mtime = src[p].mtime

LEMMA DirPlaced ==
    ASSUME Invariant, PlanInv, OneByOne, InOrder, plan.from = "all", NEW k \in Keys,
           CopyDir(k), ~errors'
    PROVE  \E n \in Node : /\ Placed(dst', k[1], n) /\ WholeAt(n, k[1]) /\ src[k[1]].kind = "dir"
                           /\ UNCHANGED <<open, links, outside>>
<1> DEFINE p == k[1]
           made == IF dst[p].kind = "dir" THEN dst[p] ELSE FreshDir
<1>1. Turn(k) /\ Clear(p) /\ src[p].kind = "dir" /\ UNCHANGED <<open, links, outside>>
  BY DEF CopyDir
<1>2. p \in Targets /\ p \in Place  BY <1>1, TurnOfPlan
<1>3. PICK t : t = Parents(dst, Missing(dst, p))  OBVIOUS
<1>4. PICK m \in {made.mtime, src[p].mtime} :
         dst' = Enter(t, {p}, [made EXCEPT !.attr = src[p].attr, !.mtime = m])
  BY <1>3 DEF CopyDir
<1>5. made \in Node /\ made.kind = "dir" /\ src[p] \in Node
  BY <1>1, <1>2, MadeNodes, TurnFacts
<1> HIDE DEF made
<1>6. PICK n : n = [made EXCEPT !.attr = src[p].attr, !.mtime = m]  OBVIOUS
<1>7. n \in Node /\ n.kind = "dir" /\ n.attr = src[p].attr
  <2>1. src[p].attr \in Nat /\ m \in Nat  BY <1>5 DEF Node
  <2> QED  BY <1>5, <1>6, <2>1 DEF Node
<1>8. Placed(dst', p, n)  BY <1>1, <1>2, <1>3, <1>4, <1>6, PlacedByCopy
<1> QED  BY <1>1, <1>7, <1>8 DEF WholeAt

LEMMA SymlinkPlaced ==
    ASSUME Invariant, PlanInv, OneByOne, InOrder, plan.from = "all", NEW k \in Keys,
           CopySymlink(k)
    PROVE  \E n \in Node : /\ Placed(dst', k[1], n) /\ WholeAt(n, k[1]) /\ src[k[1]].kind = "symlink"
                           /\ UNCHANGED <<open, links, outside>>
<1> DEFINE p == k[1]
<1>1. /\ Turn(k) /\ Clear(p) /\ src[p].kind = "symlink" /\ dst[p].kind # "dir"
      /\ UNCHANGED <<open, links, outside>>
  BY DEF CopySymlink
<1>2. p \in Targets /\ p \in Place /\ src[p] \in Node  BY <1>1, TurnOfPlan, TurnFacts
<1>3. PICK t : t = Parents(dst, Missing(dst, p))  OBVIOUS
<1>4. PICK n : n = [src[p] EXCEPT !.mtime = Now]  OBVIOUS
<1>5. dst' = Enter(Without(t, {p}), {p}, n)  BY <1>3, <1>4 DEF CopySymlink
<1>6. n \in Node  BY <1>2, <1>4, MadeNodes
<1>7. n.kind = src[p].kind /\ n.attr = src[p].attr  BY <1>2, <1>4 DEF Node
<1>8. Placed(dst', p, n)  BY <1>1, <1>2, <1>3, <1>5, PlacedByCopy
<1> QED  BY <1>1, <1>6, <1>7, <1>8 DEF WholeAt

\* A further name becomes a name of the first one.
LEMMA NamePlaced ==
    ASSUME Invariant, PlanInv, OneByOne, InOrder, plan.from = "all", NEW k \in Keys,
           LinkFile(k)
    PROVE  /\ src[k[1]].kind = "file" /\ UNCHANGED <<open, links, outside>>
           /\ \E r \in Place :
                 /\ <<src[k[1]].ino, r>> \in links
                 /\ \/ r = k[1] /\ dst' = dst
                    \/ \E n \in Node : /\ Placed(dst', k[1], n) /\ n.kind = "file"
                                       /\ dst[r].kind = "file" => n = dst[r]
<1> DEFINE p == k[1]
           r == FirstName(p)
           first == IF dst[r].kind = "file" THEN dst[r] ELSE [src[p] EXCEPT !.ino = Fresh(dst)]
<1>1. /\ Turn(k) /\ Clear(p) /\ UNCHANGED <<open, links, outside>>
      /\ src[p].kind = "file" /\ Remembered(p) /\ dst[p].kind # "dir"
  BY DEF LinkFile
<1>2. p \in Targets /\ p \in Place /\ src[p] \in Node /\ dst \in [Place -> Node]
  BY <1>1, TurnOfPlan, TurnFacts
<1>3. r \in Place /\ <<src[p].ino, r>> \in links
  <2>1. PICK l \in links : l[1] = src[p].ino  BY <1>1 DEF Remembered
  <2>2. \E q \in Place : l = <<src[p].ino, q>>  BY <2>1, TargetFacts DEF Invariant, LinkInv
  <2> QED  BY <2>2 DEF FirstName
<1>4. CASE r = p  BY <1>1, <1>3, <1>4 DEF LinkFile
<1>5. CASE r # p
  <2>1. PICK t : t = Parents(dst, Missing(dst, p))  OBVIOUS
  <2>2. PICK n : n = first  OBVIOUS
  <2>3. dst' = Enter(Without(t, {p}), {p}, n)  BY <1>5, <2>1, <2>2 DEF LinkFile
  <2>4. n \in Node /\ n.kind = "file" /\ (dst[r].kind = "file" => n = dst[r])
    <3>1. dst[r] \in Node  BY <1>2, <1>3
    <3>2. PICK i \in Inodes : i = Fresh(dst)  BY <1>2, FreshNew
    <3>3. PICK f : f = [src[p] EXCEPT !.ino = i]  OBVIOUS
    <3>4. f \in Node /\ f.kind = src[p].kind  BY <1>2, <3>3 DEF Node
    <3>5. n = IF dst[r].kind = "file" THEN dst[r] ELSE f  BY <2>2, <3>2, <3>3
    <3> QED  BY <1>1, <3>1, <3>4, <3>5
  <2>5. Placed(dst', p, n)  BY <1>1, <1>2, <2>1, <2>3, PlacedByCopy
  <2> QED  BY <1>1, <1>3, <2>4, <2>5
<1> QED  BY <1>4, <1>5

\* A file that is begun is new, or the one that stands there is truncated.
LEMMA FilePlaced ==
    ASSUME Invariant, PlanInv, OneByOne, InOrder, plan.from = "all", NEW k \in Keys,
           OpenFile(k), ~errors'
    PROVE  /\ src[k[1]].kind = "file" /\ open' = {k} /\ ~Remembered(k[1])
           /\ UNCHANGED <<links, outside>>
           /\ \/ \E n \in Node : /\ Placed(dst', k[1], n) /\ n.kind = "file"
                                 /\ \A q \in Place : dst[q].kind = "file" => dst[q].ino # n.ino
              \/ dst[k[1]].kind = "file" /\ dst' = Written(dst, k[1], Partial, Now)
<1> DEFINE p == k[1]
<1>1. /\ Turn(k) /\ Clear(p) /\ UNCHANGED <<links, outside>> /\ open' = {k} /\ src[p].kind = "file"
      /\ dst[p].kind # "dir" /\ ~Remembered(p)
  BY DEF OpenFile
<1>2. p \in Targets /\ p \in Place /\ dst \in [Place -> Node]
  BY <1>1, TurnOfPlan, TurnFacts
<1>3. PICK t : t = Parents(dst, Missing(dst, p))  OBVIOUS
<1>4. PICK n : n = FreshFile(t)  OBVIOUS
<1>5. t \in [Place -> Node]  BY <1>1, <1>2, <1>3, WayKept DEF Kept
<1>6. n \in Node /\ n.kind = "file" /\ n.ino = Fresh(t)
  <2>1. Fresh(t) \in Inodes  BY <1>5, FreshNew
  <2> QED  BY <2>1, <1>4, SyncAssumption DEF FreshFile, Node, Kinds, Partial
<1>7. \A q \in Place : dst[q].kind = "file" => dst[q].ino # n.ino
  <2>1. \A q \in Place : dst[q].kind = "file" => t[q].ino = dst[q].ino
    BY <1>1, <1>2, <1>3, WayKept
  <2> QED  BY <1>5, <1>6, <2>1, FreshNew
<1>8. CASE dst' = Enter(Without(t, {p}), {p}, n)
  <2>1. Placed(dst', p, n)  BY <1>1, <1>2, <1>3, <1>8, PlacedByCopy
  <2> QED  BY <1>1, <1>6, <1>7, <2>1
<1>9. CASE dst[p].kind = "file" /\ dst' = Written(dst, p, Partial, Now)
  BY <1>1, <1>9
<1> QED  BY <1>3, <1>4, <1>8, <1>9 DEF OpenFile

\* A file that is closed without an error is complete, with all its names.
LEMMA FileClosed ==
    ASSUME Invariant, PlanInv, OneByOne, InOrder, plan.from = "all", NEW k \in Keys,
           CloseFile(k), ~errors'
    PROVE  /\ dst' = Written(dst, k[1], src[k[1]].attr, src[k[1]].mtime)
           /\ k[1] \in Place /\ k = KeyAt(src, k[1]) /\ k \in plan.copy /\ Copyable(k[1])
           /\ dst[k[1]].kind = "file" /\ doomed' = doomed /\ outside' = outside
           /\ open = {k} /\ open' = {} /\ group = {} /\ group' = {} /\ pending' = pending
           /\ k \notin pending
           /\ links' = IF Linked(src, k[1]) /\ ~Remembered(k[1])
                       THEN links \cup {<<src[k[1]].ino, k[1]>>} ELSE links
<1>1. k \in open /\ open' = {} /\ group' = group /\ pending' = pending /\ doomed' = doomed
      /\ outside' = outside
  BY DEF CloseFile
<1>2. open = {k} /\ group = {} /\ k \notin pending /\ k \in plan.copy
  BY <1>1 DEF OneByOne
<1>3. dst[k[1]].kind = "file" /\ k[1] \in Place
  BY <1>1, TargetFacts DEF Invariant, WorkInv, ToDo
<1>4. k = KeyAt(src, k[1]) /\ Copyable(k[1])  BY <1>2, PlanFacts DEF Invariant
<1> QED  BY <1>1, <1>2, <1>3, <1>4 DEF CloseFile

-----------------------------------------------------------------------------
(* With delete-after only what has its place is left.                      *)

LEMMA RoomInit == Init => RoomInv
<1> SUFFICES ASSUME Init, plan.from = "all", opts.deleteAfter PROVE RoomInv
  BY DEF RoomInv
<1>1. InputInv /\ PlanInv  BY FlowInit, InvariantInit DEF Invariant
<1>2. dst = old /\ doomed = DeletionsOf(src, old, opts) /\ ~outside
  BY <1>1 DEF Init, PlanInv
<1>3. NothingIsAbsent(dst)  BY <1>1, <1>2, TreeFacts
<1>4. ASSUME NEW q \in Place, dst[q].kind # "none", ~Special(q), ~Fits(q)
      PROVE  KeyAt(dst, q) \in doomed
  <2>1. dst[q].kind # "special"  BY <1>2, <1>4 DEF Special
  <2>2. KeyAt(dst, q) \in KeysOf(old)  BY <1>2, <1>4, <2>1 DEF KeysOf
  <2>3. KeyAt(dst, q) \notin KeysOf(src)
    <3> SUFFICES ASSUME KeyAt(dst, q) \in KeysOf(src) PROVE FALSE  OBVIOUS
    <3>1. KeyAt(dst, q) = KeyAt(src, q) /\ src[q].kind \notin {"none", "special"}
      BY KeysOfFacts, KeyAtFacts
    <3> QED  BY <1>4, <3>1 DEF Fits, Copyable
  <2> QED  BY <1>2, <2>2, <2>3 DEF DeletionsOf
<1> QED  BY <1>2, <1>3, <1>4 DEF RoomInv

\* A place is still in order when its entry is of the same kind.
LEMMA RoomStays ==
    ASSUME UNCHANGED inputs, doomed \subseteq doomed', NEW q \in Place, dst'[q].kind = dst[q].kind,
           dst[q].kind # "none" => Fits(q) \/ Special(q) \/ KeyAt(dst, q) \in doomed
    PROVE  dst'[q].kind # "none" => (Fits(q) \/ Special(q) \/ KeyAt(dst, q) \in doomed)'
  BY DEF Fits, Special, Copyable, KeyAt, inputs

\* A copy keeps the order.
LEMMA RoomPlaced ==
    ASSUME Invariant, UNCHANGED <<inputs, outside>>, doomed \subseteq doomed', RoomInv,
           plan.from = "all", opts.deleteAfter, ~errors,
           NEW p \in Place, Copyable(p), NEW n, Placed(dst', p, n), n.kind = src[p].kind
    PROVE  RoomInv'
<1>1. ~outside /\ NothingIsAbsent(dst) /\ dst \in [Place -> Node]  BY DEF RoomInv, Invariant, Kept
<1>2. ASSUME NEW q \in Place
      PROVE  dst'[q].kind # "none" => (Fits(q) \/ Special(q) \/ KeyAt(dst, q) \in doomed)'
  <2>1. CASE q = p
    BY <2>1 DEF Placed, Fits, Copyable, KeyAt, inputs
  <2>2. CASE q # p /\ Touched(dst, dst', q)
    <3>1. dst'[q].kind = dst[q].kind  BY <1>1, <2>2, TouchedFacts
    <3> QED  BY <3>1, RoomStays DEF RoomInv
  <2>3. CASE q \in Missing(dst, p) /\ dst'[q] = FreshDir
    <3>1. src[q].kind = "dir"  BY <2>3, TreeFacts DEF Missing, Invariant, IsTree, Copyable
    <3> QED  BY <2>3, <3>1, MadeNodes DEF Fits, Copyable, KeyAt, inputs
  <2> QED  BY <2>1, <2>2, <2>3 DEF Placed, Made
<1>3. ASSUME NEW q \in Place, dst'[q].kind = "none" PROVE dst'[q] = Absent
  <2>1. q # p  BY <1>3 DEF Placed, Copyable
  <2>2. CASE Touched(dst, dst', q)
    BY <1>1, <1>3, <2>2, TouchedFacts DEF NothingIsAbsent
  <2>3. CASE q \in Missing(dst, p) /\ dst'[q] = FreshDir
    BY <1>3, <2>3, MadeNodes
  <2> QED  BY <2>1, <2>2, <2>3 DEF Placed, Made
<1> QED  BY <1>1, <1>2, <1>3 DEF RoomInv, NothingIsAbsent

\* A file that is written stays where it is, under all its names.
LEMMA WrittenEffect ==
    ASSUME NEW t \in [Place -> Node], NEW p \in Place, t[p].kind = "file", NEW a, NEW m, NEW q \in Place
    PROVE  /\ Written(t, p, a, m)[q].kind = t[q].kind /\ Written(t, p, a, m)[q].ino = t[q].ino
           /\ OneFile(t, p, q) => /\ Written(t, p, a, m)[q].attr = a
                                  /\ Written(t, p, a, m)[q].mtime = m
           /\ ~OneFile(t, p, q) => Written(t, p, a, m)[q] = t[q]
<1>1. t[q] \in Node  OBVIOUS
<1>2. CASE OneFile(t, p, q)
  <2>1. Written(t, p, a, m)[q] = [t[q] EXCEPT !.attr = a, !.mtime = m]
    BY <1>2 DEF Written, OneFile
  <2> QED  BY <1>1, <1>2, <2>1 DEF Node
<1>3. CASE ~OneFile(t, p, q)
  BY <1>3 DEF Written, OneFile
<1> QED  BY <1>2, <1>3

LEMMA RoomWritten ==
    ASSUME Invariant, UNCHANGED <<inputs, outside>>, doomed \subseteq doomed', RoomInv,
           plan.from = "all", opts.deleteAfter, ~errors,
           NEW p \in Place, dst[p].kind = "file", NEW a, NEW m, dst' = Written(dst, p, a, m)
    PROVE  RoomInv'
<1>1. ~outside /\ NothingIsAbsent(dst) /\ dst \in [Place -> Node]  BY DEF RoomInv, Invariant, Kept
<1>2. \A q \in Place : dst'[q].kind = dst[q].kind  BY <1>1, WrittenEffect
<1>3. \A q \in Place : dst[q].kind = "none" => dst'[q] = dst[q]
  BY <1>1, WrittenEffect DEF OneFile
<1>4. \A q \in Place : dst'[q].kind # "none" => (Fits(q) \/ Special(q) \/ KeyAt(dst, q) \in doomed)'
  BY <1>2, RoomStays DEF RoomInv
<1> QED  BY <1>1, <1>2, <1>3, <1>4 DEF RoomInv, NothingIsAbsent

\* A deletion that succeeds takes what was doomed.
LEMMA DeleteEffect ==
    ASSUME Invariant, NEW k \in Keys, Delete(k), ~errors'
    PROVE  /\ k \in plan.delete /\ doomed' = doomed \ {k} /\ Subtree(k) \subseteq Place
           /\ UNCHANGED <<inputs, pending, group, open, links, outside>> /\ ~errors
           /\ \A q \in Place : IF q \in Subtree(k) THEN dst'[q] = Absent ELSE Touched(dst, dst', q)
<1>1. /\ k \in plan.delete /\ doomed' = doomed \ {k} /\ dst' = Without(dst, Subtree(k)) /\ ~errors
      /\ UNCHANGED <<inputs, pending, group, open, links, outside>>
  BY DEF Delete, Invariant, WorkInv
<1>2. Subtree(k) \subseteq Place  BY KeyFacts DEF Subtree, Below
<1>3. dst \in [Place -> Node] /\ IsShape(dst)  BY DEF Invariant, Kept
<1>4. PICK S \in SUBSET Place : S = Subtree(k)  BY <1>2
<1>5. \A q \in Place : IF q \in S THEN Without(dst, S)[q] = Absent ELSE Touched(dst, Without(dst, S), q)
  BY <1>3, WithoutEffect
<1> QED  BY <1>1, <1>2, <1>4, <1>5

LEMMA RoomDeleted ==
    ASSUME Invariant, RoomInv, plan.from = "all", opts.deleteAfter, NEW k \in Keys, Delete(k), ~errors'
    PROVE  RoomInv'
<1>1. ~outside /\ NothingIsAbsent(dst) /\ dst \in [Place -> Node] /\ ~errors
  BY DeleteEffect DEF RoomInv, Invariant, Kept
<1>2. UNCHANGED <<inputs, outside>> /\ doomed' = doomed \ {k}  BY DeleteEffect
<1>3. ASSUME NEW q \in Place, dst'[q].kind # "none"
      PROVE  (Fits(q) \/ Special(q) \/ KeyAt(dst, q) \in doomed)'
  <2>1. q \notin Subtree(k) /\ Touched(dst, dst', q)  BY <1>3, DeleteEffect, MadeNodes
  <2>2. dst'[q].kind = dst[q].kind  BY <1>1, <2>1, TouchedFacts
  <2>3. KeyAt(dst, q) # k
    <3> SUFFICES ASSUME KeyAt(dst, q) = k PROVE FALSE  OBVIOUS
    <3>1. k[1] = q /\ (k[2] = "dir" <=> dst[q].kind = "dir") /\ k[2] \in {"dir", "leaf"}
      BY KeyAtFacts
    <3>2. q \in Subtree(k)  BY <3>1 DEF Subtree
    <3> QED  BY <2>1, <3>2
  <2>4. Fits(q) \/ Special(q) \/ KeyAt(dst, q) \in doomed  BY <1>1, <1>3, <2>2 DEF RoomInv
  <2> QED  BY <1>2, <2>2, <2>3, <2>4 DEF Fits, Special, Copyable, KeyAt, inputs
<1>4. ASSUME NEW q \in Place, dst'[q].kind = "none" PROVE dst'[q] = Absent
  <2>1. CASE q \in Subtree(k)  BY <2>1, DeleteEffect
  <2>2. CASE q \notin Subtree(k)
    <3>1. Touched(dst, dst', q)  BY <2>2, DeleteEffect
    <3> QED  BY <1>1, <1>4, <3>1, TouchedFacts DEF NothingIsAbsent
  <2> QED  BY <2>1, <2>2
<1> QED  BY <1>1, <1>2, <1>3, <1>4 DEF RoomInv, NothingIsAbsent

\* Nothing is written elsewhere: no directory of a path is a symlink, nor is what
\* a directory is copied to.
LEMMA NotElsewhere ==
    ASSUME Invariant, PlanInv, OneByOne, InOrder, RoomInv, plan.from = "all", opts.deleteAfter,
           NEW k \in Keys, CopyElsewhere(k), ~errors, ~errors'
    PROVE  FALSE
<1> DEFINE p == k[1]
<1>1. Turn(k)  BY DEF CopyElsewhere
<1>2. Copyable(p) /\ p \in Place /\ doomed = {}  BY <1>1, TurnOfPlan
<1>3. \A q \in Place : dst[q].kind = "symlink" => src[q].kind # "dir"
  BY <1>2 DEF RoomInv, Fits, Special, KeyAt
<1>4. ~Diverted(p)
  <2> SUFFICES ASSUME NEW a \in Above[p], dst[a].kind = "symlink" PROVE FALSE  BY DEF Diverted
  <2>1. src[a].kind = "dir"  BY <1>2, TreeFacts DEF Invariant, IsTree, Copyable
  <2> QED  BY <1>2, <1>3, <2>1, AboveFacts
<1> QED  BY <1>2, <1>3, <1>4 DEF CopyElsewhere

\* Every step keeps the order.
LEMMA RoomStep ==
    ASSUME Invariant, PlanInv, OneByOne, InOrder, RoomInv, [Next]_vars
    PROVE  RoomInv'
<1>1. UNCHANGED inputs /\ (errors => errors')  BY FlowStep
<1> SUFFICES ASSUME plan.from = "all", opts.deleteAfter, ~errors, ~errors' PROVE RoomInv'
  BY <1>1 DEF RoomInv, inputs
<1>2. ASSUME dst' = dst, doomed' = doomed, outside' = outside PROVE RoomInv'
  BY <1>1, <1>2 DEF RoomInv, Fits, Special, Copyable, inputs, NothingIsAbsent
<1>3. CASE StopRequested \/ StartCopies \/ TakeAgain \/ Finish \/ UNCHANGED vars
  BY <1>2, <1>3 DEF StopRequested, StartCopies, TakeAgain, Finish, vars, todo
<1>4. ASSUME NEW k \in Keys, Take(k) \/ FailCopy(k) \/ CopyElsewhere(k) PROVE RoomInv'
  BY <1>2, <1>4, NotElsewhere DEF Take, FailCopy
<1>5. ASSUME NEW k \in Keys, Delete(k) PROVE RoomInv'  BY <1>5, RoomDeleted
<1>6. ASSUME NEW k \in Keys, Turn(k), outside' = outside,
             NEW n, Placed(dst', k[1], n), n.kind = src[k[1]].kind
      PROVE  RoomInv'
  BY <1>1, <1>6, TurnOfPlan, RoomPlaced
<1>7. ASSUME NEW k \in Keys, CopyDir(k) PROVE RoomInv'
  BY <1>6, <1>7, DirPlaced DEF CopyDir, WholeAt
<1>8. ASSUME NEW k \in Keys, CopySymlink(k) PROVE RoomInv'
  BY <1>6, <1>8, SymlinkPlaced DEF CopySymlink, WholeAt
<1>9. ASSUME NEW k \in Keys, LinkFile(k) PROVE RoomInv'
  <2>1. Turn(k) /\ doomed' = doomed /\ outside' = outside  BY <1>9, TurnOfPlan DEF LinkFile
  <2> QED  BY <1>2, <1>6, <1>9, <2>1, NamePlaced
<1>10. ASSUME NEW k \in Keys, OpenFile(k) PROVE RoomInv'
  <2>1. Turn(k) /\ doomed' = doomed /\ outside' = outside /\ k[1] \in Place
    BY <1>10, TurnOfPlan DEF OpenFile
  <2>2. CASE dst[k[1]].kind = "file" /\ dst' = Written(dst, k[1], Partial, Now)
    BY <1>1, <2>1, <2>2, RoomWritten
  <2> QED  BY <1>6, <1>10, <2>1, <2>2, FilePlaced
<1>11. ASSUME NEW k \in Keys, CloseFile(k) PROVE RoomInv'
  BY <1>1, <1>11, FileClosed, RoomWritten
<1> QED  BY <1>3, <1>4, <1>5, <1>7, <1>8, <1>9, <1>10, <1>11 DEF Next, Copy

-----------------------------------------------------------------------------
(* Without an error the copies do what was planned and no more.            *)

LEMMA CalmInit == Init => CalmInv
<1> SUFFICES ASSUME Init, Calm PROVE CopiedInv /\ LinkedInv  BY DEF CalmInv
<1>1. dst = old /\ pending = plan.copy /\ links = {} /\ open = {}  BY DEF Init
<1>2. \A p : ~Finished(p)  BY <1>1 DEF Finished, Waiting
<1>3. LinksAsSource(dst)  BY <1>1 DEF Calm
<1> QED  BY <1>1, <1>2, <1>3 DEF CopiedInv, LinkedInv, Untouched

\* The places of the key that is copied, and of the others.
LEMMA TurnedPlaces ==
    ASSUME Invariant, PlanInv, plan.from = "all", NEW k \in plan.copy
    PROVE  /\ k[1] \in Place /\ k = KeyAt(src, k[1]) /\ src[k[1]].kind \notin {"none", "special"}
           /\ ~Spared(k[1])
           /\ \A q \in Place : KeyAt(src, q) = k => q = k[1]
           /\ \A q \in Place : Finished(q) => src[q].kind \notin {"none", "special"}
           /\ \A q \in Place : Spared(q) => old[q].kind \notin {"none", "special"}
<1>1. k \in KeysOf(src) /\ k = KeyAt(src, k[1]) /\ Copyable(k[1])  BY PlanFacts DEF Invariant
<1>2. k[1] \in Place  BY <1>1, KeysOfFacts, KeyFacts
<1>3. ASSUME NEW q \in Place, Finished(q) PROVE src[q].kind \notin {"none", "special"}
  <2>1. KeyAt(src, q) \in KeysOf(src)  BY <1>3, PlanFacts DEF Finished, Invariant
  <2> QED  BY <2>1, KeysOfFacts, KeyAtFacts
<1>4. ASSUME NEW q \in Place, Spared(q) PROVE old[q].kind \notin {"none", "special"}
  <2>1. KeyAt(src, q) \in KeysOf(old)  BY <1>4, PlanFacts DEF Invariant
  <2> QED  BY <2>1, KeysOfFacts, KeyAtFacts
<1> QED  BY <1>1, <1>2, <1>3, <1>4, KeyAtFacts DEF Spared, Copyable

\* The steps that leave the backup alone, and what is still to be copied.
LEMMA CalmStays ==
    ASSUME CopiedInv, LinkedInv, UNCHANGED <<inputs, dst, links>>, open' \subseteq open,
           Waiting' = Waiting
    PROVE  CopiedInv' /\ LinkedInv'
<1>1. \A p : Finished(p)' = Finished(p)  BY DEF Finished, inputs
<1>2. \A p : Right(p)' = Right(p) /\ Spared(p)' = Spared(p) /\ Untouched(p)' = Untouched(p)
  BY DEF Right, Spared, Copyable, Untouched, inputs
<1>3. \A p : Remembered(p)' = Remembered(p)  BY DEF Remembered, inputs
<1>4. CopiedInv'  BY <1>1, <1>2 DEF CopiedInv
<1> QED  BY <1>1, <1>3, <1>4 DEF LinkedInv, LinksAsSource, inputs

\* A deletion.
LEMMA CalmDeleted ==
    ASSUME Invariant, PlanInv, InOrder, CopiedInv, LinkedInv, plan.from = "all",
           NEW k \in Keys, Delete(k), ~errors'
    PROVE  CopiedInv' /\ LinkedInv'
<1>1. /\ pending = plan.copy /\ pending' = plan.copy /\ links' = {} /\ open' = {} /\ UNCHANGED inputs
      /\ dst \in [Place -> Node]
  BY DeleteEffect DEF InOrder, Delete, Invariant, Kept
<1>2. \A p : ~Finished(p)'  BY <1>1 DEF Finished, Waiting, inputs
<1>3. k \in KeysOf(old) /\ k \notin KeysOf(src)  BY DeleteEffect, PlanFacts DEF Invariant
<1>4. ASSUME NEW p \in Place, Spared(p) PROVE Untouched(p)'
  <2>1. KeyAt(src, p) \in KeysOf(src) /\ KeyAt(src, p) \in KeysOf(old)
    BY <1>4, PlanFacts DEF Spared, Copyable, KeysOf, Invariant
  <2>2. k[1] # p
    <3> SUFFICES ASSUME k[1] = p PROVE FALSE  OBVIOUS
    <3>1. k = KeyAt(old, p) /\ KeyAt(src, p) = KeyAt(old, p)
      BY <1>3, <2>1, KeysOfFacts, KeyAtFacts
    <3> QED  BY <1>3, <2>1, <3>1
  <2>3. ~(k[2] = "dir" /\ k[1] \in Above[p])
    <3> SUFFICES ASSUME k[2] = "dir", k[1] \in Above[p] PROVE FALSE  OBVIOUS
    <3>1. src[k[1]].kind = "dir" /\ k[1] \in Place
      BY <1>4, TreeFacts, AboveFacts DEF Spared, Copyable, Invariant, IsTree
    <3>2. k = KeyAt(src, k[1])  BY <3>1 DEF KeyAt, Keys
    <3> QED  BY <1>3, <3>1, <3>2 DEF KeysOf
  <2>4. p \notin Subtree(k)  BY <2>2, <2>3 DEF Subtree, Below
  <2>5. Touched(dst, dst', p)  BY <2>4, DeleteEffect
  <2>6. Untouched(p)  BY <1>4 DEF CopiedInv
  <2> QED  BY <1>1, <2>5, <2>6, TouchedFacts DEF Untouched, inputs
<1>5. CopiedInv'  BY <1>1, <1>2, <1>4 DEF CopiedInv, Spared, Copyable, inputs
<1>6. LinksAsSource(dst)'
  <2> SUFFICES ASSUME NEW p \in Place, NEW q \in Place, OneFile(dst', p, q) PROVE OneFile(src, p, q)
    BY <1>1 DEF LinksAsSource, inputs
  <2>1. p \notin Subtree(k) /\ q \notin Subtree(k)  BY DeleteEffect, MadeNodes DEF OneFile
  <2>2. Touched(dst, dst', p) /\ Touched(dst, dst', q)  BY <2>1, DeleteEffect
  <2>3. OneFile(dst, p, q)  BY <1>1, <2>2, TouchedFacts DEF OneFile
  <2> QED  BY <2>3 DEF LinkedInv, LinksAsSource
<1> QED  BY <1>1, <1>2, <1>5, <1>6 DEF LinkedInv

\* Making an entry leaves the others as they should be.
LEMMA OthersStay ==
    ASSUME Invariant, PlanInv, CopiedInv, plan.from = "all", UNCHANGED inputs,
           NEW k \in plan.copy, NEW n, Placed(dst', k[1], n), NEW q \in Place, q # k[1]
    PROVE  /\ Spared(q) => Untouched(q)'
           /\ Finished(q) => Right(q)'
           /\ dst[q].kind = "file" \/ dst'[q].kind = "file" => dst'[q] = dst[q]
<1> DEFINE p == k[1]
<1>1. dst \in [Place -> Node] /\ p \in Place  BY TurnedPlaces DEF Invariant, Kept
<1>2. Spared(q) \/ Finished(q) => dst[q].kind # "none"
  BY TurnedPlaces DEF CopiedInv, Untouched, Right
<1>3. CASE Touched(dst, dst', q)
  <2>1. /\ dst'[q].kind = dst[q].kind /\ dst'[q].attr = dst[q].attr
        /\ dst[q].kind # "dir" => dst'[q] = dst[q]
    BY <1>1, <1>3, TouchedFacts
  <2>2. Spared(q) => Untouched(q)'  BY <2>1 DEF CopiedInv, Untouched, inputs
  <2>3. Finished(q) => Right(q)'  BY <2>1 DEF CopiedInv, Right, inputs
  <2> QED  BY <2>1, <2>2, <2>3
<1>4. CASE q \in Missing(dst, p) /\ dst'[q] = FreshDir
  BY <1>2, <1>4, MadeNodes DEF Missing
<1> QED  BY <1>3, <1>4 DEF Placed, Made

\* A key whose copy is done.
LEMMA CalmPlaced ==
    ASSUME Invariant, PlanInv, OneByOne, InOrder, CopiedInv, LinkedInv, plan.from = "all",
           NEW k \in Keys, Turn(k), UNCHANGED <<inputs, open, links>>,
           NEW n, Placed(dst', k[1], n), WholeAt(n, k[1]),
           src[k[1]].kind = "file" => \E r \in Place : <<src[k[1]].ino, r>> \in links /\ n = dst[r]
    PROVE  CopiedInv' /\ LinkedInv'
<1> DEFINE p == k[1]
<1>1. /\ k \in plan.copy /\ group = {k} /\ group' = {} /\ open = {} /\ open' = {}
      /\ pending' = pending /\ k \notin pending
  BY TurnOfPlan
<1>2. /\ p \in Place /\ k = KeyAt(src, p) /\ ~Spared(p)
      /\ \A q \in Place : KeyAt(src, q) = k => q = p
  BY <1>1, TurnedPlaces
<1>3. \A q \in Place : Finished(q)' <=> Finished(q) \/ q = p
  BY <1>1, <1>2 DEF Finished, Waiting, inputs
<1>4. \A q \in Place : q # p => /\ Spared(q) => Untouched(q)'
                                /\ Finished(q) => Right(q)'
                                /\ dst[q].kind = "file" \/ dst'[q].kind = "file" => dst'[q] = dst[q]
  BY <1>1, OthersStay
<1>5. Right(p)'  BY DEF Placed, WholeAt, Right, inputs
<1>6. CopiedInv'
  BY <1>2, <1>3, <1>4, <1>5 DEF CopiedInv, Spared, Copyable, inputs
<1>7. ASSUME src[p].kind = "file"
      PROVE  \E r \in Place : /\ <<src[p].ino, r>> \in links /\ n = dst[r] /\ r # p
                              /\ OneFile(src, p, r) /\ Finished(r)
  <2>1. PICK r \in Place : <<src[p].ino, r>> \in links /\ n = dst[r]  BY <1>7
  <2>2. src[r].kind = "file" /\ src[r].ino = src[p].ino /\ Finished(r)
    BY <2>1 DEF LinkedInv
  <2>3. r # p  BY <1>1, <1>2, <2>2 DEF Finished, Waiting
  <2> QED  BY <1>7, <2>1, <2>2, <2>3 DEF OneFile
<1>8. dst'[p] = n /\ n.kind = src[p].kind  BY DEF Placed, WholeAt
<1>9. LinksAsSource(dst)'
  <2>1. ASSUME NEW q \in Place, q # p, n.kind = "file", dst[q].kind = "file", dst[q].ino = n.ino
        PROVE  OneFile(src, p, q)
    <3>1. PICK r \in Place : n = dst[r] /\ OneFile(src, p, r)  BY <1>7, <1>8, <2>1
    <3>2. OneFile(src, r, q)  BY <2>1, <3>1 DEF OneFile, LinkedInv, LinksAsSource
    <3> QED  BY <3>1, <3>2 DEF OneFile
  <2>2. ASSUME NEW a \in Place, NEW b \in Place, OneFile(dst', a, b) PROVE OneFile(src, a, b)
    <3>1. CASE a # p /\ b # p
      BY <1>4, <2>2, <3>1 DEF OneFile, LinkedInv, LinksAsSource
    <3>2. CASE a = p /\ b # p
      BY <1>4, <1>8, <2>1, <2>2, <3>2 DEF OneFile
    <3>3. CASE a # p /\ b = p
      BY <1>4, <1>8, <2>1, <2>2, <3>3 DEF OneFile
    <3>4. CASE a = p /\ b = p
      BY <1>8, <2>2, <3>4 DEF OneFile
    <3> QED  BY <3>1, <3>2, <3>3, <3>4
  <2> QED  BY <2>2 DEF LinksAsSource, inputs
<1>10. ASSUME NEW a \in Place, NEW b \in Place, OneFile(src, a, b), Finished(a)', Finished(b)'
       PROVE  OneFile(dst', a, b)
  <2>1. ASSUME NEW q \in Place, q # p, Finished(q), OneFile(src, p, q)
        PROVE  dst'[q] = dst[q] /\ dst[q].kind = "file" /\ dst[q].ino = n.ino /\ n.kind = "file"
    <3>1. PICK r \in Place : n = dst[r] /\ OneFile(src, p, r) /\ Finished(r)
      BY <1>7, <2>1 DEF OneFile
    <3>2. OneFile(src, r, q)  BY <2>1, <3>1 DEF OneFile
    <3>3. OneFile(dst, r, q)  BY <2>1, <3>1, <3>2 DEF LinkedInv
    <3> QED  BY <1>4, <2>1, <3>1, <3>3 DEF OneFile
  <2>2. CASE a # p /\ b # p
    <3>1. OneFile(dst, a, b)  BY <1>3, <1>10, <2>2 DEF LinkedInv
    <3> QED  BY <1>4, <2>2, <3>1 DEF OneFile
  <2>3. CASE a = p /\ b # p
    BY <1>3, <1>8, <1>10, <2>1, <2>3 DEF OneFile
  <2>4. CASE a # p /\ b = p
    BY <1>3, <1>8, <1>10, <2>1, <2>4 DEF OneFile
  <2>5. CASE a = p /\ b = p
    BY <1>8, <1>10, <2>5 DEF OneFile
  <2> QED  BY <2>2, <2>3, <2>4, <2>5
<1>11. \A q \in Place : Remembered(q)' <=> Remembered(q)  BY DEF Remembered, inputs
<1>12. ASSUME NEW q \in Place, Finished(q)', Linked(src, q) PROVE Remembered(q)
  <2>1. CASE q = p
    <3>1. \E r \in Place : <<src[p].ino, r>> \in links  BY <1>7, <1>12, <2>1 DEF Linked
    <3> QED  BY <1>12, <2>1, <3>1 DEF Remembered
  <2>2. CASE q # p  BY <1>3, <1>12, <2>2 DEF LinkedInv
  <2> QED  BY <2>1, <2>2
<1>13. \A l \in links : l[2] \in Place
  BY TargetFacts DEF Invariant, LinkInv
<1>14. \A l \in links' : src'[l[2]].kind = "file" /\ src'[l[2]].ino = l[1] /\ Finished(l[2])'
  BY <1>3, <1>13 DEF LinkedInv, inputs
<1> QED
  BY <1>1, <1>6, <1>9, <1>10, <1>11, <1>12, <1>14 DEF LinkedInv, inputs

\* A further name is linked to the first.
LEMMA CalmLinked ==
    ASSUME Invariant, PlanInv, OneByOne, InOrder, CopiedInv, LinkedInv, plan.from = "all",
           NEW k \in Keys, LinkFile(k), UNCHANGED inputs
    PROVE  CopiedInv' /\ LinkedInv'
<1> DEFINE p == k[1]
<1>1. Turn(k) /\ src[p].kind = "file" /\ UNCHANGED <<open, links, outside>>
  BY NamePlaced DEF LinkFile
<1>2. p \in Place /\ k \in plan.copy /\ group = {k} /\ k = KeyAt(src, p)
  BY <1>1, TurnOfPlan
<1>3. PICK r \in Place :
         /\ <<src[p].ino, r>> \in links
         /\ \/ r = p /\ dst' = dst
            \/ \E n \in Node : /\ Placed(dst', p, n) /\ n.kind = "file"
                               /\ dst[r].kind = "file" => n = dst[r]
  BY NamePlaced
<1>4. src[r].kind = "file" /\ src[r].ino = src[p].ino /\ Finished(r)
  BY <1>3 DEF LinkedInv
<1>5. r # p  BY <1>2, <1>4 DEF Finished, Waiting
<1>6. src[r] = src[p]  BY <1>1, <1>2, <1>4, TreeFacts DEF OneFile, Invariant
<1>7. dst[r].kind = "file" /\ WholeAt(dst[r], p)
  BY <1>1, <1>4, <1>6 DEF CopiedInv, Right, WholeAt
<1>8. Placed(dst', p, dst[r])  BY <1>3, <1>5, <1>7
<1> QED  BY <1>1, <1>3, <1>7, <1>8, CalmPlaced

\* A file that is begun is not finished: a new one disturbs no other.
LEMMA CalmBegun ==
    ASSUME Invariant, PlanInv, OneByOne, InOrder, CopiedInv, LinkedInv, plan.from = "all",
           UNCHANGED <<inputs, links>>, NEW k \in Keys, Turn(k), open' = {k},
           src[k[1]].kind = "file", ~Remembered(k[1]),
           NEW n, Placed(dst', k[1], n), \A q \in Place : dst[q].kind = "file" => dst[q].ino # n.ino
    PROVE  CopiedInv' /\ LinkedInv'
<1> DEFINE p == k[1]
<1>1. /\ k \in plan.copy /\ group = {k} /\ group' = {} /\ open = {} /\ pending' = pending
  BY TurnOfPlan
<1>2. p \in Place /\ k = KeyAt(src, p) /\ ~Spared(p)  BY <1>1, TurnedPlaces
<1>3. \A q \in Place : Finished(q)' <=> Finished(q)
  BY <1>1 DEF Finished, Waiting, inputs
<1>4. ~Finished(p)  BY <1>1, <1>2 DEF Finished, Waiting
<1>5. \A q \in Place : q # p => /\ Spared(q) => Untouched(q)'
                                /\ Finished(q) => Right(q)'
                                /\ dst[q].kind = "file" \/ dst'[q].kind = "file" => dst'[q] = dst[q]
  BY <1>1, OthersStay
<1>6. CopiedInv'
  BY <1>2, <1>3, <1>4, <1>5 DEF CopiedInv, Spared, Copyable, inputs
<1>7. dst'[p] = n  BY DEF Placed
<1>8. LinksAsSource(dst)'
  <2>1. ASSUME NEW a \in Place, NEW b \in Place, OneFile(dst', a, b) PROVE OneFile(src, a, b)
    <3>1. CASE a # p /\ b # p
      BY <1>5, <2>1, <3>1 DEF OneFile, LinkedInv, LinksAsSource
    <3>2. CASE a = p /\ b # p  BY <1>5, <1>7, <2>1, <3>2 DEF OneFile
    <3>3. CASE a # p /\ b = p  BY <1>5, <1>7, <2>1, <3>3 DEF OneFile
    <3>4. CASE a = p /\ b = p  BY <3>4 DEF OneFile
    <3> QED  BY <3>1, <3>2, <3>3, <3>4
  <2> QED  BY <2>1 DEF LinksAsSource, inputs
<1>9. ASSUME NEW a \in Place, NEW b \in Place, OneFile(src, a, b), Finished(a), Finished(b)
      PROVE  OneFile(dst', a, b)
  <2>1. OneFile(dst, a, b) /\ a # p /\ b # p  BY <1>4, <1>9 DEF LinkedInv
  <2> QED  BY <1>5, <2>1 DEF OneFile
<1>10. \A q \in Place : Remembered(q)' <=> Remembered(q)  BY DEF Remembered, inputs
<1>11. \A l \in links : l[2] \in Place
  BY TargetFacts DEF Invariant, LinkInv
<1>12. \A l \in links' : src'[l[2]].kind = "file" /\ src'[l[2]].ino = l[1] /\ Finished(l[2])'
  BY <1>3, <1>11 DEF LinkedInv, inputs
<1>13. \A j \in open' : ~Remembered(j[1])'  BY DEF Remembered, inputs
<1>14. \A a, b \in Place : OneFile(src, a, b) /\ Finished(a)' /\ Finished(b)' => OneFile(dst', a, b)
  BY <1>3, <1>9
<1>15. \A q \in Place : Finished(q)' /\ Linked(src, q)' => Remembered(q)'
  BY <1>3, <1>10 DEF LinkedInv, inputs
<1> QED  BY <1>6, <1>8, <1>12, <1>13, <1>14, <1>15 DEF LinkedInv, inputs

\* The names a file of the backup has, when it is written: they are planned with
\* it, and none is finished.
LEMMA NamesWait ==
    ASSUME Invariant, PlanInv, LinkedInv, plan.from = "all", NEW k \in plan.copy, k \in Waiting,
           ~Remembered(k[1]), NEW q \in Place, OneFile(dst, k[1], q)
    PROVE  OneFile(src, k[1], q) /\ ~Finished(q) /\ ~Spared(q)
<1> DEFINE p == k[1]
<1>1. p \in Place /\ k = KeyAt(src, p)  BY TurnedPlaces
<1>2. OneFile(src, p, q)  BY <1>1 DEF LinkedInv, LinksAsSource
<1>3. KeyAt(src, q) \in plan.copy  BY <1>1, <1>2, PlanFacts DEF Invariant
<1>4. ~Finished(q)
  <2> SUFFICES ASSUME Finished(q) PROVE FALSE  OBVIOUS
  <2>1. q # p  BY <1>1 DEF Finished
  <2>2. Linked(src, q) /\ Linked(src, p) /\ src[p].ino = src[q].ino
    BY <1>1, <1>2, <2>1, NamesFacts DEF OneFile, Linked
  <2>3. Remembered(q)  BY <2>2 DEF LinkedInv
  <2> QED  BY <2>2, <2>3 DEF Remembered
<1> QED  BY <1>2, <1>3, <1>4 DEF Spared

\* A file that is written keeps its names, and the places that are done.
LEMMA WrittenStay ==
    ASSUME Invariant, PlanInv, CopiedInv, LinkedInv, plan.from = "all", UNCHANGED inputs,
           NEW k \in plan.copy, k \in Waiting, ~Remembered(k[1]), dst[k[1]].kind = "file",
           NEW a, NEW m, dst' = Written(dst, k[1], a, m)
    PROVE  /\ \A q \in Place : Spared(q) => Untouched(q)'
           /\ \A q \in Place : Finished(q) => Right(q)'
           /\ \A q, r \in Place : OneFile(dst', q, r) <=> OneFile(dst, q, r)
<1>1. dst \in [Place -> Node] /\ k[1] \in Place  BY TurnedPlaces DEF Invariant, Kept
<1>2. \A q \in Place : dst'[q].kind = dst[q].kind /\ dst'[q].ino = dst[q].ino
  BY <1>1, WrittenEffect
<1>3. \A q \in Place : Spared(q) \/ Finished(q) => dst'[q] = dst[q]
  BY <1>1, NamesWait, WrittenEffect
<1> QED  BY <1>2, <1>3 DEF CopiedInv, Untouched, Right, OneFile, inputs

LEMMA CalmTruncated ==
    ASSUME Invariant, PlanInv, OneByOne, InOrder, CopiedInv, LinkedInv, plan.from = "all",
           UNCHANGED <<inputs, links>>, NEW k \in Keys, Turn(k), open' = {k},
           ~Remembered(k[1]), dst[k[1]].kind = "file", dst' = Written(dst, k[1], Partial, Now)
    PROVE  CopiedInv' /\ LinkedInv'
<1>1. /\ k \in plan.copy /\ group = {k} /\ group' = {} /\ open = {} /\ pending' = pending
      /\ k \in Waiting
  BY TurnOfPlan DEF Waiting
<1>2. \A q \in Place : Finished(q)' <=> Finished(q)
  BY <1>1 DEF Finished, Waiting, inputs
<1>3. /\ \A q \in Place : Spared(q) => Untouched(q)'
      /\ \A q \in Place : Finished(q) => Right(q)'
      /\ \A q, r \in Place : OneFile(dst', q, r) <=> OneFile(dst, q, r)
  BY <1>1, WrittenStay
<1>4. CopiedInv'  BY <1>2, <1>3 DEF CopiedInv, Spared, Copyable, inputs
<1>5. LinksAsSource(dst)'  BY <1>3 DEF LinkedInv, LinksAsSource, OneFile, inputs
<1>6. \A q \in Place : Remembered(q)' <=> Remembered(q)  BY DEF Remembered, inputs
<1>7. \A l \in links : l[2] \in Place
  BY TargetFacts DEF Invariant, LinkInv
<1>8. \A l \in links' : src'[l[2]].kind = "file" /\ src'[l[2]].ino = l[1] /\ Finished(l[2])'
  BY <1>2, <1>7 DEF LinkedInv, inputs
<1>9. \A j \in open' : ~Remembered(j[1])'  BY DEF Remembered, inputs
<1>10. \A q, r \in Place : OneFile(src, q, r) /\ Finished(q)' /\ Finished(r)' => OneFile(dst', q, r)
  BY <1>2, <1>3 DEF LinkedInv
<1>11. \A q \in Place : Finished(q)' /\ Linked(src, q)' => Remembered(q)'
  BY <1>2, <1>6 DEF LinkedInv, inputs
<1> QED  BY <1>4, <1>5, <1>8, <1>9, <1>10, <1>11 DEF LinkedInv, inputs

\* A file that is closed without an error is right, and the first of its names to
\* be copied is remembered.
LEMMA CalmClosed ==
    ASSUME Invariant, PlanInv, OneByOne, InOrder, CopiedInv, LinkedInv, plan.from = "all",
           UNCHANGED inputs, NEW k \in Keys, CloseFile(k), ~errors'
    PROVE  CopiedInv' /\ LinkedInv'
<1> DEFINE p == k[1]
<1>1. /\ dst' = Written(dst, p, src[p].attr, src[p].mtime) /\ dst[p].kind = "file"
      /\ k \in plan.copy /\ open = {k} /\ open' = {} /\ group = {} /\ group' = {} /\ pending' = pending
      /\ k \notin pending /\ k \in Waiting
      /\ links' = IF Linked(src, p) /\ ~Remembered(p) THEN links \cup {<<src[p].ino, p>>} ELSE links
  BY FileClosed DEF Waiting
<1>2. /\ p \in Place /\ k = KeyAt(src, p) /\ ~Spared(p)
      /\ \A q \in Place : KeyAt(src, q) = k => q = p
  BY <1>1, TurnedPlaces
<1>3. \A q \in Place : Finished(q)' <=> Finished(q) \/ q = p
  BY <1>1, <1>2 DEF Finished, Waiting, inputs
<1>4. ~Remembered(p)  BY <1>1 DEF LinkedInv
<1>5. /\ \A q \in Place : Spared(q) => Untouched(q)'
      /\ \A q \in Place : Finished(q) => Right(q)'
      /\ \A q, r \in Place : OneFile(dst', q, r) <=> OneFile(dst, q, r)
  <2>1. dst' = Written(dst, k[1], src[p].attr, src[p].mtime)  BY <1>1
  <2> QED  BY <1>1, <1>4, <2>1, WrittenStay
<1>6. src[p].kind = "file"
  <2>1. OneFile(dst, p, p)  BY <1>1 DEF OneFile
  <2> QED  BY <1>2, <2>1 DEF LinkedInv, LinksAsSource, OneFile
<1>7. Right(p)'
  <2>1. dst \in [Place -> Node] /\ OneFile(dst, p, p)  BY <1>1 DEF OneFile, Invariant, Kept
  <2>2. dst'[p].kind = "file" /\ dst'[p].attr = src[p].attr /\ dst'[p].mtime = src[p].mtime
    BY <1>1, <1>2, <2>1, WrittenEffect
  <2> QED  BY <1>6, <2>2 DEF Right, inputs
<1>8. CopiedInv'
  BY <1>3, <1>5, <1>7 DEF CopiedInv, Spared, Copyable, inputs
<1>9. LinksAsSource(dst)'  BY <1>5 DEF LinkedInv, LinksAsSource, OneFile, inputs
<1>10. ASSUME NEW q \in Place, q # p, Finished(q) PROVE ~OneFile(src, p, q)
  <2> SUFFICES ASSUME OneFile(src, p, q) PROVE FALSE  OBVIOUS
  <2>1. Linked(src, q) /\ src[q].ino = src[p].ino /\ Linked(src, p)
    BY <1>2, <1>10, NamesFacts DEF OneFile, Linked
  <2>2. Remembered(q)  BY <1>10, <2>1 DEF LinkedInv
  <2> QED  BY <1>4, <2>1, <2>2 DEF Remembered
<1>11. \A a, b \in Place : OneFile(src, a, b) /\ Finished(a)' /\ Finished(b)' => OneFile(dst', a, b)
  <2> SUFFICES ASSUME NEW a \in Place, NEW b \in Place, OneFile(src, a, b), Finished(a)', Finished(b)'
               PROVE  OneFile(dst, a, b)
    BY <1>5
  <2>1. CASE a # p /\ b # p  BY <1>3, <2>1 DEF LinkedInv
  <2>2. CASE a = p /\ b # p  BY <1>3, <1>10, <2>2
  <2>3. CASE a # p /\ b = p
    <3>1. OneFile(src, p, a)  BY <2>3 DEF OneFile
    <3> QED  BY <1>3, <1>10, <2>3, <3>1
  <2>4. CASE a = p /\ b = p  BY <1>1, <2>4 DEF OneFile
  <2> QED  BY <2>1, <2>2, <2>3, <2>4
<1>12. links \subseteq links' /\ (Linked(src, p) => <<src[p].ino, p>> \in links')
  BY <1>1, <1>4
<1>13. \A q \in Place : Finished(q)' /\ Linked(src, q)' => Remembered(q)'
  <2>1. \A q \in Place : Finished(q) /\ Linked(src, q) => \E l \in links' : l[1] = src[q].ino
    BY <1>12 DEF LinkedInv, Remembered
  <2>2. Linked(src, p) => \E l \in links' : l[1] = src[p].ino  BY <1>12
  <2> QED  BY <1>3, <2>1, <2>2 DEF Remembered, inputs
<1>14. \A l \in links : l[2] \in Place
  BY TargetFacts DEF Invariant, LinkInv
<1>15. \A l \in links' : src'[l[2]].kind = "file" /\ src'[l[2]].ino = l[1] /\ Finished(l[2])'
  <2> SUFFICES ASSUME NEW l \in links'
               PROVE  src[l[2]].kind = "file" /\ src[l[2]].ino = l[1] /\ Finished(l[2])'
    BY DEF inputs
  <2>1. CASE l \in links  BY <1>3, <1>14, <2>1 DEF LinkedInv
  <2>2. CASE l = <<src[p].ino, p>>  BY <1>2, <1>3, <1>6, <2>2
  <2> QED  BY <1>1, <2>1, <2>2
<1> QED  BY <1>1, <1>8, <1>9, <1>11, <1>13, <1>15 DEF LinkedInv, inputs

\* Every step, if there was no error.
LEMMA CalmStep ==
    ASSUME Invariant, PlanInv, OneByOne, InOrder, CalmInv, [Next]_vars
    PROVE  CalmInv'
<1>1. UNCHANGED inputs /\ (errors => errors') /\ (outside => outside')  BY FlowStep
<1> SUFFICES ASSUME plan.from = "all", ~errors', ~outside', ~errors, ~outside, CopiedInv, LinkedInv
             PROVE  CopiedInv' /\ LinkedInv'
  BY <1>1 DEF CalmInv, Calm, LinksAsSource, inputs
<1>2. ASSUME UNCHANGED <<dst, links>>, open' \subseteq open, Waiting' = Waiting
      PROVE  CopiedInv' /\ LinkedInv'
  BY <1>1, <1>2, CalmStays
<1>3. CASE StopRequested \/ StartCopies \/ Finish \/ UNCHANGED vars
  BY <1>2, <1>3 DEF StopRequested, StartCopies, Finish, vars, todo, Waiting
<1>4. CASE TakeAgain  BY <1>4 DEF TakeAgain, OneByOne
<1>5. ASSUME NEW k \in Keys, Delete(k) PROVE CopiedInv' /\ LinkedInv'
  BY <1>5, CalmDeleted
<1>6. ASSUME NEW k \in Keys, Take(k) PROVE CopiedInv' /\ LinkedInv'
  <2>1. NamesWith(k) = {}  BY DEF NamesWith
  <2>2. Waiting' = Waiting  BY <1>6, <2>1 DEF Take, Waiting
  <2> QED  BY <1>2, <1>6, <2>2 DEF Take
<1>7. ASSUME NEW k \in Keys, FailCopy(k) \/ CopyElsewhere(k) PROVE CopiedInv' /\ LinkedInv'
  BY <1>7 DEF FailCopy, CopyElsewhere
<1>8. ASSUME NEW k \in Keys, CopyDir(k) PROVE CopiedInv' /\ LinkedInv'
  <2>1. Turn(k)  BY <1>8 DEF CopyDir
  <2>2. PICK n \in Node : /\ Placed(dst', k[1], n) /\ WholeAt(n, k[1]) /\ src[k[1]].kind = "dir"
                          /\ UNCHANGED <<open, links, outside>>
    BY <1>8, DirPlaced
  <2> QED  BY <1>1, <2>1, <2>2, CalmPlaced
<1>9. ASSUME NEW k \in Keys, CopySymlink(k) PROVE CopiedInv' /\ LinkedInv'
  <2>1. Turn(k)  BY <1>9 DEF CopySymlink
  <2>2. PICK n \in Node : /\ Placed(dst', k[1], n) /\ WholeAt(n, k[1]) /\ src[k[1]].kind = "symlink"
                          /\ UNCHANGED <<open, links, outside>>
    BY <1>9, SymlinkPlaced
  <2> QED  BY <1>1, <2>1, <2>2, CalmPlaced
<1>10. ASSUME NEW k \in Keys, LinkFile(k) PROVE CopiedInv' /\ LinkedInv'
  BY <1>1, <1>10, CalmLinked
<1>11. ASSUME NEW k \in Keys, OpenFile(k) PROVE CopiedInv' /\ LinkedInv'
  <2>1. Turn(k)  BY <1>11 DEF OpenFile
  <2>2. /\ src[k[1]].kind = "file" /\ open' = {k} /\ ~Remembered(k[1]) /\ UNCHANGED <<links, outside>>
        /\ \/ \E n \in Node : /\ Placed(dst', k[1], n) /\ n.kind = "file"
                              /\ \A q \in Place : dst[q].kind = "file" => dst[q].ino # n.ino
           \/ dst[k[1]].kind = "file" /\ dst' = Written(dst, k[1], Partial, Now)
    BY <1>11, FilePlaced
  <2>3. CASE dst[k[1]].kind = "file" /\ dst' = Written(dst, k[1], Partial, Now)
    BY <1>1, <2>1, <2>2, <2>3, CalmTruncated
  <2>4. ASSUME NEW n \in Node, Placed(dst', k[1], n),
               \A q \in Place : dst[q].kind = "file" => dst[q].ino # n.ino
        PROVE  CopiedInv' /\ LinkedInv'
    BY <1>1, <2>1, <2>2, <2>4, CalmBegun
  <2> QED  BY <2>2, <2>3, <2>4
<1>12. ASSUME NEW k \in Keys, CloseFile(k) PROVE CopiedInv' /\ LinkedInv'
  BY <1>1, <1>12, CalmClosed
<1> QED
  BY <1>3, <1>4, <1>5, <1>6, <1>7, <1>8, <1>9, <1>10, <1>11, <1>12 DEF Next, Copy

-----------------------------------------------------------------------------
(* The whole invariant, in every state.                                    *)

\* What a whole synchronisation has copied has its final form, and what is left to
\* delete and to copy is all that is still wrong (work_transfer with the manual backend).
THEOREM ProgressAlways == Spec => [](Invariant /\ Progress)
<1>1. Init => Invariant /\ Progress
  BY InvariantInit, FlowInit, RoomInit, CalmInit DEF Progress
<1>2. Invariant /\ Progress /\ [Next]_vars => (Invariant /\ Progress)'
  BY InvariantStep, FlowStep, RoomStep, CalmStep DEF Progress
<1> QED  BY <1>1, <1>2, PTL DEF Spec

\* With delete-after nothing is written through a symlink of the backup, unless a
\* call was refused (work_manual_copy_dir, work_manual_make_parent_dirs follow the
\* symlink they find): the deletions are over before the copies begin.
THEOREM StaysInsideAlways == Spec => []StaysInside
<1>1. Progress => StaysInside  BY DEF Progress, RoomInv, StaysInside
<1> QED  BY <1>1, ProgressAlways, PTL

-----------------------------------------------------------------------------
(* What is left at the end.                                                *)

\* What is not planned shows what it should, or is newer and kept.
KeptNewer(p) == ~opts.deleteAfter /\ src[p].kind # "symlink" /\ src[p].mtime < old[p].mtime
Same(p) ==
    /\ old[p].kind = src[p].kind /\ old[p].attr = src[p].attr
    /\ src[p].kind # "symlink" => old[p].mtime = src[p].mtime
    /\ \A q \in Place : q # p /\ OneFile(src, p, q) => OneFile(old, p, q)

LEMMA SparedFacts ==
    ASSUME InputInv, PlanInv, plan.from = "all", NEW p \in Place, Spared(p)
    PROVE  KeptNewer(p) \/ Same(p)
<1> DEFINE k == KeyAt(src, p)
           S == AllNames(src, p)
           T == AllNames(old, p)
<1>1. /\ VerdictOf(src, old, k, opts).src \in {"equal", "ignore"}
      /\ k \in KeysOf(old) /\ k[1] = p
  BY PlanFacts, KeyAtFacts
<1>2. k \in KeysOf(src)  BY DEF Spared, Copyable, KeysOf
<1>3. VerdictOf(src, old, k, opts) = VerdictBothSides(src[p], old[p], FALSE, S, T, opts)
  BY <1>1, <1>2 DEF VerdictOf
<1>4. \/ KeptNewer(p)
      \/ /\ old[p].kind = src[p].kind /\ old[p].attr = src[p].attr
         /\ src[p].kind # "symlink" => old[p].mtime = src[p].mtime /\ ~LinksDiffer(S, T)
  BY <1>1, <1>3 DEF VerdictBothSides, Both, KeptNewer
<1>5. ASSUME NEW q \in Place, q # p, OneFile(src, p, q), src[p].kind # "symlink" => ~LinksDiffer(S, T)
      PROVE  OneFile(old, p, q)
  <2>1. Linked(src, p) /\ <<q, "leaf">> \in S /\ Cardinality(S) > 1
    BY <1>5, NamesFacts, ManyNames DEF OneFile
  <2>2. <<q, "leaf">> \in T  BY <1>5, <2>1 DEF LinksDiffer, OneFile
  <2>3. Linked(old, p)  BY <2>2, NamesFacts
  <2>4. PICK r \in Place : OneFile(old, p, r) /\ <<q, "leaf">> = <<r, "leaf">>
    BY <2>2, <2>3, NamesFacts
  <2> QED  BY <2>4
<1> QED  BY <1>4, <1>5 DEF Same, OneFile

\* At the end all that was planned is finished.
LEMMA DoneFacts ==
    ASSUME Invariant, Progress, Calm, phase = "done"
    PROVE  /\ CopiedInv /\ LinkedInv /\ doomed = {}
           /\ \A p \in Place : Copyable(p) => Finished(p) \/ Spared(p)
<1>1. CopiedInv /\ LinkedInv  BY DEF Progress, CalmInv
<1>2. doomed = {} /\ Waiting = {}  BY DEF Progress, InOrder, Calm, Waiting
<1> QED  BY <1>1, <1>2 DEF Finished, Spared

\* The names of a file are names of one file then.
LEMMA NamesDone ==
    ASSUME Invariant, Progress, Calm, phase = "done", NEW p \in Place, NEW q \in Place, OneFile(src, p, q),
           Spared(p) => Same(p)
    PROVE  OneFile(dst, p, q)
<1>1. CopiedInv /\ LinkedInv /\ Copyable(p) /\ Copyable(q) /\ InputInv /\ PlanInv /\ plan.from = "all"
  BY DoneFacts DEF OneFile, Copyable, Invariant, Progress, Calm
<1>2. Finished(p) <=> Finished(q)
  <2>1. OneFile(src, q, p)  BY DEF OneFile
  <2>2. KeyAt(src, p) \in plan.copy <=> KeyAt(src, q) \in plan.copy  BY <1>1, <2>1, PlanFacts
  <2>3. \A r \in Place : Copyable(r) => (Finished(r) <=> KeyAt(src, r) \in plan.copy)
    BY DoneFacts DEF Finished, Spared
  <2> QED  BY <1>1, <2>2, <2>3
<1>3. CASE Finished(p)  BY <1>1, <1>2, <1>3 DEF LinkedInv
<1>4. CASE ~Finished(p)
  <2>1. Spared(p) /\ Spared(q) /\ Same(p)  BY <1>1, <1>2, <1>4, DoneFacts
  <2>2. OneFile(old, p, q)  BY <2>1 DEF Same, OneFile
  <2>3. dst[p] = old[p] /\ dst[q] = old[q]
    BY <1>1, <2>1, <2>2 DEF CopiedInv, Untouched, OneFile
  <2> QED  BY <2>2, <2>3 DEF OneFile
<1> QED  BY <1>3, <1>4

\* A synchronisation with delete-after that met no error (work_transfer with the
\* whole plan) has made the backup a mirror: complete entries of the same kinds,
\* the times of files, the same hard links, and nothing else but special files.
THEOREM MirrorMadeAlways == Spec => []MirrorMade
<1>1. Invariant /\ Progress => MirrorMade
  <2> SUFFICES ASSUME Invariant, Progress, phase = "done", plan.from = "all", ~errors, opts.deleteAfter,
                      LinksAsSource(old)
               PROVE  /\ \A p \in Place :
                            src[p].kind # "special" /\ old[p].kind # "special" =>
                            /\ dst[p].kind = src[p].kind /\ dst[p].attr = src[p].attr
                            /\ src[p].kind = "file" => dst[p].mtime = src[p].mtime
                      /\ \A p, q \in Place : OneFile(src, p, q) <=> OneFile(dst, p, q)
    BY DEF MirrorMade
  <2>1. Calm /\ RoomInv /\ InputInv /\ PlanInv  BY DEF Calm, Progress, RoomInv, Invariant
  <2>2. CopiedInv /\ LinkedInv /\ doomed = {}  BY <2>1, DoneFacts
  <2>3. \A p \in Place : Spared(p) => Same(p)  BY <2>1, SparedFacts DEF KeptNewer
  <2>4. ASSUME NEW p \in Place, src[p].kind # "special", old[p].kind # "special"
        PROVE  Right(p) /\ dst[p].attr = src[p].attr
    <3>1. CASE Copyable(p)
      <4>1. CASE Finished(p)  BY <2>2, <4>1 DEF CopiedInv, Right
      <4>2. CASE Spared(p)
        BY <2>2, <2>3, <4>2 DEF CopiedInv, Untouched, Right, Same
      <4> QED  BY <2>1, <3>1, <4>1, <4>2, DoneFacts
    <3>2. CASE ~Copyable(p)
      <4>1. src[p].kind = "none"  BY <2>4, <3>2 DEF Copyable
      <4>2. dst[p].kind = "none"  BY <2>1, <2>2, <2>4, <3>2 DEF RoomInv, Fits, Special
      <4>3. src[p] = Absent /\ dst[p] = Absent
        BY <2>1, <4>1, <4>2, TreeFacts DEF RoomInv, NothingIsAbsent
      <4> QED  BY <4>1, <4>2, <4>3 DEF Right
    <3> QED  BY <3>1, <3>2
  <2>5. ASSUME NEW p \in Place, NEW q \in Place PROVE OneFile(src, p, q) <=> OneFile(dst, p, q)
    BY <2>1, <2>2, <2>3, NamesDone DEF LinkedInv, LinksAsSource
  <2> QED  BY <2>4, <2>5 DEF Right
<1> QED  BY <1>1, ProgressAlways, PTL

\* A file or symlink has nothing more to transfer.
LEMMA LeafDone ==
    ASSUME Invariant, Progress, Calm, phase = "done", NEW k \in KeysOf(src), k[2] # "dir"
    PROVE  VerdictOf(src, dst, k, opts).src \notin Transferring
<1> DEFINE p == k[1]
           S == AllNames(src, p)
           T == AllNames(dst, p)
<1>1. CopiedInv /\ LinkedInv /\ InputInv /\ PlanInv /\ plan.from = "all"
  BY DoneFacts DEF Invariant, Progress, Calm
<1>2. p \in Place /\ k = KeyAt(src, p) /\ src[p].kind \notin {"none", "special", "dir"} /\ Copyable(p)
  BY KeysOfFacts, KeyFacts, KeyAtFacts DEF Copyable
<1>3. src[p] \in Node /\ src[p].mtime \in Nat  BY <1>1, <1>2, TreeFacts DEF Node
<1>4. /\ dst[p].kind = src[p].kind \/ KeptNewer(p)
      /\ k \in KeysOf(dst)
      /\ \/ dst[p].mtime = old[p].mtime /\ KeptNewer(p)
         \/ /\ dst[p].attr = src[p].attr /\ dst[p].kind = src[p].kind
            /\ src[p].kind # "symlink" => dst[p].mtime = src[p].mtime
            /\ Spared(p) => Same(p)
  <2>1. CASE Finished(p)
    <3>1. Right(p) /\ ~Spared(p)  BY <1>1, <1>2, <2>1 DEF CopiedInv, Finished, Spared
    <3>2. src[p].kind \in {"file", "symlink"}  BY <1>2, <1>3 DEF Node, Kinds
    <3>3. k \in KeysOf(dst)  BY <1>2, <3>1 DEF Right, KeysOf, KeyAt
    <3> QED  BY <3>1, <3>2, <3>3 DEF Right
  <2>2. CASE Spared(p)
    <3>1. k \in KeysOf(old) /\ k = KeyAt(old, p)  BY <1>1, <1>2, <2>2, PlanFacts
    <3>2. old[p].kind # "dir"  BY <1>2, <3>1 DEF KeyAt
    <3>3. dst[p] = old[p]  BY <1>1, <1>2, <2>2, <3>2 DEF CopiedInv, Untouched
    <3>4. k \in KeysOf(dst)  BY <1>2, <3>1, <3>3, KeysOfFacts DEF KeyAt
    <3> QED  BY <1>1, <1>2, <2>2, <3>3, <3>4, SparedFacts DEF Same
  <2> QED  BY <1>2, <2>1, <2>2, DoneFacts
<1>5. VerdictOf(src, dst, k, opts) = VerdictBothSides(src[p], dst[p], FALSE, S, T, opts)
  BY <1>4 DEF VerdictOf
<1>6. CASE dst[p].mtime = old[p].mtime /\ KeptNewer(p)
  BY <1>5, <1>6 DEF VerdictBothSides, Both, Transferring, KeptNewer
<1>7. CASE /\ dst[p].attr = src[p].attr /\ dst[p].kind = src[p].kind
           /\ src[p].kind # "symlink" => dst[p].mtime = src[p].mtime
           /\ Spared(p) => Same(p)
  <2>1. ~LinksDiffer(S, T)
    <3>1. CASE Linked(src, p)
      <4>1. \A q \in Place : OneFile(src, p, q) <=> OneFile(dst, p, q)
        BY <1>1, <1>2, <1>7, NamesDone DEF LinkedInv, LinksAsSource
      <4>2. Linked(dst, p)  BY <1>2, <1>7, <3>1, <4>1, NamesFacts
      <4>3. S = T
        <5>1. {r \in Place : OneFile(src, p, r)} = {r \in Place : OneFile(dst, p, r)}  BY <4>1
        <5>2. S = {<<q, "leaf">> : q \in {r \in Place : OneFile(src, p, r)}}
          BY <1>2, <3>1, NamesFacts
        <5>3. T = {<<q, "leaf">> : q \in {r \in Place : OneFile(dst, p, r)}}
          BY <1>2, <4>2, NamesFacts
        <5> QED  BY <5>1, <5>2, <5>3
      <4> QED  BY <4>3 DEF LinksDiffer
    <3>2. CASE ~Linked(src, p)  BY <1>2, <3>2, ManyNames DEF LinksDiffer
    <3> QED  BY <3>1, <3>2
  <2>2. ~(src[p].mtime < src[p].mtime)  BY <1>3
  <2> QED  BY <1>5, <1>7, <2>1, <2>2 DEF VerdictBothSides, Both, Transferring
<1> QED  BY <1>4, <1>6, <1>7

\* After a synchronisation without an error the next analysis plans nothing more
\* than the times of directories (item_get_actions_reasons on what the transfer
\* left), with delete-after and without.
THEOREM ConvergesAlways == Spec => []Converges
<1>1. Invariant /\ Progress => Converges
  <2> SUFFICES ASSUME Invariant, Progress, phase = "done", plan.from = "all", ~errors, ~outside,
                      LinksAsSource(old)
               PROVE  /\ \A k \in TransfersOf(src, dst, opts) : k[2] = "dir"
                      /\ DeletionsOf(src, dst, opts) = {}
    BY DEF Converges
  <2>1. Calm /\ RoomInv  BY DEF Calm, Progress
  <2>2. \A k \in ToTransfer(src, dst, opts) : k \in KeysOf(src) /\ k[2] = "dir"
    BY <2>1, LeafDone DEF ToTransfer
  <2>3. \A k \in ToTransfer(src, dst, opts) : GroupOf(src, dst, k, opts) = {}
    <3> SUFFICES ASSUME NEW k \in ToTransfer(src, dst, opts), VerdictOf(src, dst, k, opts).src = "hardlink"
                 PROVE  FALSE
      BY DEF GroupOf
    <3>1. Linked(src, k[1]) /\ k[1] \in Place /\ k = KeyAt(src, k[1])
      BY <2>2, SourceVerdict, KeysOfFacts, KeyFacts
    <3>2. src[k[1]].kind = "file"  BY <3>1 DEF Linked
    <3>3. k = <<k[1], "leaf">>  BY <3>1, <3>2, KeyAtFacts
    <3> QED  BY <2>2, <3>3
  <2>4. \A k \in TransfersOf(src, dst, opts) : k[2] = "dir"  BY <2>2, <2>3 DEF TransfersOf
  <2>5. ASSUME opts.deleteAfter, NEW k \in KeysOf(dst) PROVE k \in KeysOf(src)
    <3>1. /\ k[1] \in Place /\ k = KeyAt(dst, k[1]) /\ dst[k[1]].kind \notin {"none", "special"}
          /\ doomed = {}
      BY <2>1, KeysOfFacts, KeyFacts, DoneFacts
    <3>2. Fits(k[1])  BY <2>1, <2>5, <3>1 DEF RoomInv, Special
    <3> QED  BY <3>1, <3>2 DEF Fits, Copyable, KeysOf
  <2> QED  BY <2>4, <2>5 DEF DeletionsOf
<1> QED  BY <1>1, ProgressAlways, PTL
=============================================================================
