----------------------------- MODULE MCAnalysis -----------------------------
(* Instances of Analysis for TLC: small trees.                             *)
EXTENDS Analysis

\* d/ with an entry d/e in it, and f, g and h beside it.
AboveD == [p \in Place |-> IF p = "de" THEN {"d"} ELSE {}]

File(i, a, m) == [kind |-> "file", ino |-> i, attr |-> a, mtime |-> m, access |-> "ok"]
Dir(m)        == [kind |-> "dir", ino |-> 9, attr |-> 1, mtime |-> m, access |-> "ok"]
Link(a)       == [kind |-> "symlink", ino |-> 8, attr |-> a, mtime |-> 1, access |-> "ok"]
Special       == [kind |-> "special", ino |-> 7, attr |-> 1, mtime |-> 1, access |-> "ok"]
Refused(n, a) == [n EXCEPT !.access = a]

\* A tree that holds nothing but what t says.
Tree(t) == [p \in Place |-> IF p \in DOMAIN t THEN t[p] ELSE Absent]

Trees3(ds, es, fs) ==
    {t \in {Tree([p \in {"d", "de", "f"} |-> IF p = "d" THEN x ELSE IF p = "de" THEN y ELSE z]) :
            x \in ds, y \in es, z \in fs} : IsTree(t)}

\* Trees a walker may fail to read: one file time, every refusal.
Readable == {Absent, Dir(1), File(1, 1, 1)}
Guarded == Readable \cup {Refused(Dir(1), "noread"), Refused(Dir(1), "nostat"), Refused(File(1, 1, 1), "nostat")}
Leaves == {Absent, File(2, 1, 1)}
GuardedSource ==
    Trees3(Guarded, Leaves \cup {Refused(File(2, 1, 1), "nostat")}, {Absent, File(3, 1, 1), Special})
GuardedBackup == Trees3(Readable \cup {Refused(Dir(1), "noread"), Refused(Dir(1), "nostat")}, Leaves, {Absent, File(3, 1, 1)})
PlainTrees == Trees3(Readable, Leaves, {Absent, File(3, 1, 1)})
OneIgnored == {{}, {<<"d", "dir">>}, {<<"de", "leaf">>}}

\* Trees of files, linked or not; the backup's may be older, as old or newer, and
\* of another size.
Trees3f(xs, ys, zs) ==
    {Tree([p \in {"f", "g", "h"} |-> IF p = "f" THEN x ELSE IF p = "g" THEN y ELSE z]) :
        x \in xs, y \in ys, z \in zs}
Consistent(t) ==   \* names of one inode show one file
    \A p, q \in DOMAIN t :
        t[p].kind = "file" /\ t[q].kind = "file" /\ t[p].ino = t[q].ino => t[p] = t[q]
PlannedSource ==
    {t \in Trees3f({File(1, 1, 2)}, {Absent, File(1, 1, 2), File(2, 1, 2), Link(1)},
                   {Absent, File(1, 1, 2)}) : Consistent(t)}
Aged(i) == {Absent} \cup {File(i, a, m) : a \in 1..2, m \in 1..3}
PlannedBackup ==
    {t \in Trees3f({Absent, File(1, 1, 2), File(1, 1, 3)},
                   {Absent, Link(1), Link(2), File(1, 1, 2), File(1, 1, 3), File(2, 1, 2), File(2, 2, 2)},
                   {Absent, File(1, 1, 2), File(1, 1, 3), File(3, 1, 2)}) : Consistent(t)}
    \cup Trees3f(Aged(1), Aged(2) \cup {Link(1)}, {Absent})

Option(da, di, fs) == [deleteAfter |-> da, deleteIgnored |-> di, sameFs |-> fs]
Case(l, r, i, b, o) == [source |-> l, backup |-> r, ignored |-> i, badNames |-> b, opts |-> o]

\* Walkers that are refused something, an ignored path, one or two devices.
Guarding ==
    {Case(l, r, i, {}, o) : l \in GuardedSource, r \in GuardedBackup, i \in OneIgnored,
        o \in {Option(TRUE, FALSE, fs) : fs \in BOOLEAN}}

\* Files to compare, with and without delete-after; a name that is refused.
Planning ==
    {Case(l, r, {}, {}, Option(da, FALSE, TRUE)) :
        l \in PlannedSource, r \in PlannedBackup, da \in BOOLEAN}
    \cup {Case(l, r, {}, {"h"}, Option(TRUE, FALSE, TRUE)) :
        l \in {t \in PlannedSource : Exists(t, "h")}, r \in {t \in PlannedBackup : ~Exists(t, "f")}}

BothKinds == Guarding \cup Planning

\* Ignored files are to be deleted.
Ignoring ==
    {Case(l, r, i, {}, Option(FALSE, TRUE, TRUE)) : l \in PlainTrees, r \in PlainTrees, i \in OneIgnored}
=============================================================================
