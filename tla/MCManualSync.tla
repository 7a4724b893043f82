---------------------------- MODULE MCManualSync ----------------------------
(* Instances of ManualSync for TLC: small trees.                           *)
EXTENDS ManualSync

\* d/ with an entry d/e in it, and f beside it.
AboveD == [p \in Place |-> IF p = "de" THEN {"d"} ELSE {}]

Entry(kind, i, a, m) == [kind |-> kind, ino |-> i, attr |-> a, mtime |-> m, access |-> "ok"]
File(i, a, m) == Entry("file", i, a, m)
Dir(m)        == Entry("dir", 0, 1, m)
Link(a)       == Entry("symlink", 0, a, 1)
Special       == Entry("special", 0, 1, 1)

Consistent(t) ==   \* names of one inode show one file
    \A p, q \in DOMAIN t :
        t[p].kind = "file" /\ t[q].kind = "file" /\ t[p].ino = t[q].ino => t[p] = t[q]
Trees3(ds, es, fs) ==
    {t \in {[p \in {"d", "de", "f"} |-> IF p = "d" THEN x ELSE IF p = "de" THEN y ELSE z] :
            x \in ds, y \in es, z \in fs} : IsTree(t) /\ Consistent(t)}

Sources ==
    Trees3({Absent, Dir(2), File(2, 1, 2), Link(1)},
           {Absent, File(1, 1, 2)},
           {Absent, File(1, 1, 2), File(3, 2, 2)})
Backups ==
    Trees3({Absent, Dir(1), File(2, 1, 2), Link(1)},
           {Absent, File(1, 1, 2), File(1, 2, 3)},
           {Absent, File(1, 1, 2), File(1, 2, 3), File(2, 1, 2), Special})

BothOptions == {[deleteAfter |-> d, deleteIgnored |-> FALSE] : d \in BOOLEAN}
=============================================================================
