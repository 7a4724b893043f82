-------------------------------- MODULE Trees --------------------------------
(***************************************************************************)
(* Directory trees as cecup sees them, and the verdict it gives on a path  *)
(* of the source, of the backup or of both (item_get_actions_reasons).     *)
(*                                                                         *)
(* A tree gives every place (a relative path) what is found there. A path  *)
(* as cecup stores it is a key: the place, and whether it ends in a slash, *)
(* so a directory and a file of the same name are two different keys.      *)
(***************************************************************************)
EXTENDS Naturals, FiniteSets

CONSTANTS
    Place,       \* relative paths without their trailing slash
    Above        \* [Place -> SUBSET Place]: the directories a place lies in

ASSUME AboveAssumption ==
    /\ Above \in [Place -> SUBSET Place]
    /\ \A p \in Place : p \notin Above[p] /\ \A a \in Above[p] : Above[a] \subseteq Above[p]
    \* paths are finite: of several places one lies in none of the others
    /\ \A S \in SUBSET Place : S # {} => \E a \in S : Above[a] \cap S = {}

\* A directory has finitely many entries.
ASSUME PlaceAssumption == IsFiniteSet(Place)

Keys == Place \X {"dir", "leaf"}
Absent == [kind |-> "none", ino |-> 0, attr |-> 0, mtime |-> 0, access |-> "ok"]

\* What can be found at a place. "ino" is the identity of the file, "attr" what
\* the comparison looks at besides the time (size, permissions, owner; the
\* target of a symlink), "access" what the walker is refused: the stat of the
\* entry, or the listing of the directory.
Kinds == {"none", "file", "dir", "symlink", "special"}
IsTree(t) ==
    \A p \in Place :
        /\ t[p].kind \in Kinds /\ t[p].access \in {"ok", "noread", "nostat"}
        /\ t[p].kind # "none" => \A a \in Above[p] : t[a].kind = "dir"

Exists(t, p) == t[p].kind # "none"
NothingIsAbsent(t) == \A p \in Place : ~Exists(t, p) => t[p] = Absent
KeyAt(t, p) == <<p, IF t[p].kind = "dir" THEN "dir" ELSE "leaf">>
Below(p) == {q \in Place : p \in Above[q]}

\* traversal_unknown_path_covers: whatever slashes the two texts end in, an
\* unknown path hides itself and everything below it.
Covers(u, p) == u = p \/ u \in Above[p]

\* What a stat that failed leaves in the arrays: a zeroed struct.
Stat(t, p) == IF t[p].access = "nostat" THEN Absent ELSE t[p]

-----------------------------------------------------------------------------
(* Hard links. The names of a file are the keys the walker listed for its  *)
(* inode; ignored names are left out (work_traverse_fs).                   *)

Linked(t, p) ==
    t[p].kind = "file" /\ \E q \in Place \ {p} : t[q].kind = "file" /\ t[q].ino = t[p].ino

\* item_hardlink_side
Names(t, listed, p) ==
    IF Linked(t, p)
    THEN {k \in listed : k[2] = "leaf" /\ t[k[1]].kind = "file" /\ t[k[1]].ino = t[p].ino}
    ELSE {}

-----------------------------------------------------------------------------
(* item_get_actions_reasons: what the rows of a key show on either side.   *)
(* o holds the options deleteAfter and deleteIgnored.                      *)

Both(a) == [src |-> a, dst |-> a]

\* The key was found on the backup only.
VerdictBackupOnly(isIgnored, o) ==
    [src |-> "ignore",
     dst |-> IF o.deleteAfter \/ (isIgnored /\ o.deleteIgnored) THEN "delete" ELSE "ignore"]

\* The key was found on the source only.
VerdictSourceOnly(src, isIgnored, names) ==
    Both(CASE isIgnored               -> "ignore"
           [] Cardinality(names) > 1  -> "hardlink"
           [] src.kind = "symlink"    -> "symlink"
           [] OTHER                   -> "new")

\* Slip: the names of linked files are not compared.
LinksDiffer_Never(srcNames, dstNames) == FALSE
LinksDiffer(srcNames, dstNames) == Cardinality(srcNames) > 1 /\ srcNames # dstNames

\* Slip: an older source is updated like a newer one.
VerdictBothSides_AnyAge(src, dst, isIgnored, srcNames, dstNames, o) ==
    CASE isIgnored -> [src |-> "ignore", dst |-> IF o.deleteIgnored THEN "delete" ELSE "ignore"]
      [] OTHER -> Both(IF src = dst /\ ~LinksDiffer(srcNames, dstNames) THEN "equal" ELSE "update")

\* The key was found on both sides.
VerdictBothSides(src, dst, isIgnored, srcNames, dstNames, o) ==
    CASE isIgnored ->
            [src |-> "ignore", dst |-> IF o.deleteIgnored THEN "delete" ELSE "ignore"]
      [] ~isIgnored /\ src.kind = "symlink" ->
            Both(IF dst.kind = "symlink" /\ src.attr = dst.attr THEN "equal" ELSE "symlink")
      [] ~isIgnored /\ src.kind # "symlink" ->
            IF src.mtime < dst.mtime /\ ~o.deleteAfter THEN Both("ignore")
            ELSE IF /\ src.kind = dst.kind /\ src.attr = dst.attr /\ src.mtime = dst.mtime
                    /\ ~LinksDiffer(srcNames, dstNames)
            THEN Both("equal")
            ELSE Both(IF Cardinality(srcNames) > 1 THEN "hardlink" ELSE "update")

\* work_transfer_action_is_transfer
Transferring == {"new", "update", "hardlink", "symlink"}
Actions == Transferring \cup {"equal", "ignore", "delete"}

-----------------------------------------------------------------------------
(* The plan of an analysis that nothing disturbed and no rule cut short.   *)

KeysOf(t) == {KeyAt(t, p) : p \in {q \in Place : Exists(t, q) /\ t[q].kind # "special"}}
AllNames(t, p) == Names(t, KeysOf(t), p)

VerdictOf(l, r, k, o) ==
    CASE k \notin KeysOf(l) -> VerdictBackupOnly(FALSE, o)
      [] k \in KeysOf(l) \ KeysOf(r) -> VerdictSourceOnly(l[k[1]], FALSE, AllNames(l, k[1]))
      [] OTHER -> VerdictBothSides(l[k[1]], r[k[1]], FALSE, AllNames(l, k[1]), AllNames(r, k[1]), o)

\* The other names that a hard link brings into the plan.
GroupOf(l, r, k, o) == IF VerdictOf(l, r, k, o).src = "hardlink" THEN AllNames(l, k[1]) ELSE {}

ToTransfer(l, r, o) == {k \in KeysOf(l) : VerdictOf(l, r, k, o).src \in Transferring}
TransfersOf(l, r, o) == ToTransfer(l, r, o) \cup UNION {GroupOf(l, r, k, o) : k \in ToTransfer(l, r, o)}
DeletionsOf(l, r, o) == IF o.deleteAfter THEN KeysOf(r) \ KeysOf(l) ELSE {}
=============================================================================
