------------------------------ MODULE MCRowStore ------------------------------
(* Two directories of two files, and two files that may be links of one inode. *)
EXTENDS RowStore

D == <<"d">>
DX == <<"d", "x">>
E == <<"e">>
EX == <<"e", "x">>
B == <<"b">>
C == <<"c">>
MCPaths == {D, DX, E, EX, B, C}
MCDirs == {D, E}
MCInodes == {1, 2, 3}
OnDisk(S, x, b, c) ==
    [p \in S |-> IF p \in MCDirs THEN 0 ELSE IF p \in {DX, EX} THEN x ELSE IF p = B THEN b ELSE c]
MCTrees == {[L |-> OnDisk({D, DX, B, C}, 1, 2, 2), R |-> OnDisk({E, EX, C}, 1, 2, 2)]}
NoUnread == [L |-> {}, R |-> {}]
MCRules == {{B}}
\* The four top directories of the backup, one of them with an unreadable directory.
DirPaths == MCPaths
DirTrees == {[L |-> [p \in {D, DX} |-> 0], R |-> [p \in {D, DX, B, C} |-> 0]]}
OneUnread == [L |-> {}, R |-> {DX}]
=============================================================================
