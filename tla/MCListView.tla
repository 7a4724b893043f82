----------------------------- MODULE MCListView -----------------------------
(* A directory with a file and a file beside it, what of them an analysis  *)
(* finds; the name it does not find is free for a rename.                  *)
EXTENDS ListView

D == <<"d">>
DX == <<"d", "x">>
B == <<"b">>
MCPaths == {D, DX, B}
MCRank == [p \in MCPaths |-> CASE p = B -> 1 [] p = D -> 2 [] p = DX -> 3]
MCFound == {[path |-> D, kind |-> "new"], [path |-> DX, kind |-> "new"],
            [path |-> B, kind |-> "extra"]}

\* Nothing typed, and "x".
MCQueries == {MCPaths, {DX}}
=============================================================================
