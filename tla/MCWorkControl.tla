---------------------------- MODULE MCWorkControl ----------------------------
(* Instances of WorkControl for TLC: which operations the user performs.   *)
EXTENDS WorkControl

\* Everything the interface offers.
EveryMove == AllMoves

\* Without the four operations that let a plan go stale unnoticed.
GateMoves == AllMoves \ {"delete_after_off", "reset", "ignore_row", "rename"}

\* Without the operations after which rows and directories part company.
RowMoves ==
    AllMoves \ {"reset", "ignore_row", "rename", "enter_dirs", "type_dirs", "browse"}
=============================================================================
