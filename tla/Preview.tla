------------------------------- MODULE Preview -------------------------------
(***************************************************************************)
(* What an analysis promises: a plan appears in one piece or not at all;   *)
(* it transfers paths the source has and deletes paths only the backup     *)
(* has. The directories stay as they are.                                  *)
(***************************************************************************)
VARIABLES
    source, backup,                  \* the paths each directory really holds
    verdict, transfers, deletions

pvars == <<source, backup, verdict, transfers, deletions>>

PInit == verdict = "none" /\ transfers = {} /\ deletions = {}

Deliver ==
    /\ verdict = "none" /\ verdict' = "plan"
    /\ transfers' \subseteq source
    /\ deletions' \subseteq backup \ source
    /\ UNCHANGED <<source, backup>>

GiveUp ==
    /\ verdict = "none" /\ verdict' = "nothing"
    /\ UNCHANGED <<source, backup, transfers, deletions>>

PNext == Deliver \/ GiveUp
PSpec == PInit /\ [][PNext]_pvars
=============================================================================
