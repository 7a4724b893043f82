----------------------------- MODULE WorkSession -----------------------------
(***************************************************************************)
(* What the control core promises, without threads, flags or messages: at  *)
(* most one piece of work at a time; the list of pending operations is     *)
(* applied only while it is the valid result of an analysis, and at most   *)
(* once; an analysis always ends.                                          *)
(***************************************************************************)

VARIABLES
    open,   \* the window exists
    work,   \* "none", "preview", "sync" or "tasks"
    list    \* "none", "checking", "valid" or "outdated"

svars == <<open, work, list>>

SInit == open = TRUE /\ work = "none" /\ list = "none"

\* An analysis forgets the previous list.
BeginAnalysis == open /\ work = "none" /\ work' = "preview" /\ list' = "checking" /\ UNCHANGED open

\* It leaves a valid list, or none when it was stopped or failed.
EndAnalysis == work = "preview" /\ work' = "none"
               /\ list' \in (IF open THEN {"valid", "none"} ELSE {"none"})
               /\ UNCHANGED open

\* Applying the whole list: only a list that still holds (or no list at all).
BeginSync == open /\ work = "none" /\ list \in {"valid", "none"} /\ work' = "sync"
             /\ UNCHANGED <<open, list>>

\* Applying chosen rows is possible at any time.
BeginTasks == open /\ work = "none" /\ work' = "tasks" /\ UNCHANGED <<open, list>>

\* A change of settings or files outdates a valid list.
Outdate == list = "valid" /\ list' = "outdated" /\ UNCHANGED <<open, work>>

\* No transfer leaves behind a list that could be applied again.
EndTransfer == work \in {"sync", "tasks"} /\ list # "valid" /\ work' = "none"
               /\ UNCHANGED <<open, list>>

Close == open /\ open' = FALSE /\ list' = "none" /\ UNCHANGED work

SNext ==
    \/ BeginAnalysis \/ EndAnalysis \/ BeginSync \/ BeginTasks
    \/ Outdate \/ EndTransfer \/ Close

SSpec == SInit /\ [][SNext]_svars /\ WF_svars(EndAnalysis)
=============================================================================
