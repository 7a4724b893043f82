------------------------------- MODULE Analysis -------------------------------
(***************************************************************************)
(* The analysis (work_preview): two walkers list the source and the backup *)
(* - at the same time when they are on different devices - recording what  *)
(* they could not read; then two loops over the hash maps of the listings  *)
(* make the rows, the transfers and the deletions.                         *)
(*                                                                         *)
(* The order of siblings in a walk and of keys in a hash map is arbitrary. *)
(* The directories do not change while they are analysed.                  *)
(***************************************************************************)
EXTENDS Trees

CONSTANTS
    Cases   \* what may be analysed: records of a source and a backup tree, the keys
            \* the patterns match, the places whose name cecup may refuse, and the
            \* options [deleteAfter, deleteIgnored, sameFs]

Side == {"L", "R"}

ASSUME InputsAssumption ==
    \A c \in Cases : /\ IsTree(c.source) /\ NothingIsAbsent(c.source)
                     /\ IsTree(c.backup) /\ NothingIsAbsent(c.backup)
                     /\ c.ignored \subseteq Keys /\ c.badNames \subseteq Place

VARIABLES
    disk, ignored, badNames, opts,   \* what is analysed: fixed once chosen
    stop,                       \* cecup.stop_work
    walk,                       \* [Side -> "ready", "walking" or "done"]
    visited,                    \* places each walker has returned
    state,                      \* [Side -> [Keys -> "free", "present", "unknown"]]
    lost,                       \* places recorded as unknown subtrees
    rootUnknown,                \* Traversal.root_unknown
    phase, handled,             \* the loop work_preview is in, and its keys so far
    rows, transfers, deletions  \* what it has made

inputs  == <<disk, ignored, badNames, opts>>
walkers == <<walk, visited, state, lost, rootUnknown>>
results == <<rows, transfers, deletions>>
vars    == <<inputs, stop, walkers, phase, handled, results>>

Init ==
    /\ \E c \in Cases :
        /\ disk = [s \in Side |-> IF s = "L" THEN c.source ELSE c.backup]
        /\ ignored = c.ignored /\ badNames = c.badNames /\ opts = c.opts
    /\ stop = FALSE
    /\ walk = [s \in Side |-> "ready"]
    /\ visited = [s \in Side |-> {}]
    /\ state = [s \in Side |-> [k \in Keys |-> "free"]]
    /\ lost = [s \in Side |-> {}]
    /\ rootUnknown = [s \in Side |-> FALSE]
    /\ phase = "walk" /\ handled = {}
    /\ rows = {} /\ transfers = {} /\ deletions = {}

-----------------------------------------------------------------------------
(* The walkers.                                                            *)

\* The stop button (or a closed window), at any time.
StopRequested ==
    /\ ~stop /\ phase \notin {"done", "cancelled"}
    /\ stop' = TRUE
    /\ UNCHANGED <<inputs, walkers, phase, handled, results>>

\* Directories whose entries the walker returns: an ignored one is skipped.
Opened(s) ==
    {p \in visited[s] : /\ disk[s][p].kind = "dir" /\ disk[s][p].access = "ok"
                        /\ <<p, "dir">> \notin ignored}
Frontier(s) ==
    {p \in Place \ visited[s] : Exists(disk[s], p) /\ Above[p] \subseteq Opened(s)}

\* The start of work_traverse_fs. On one device the source is walked first.
OpenWalk(s) ==
    /\ walk[s] = "ready"
    /\ opts.sameFs /\ s = "R" => walk["L"] = "done"
    /\ \/ stop /\ walk' = [walk EXCEPT ![s] = "done"] /\ UNCHANGED rootUnknown
       \/ ~stop /\ walk' = [walk EXCEPT ![s] = "walking"] /\ UNCHANGED rootUnknown
       \/ /\ ~stop /\ walk' = [walk EXCEPT ![s] = "done"]
          /\ rootUnknown' = [rootUnknown EXCEPT ![s] = TRUE]
    /\ UNCHANGED <<inputs, stop, visited, state, lost, phase, handled, results>>

\* One entry. A special file is passed over; an entry that cannot be stat'ed is
\* an unknown subtree; a directory is pushed, and becomes an unknown subtree if
\* it then turns out to be unreadable (unless it is ignored, hence not read).
Visit(s, p) ==
    LET node == disk[s][p]
        key == KeyAt(disk[s], p)
        unreadable == node.kind = "dir" /\ node.access = "noread" /\ key \notin ignored
    IN  /\ walk[s] = "walking" /\ ~stop /\ p \in Frontier(s)
        /\ visited' = [visited EXCEPT ![s] = @ \cup {p}]
        /\ stop' = (p \in badNames /\ node.access # "nostat" /\ node.kind # "special")
        /\ state' = IF stop' \/ (node.kind = "special" /\ node.access # "nostat") THEN state
                    ELSE IF node.access = "nostat"
                    THEN [state EXCEPT ![s][<<p, "leaf">>] = "unknown"]
                    ELSE [state EXCEPT ![s][key] = IF unreadable THEN "unknown" ELSE "present"]
        /\ lost' = IF ~stop' /\ (node.access = "nostat" \/ unreadable)
                   THEN [lost EXCEPT ![s] = @ \cup {p}] ELSE lost
        /\ UNCHANGED <<inputs, walk, rootUnknown, phase, handled, results>>

\* The walk is over: no entry left, an error of the walker itself, or a stop.
EndWalk(s) ==
    /\ walk[s] = "walking"
    /\ walk' = [walk EXCEPT ![s] = "done"]
    /\ \/ Frontier(s) = {} /\ UNCHANGED rootUnknown
       \/ stop /\ UNCHANGED rootUnknown
       \/ rootUnknown' = [rootUnknown EXCEPT ![s] = TRUE]
    /\ UNCHANGED <<inputs, stop, visited, state, lost, phase, handled, results>>

-----------------------------------------------------------------------------
(* The verdict on a key, from the arrays of both sides.                    *)

Listed(s) == {k \in Keys : state[s][k] = "present" /\ k \notin ignored}
NamesOf(s, p) ==
    IF disk[s][p].access = "nostat" THEN {} ELSE Names(disk[s], Listed(s), p)

\* Entries recorded as unknown were never matched with a pattern.
Matched(s, k) == k \in ignored /\ disk[s][k[1]].access # "nostat"

Verdict(k) ==
    LET p == k[1]
    IN  CASE state["L"][k] = "free" -> VerdictBackupOnly(Matched("R", k), opts)
          [] state["L"][k] # "free" /\ state["R"][k] = "free" ->
                VerdictSourceOnly(disk["L"][p], Matched("L", k), NamesOf("L", p))
          [] OTHER ->
                VerdictBothSides(disk["L"][p], Stat(disk["R"], p), Matched("L", k),
                                 NamesOf("L", p), NamesOf("R", p), opts)

\* Slip: what lies below an unknown path is not looked for.
IsUnknown_ExactOnly(s, k) == rootUnknown[s] \/ state[s][k] = "unknown" \/ k[1] \in lost[s]

\* traversal_path_is_unknown
IsUnknown(s, k) ==
    rootUnknown[s] \/ state[s][k] = "unknown" \/ \E u \in lost[s] : Covers(u, k[1])

-----------------------------------------------------------------------------
(* The two loops. Each turn looks at the stop flag first.                  *)

StartPlan ==
    /\ phase = "walk" /\ walk = [s \in Side |-> "done"] /\ ~stop
    /\ phase' = "source"
    /\ UNCHANGED <<inputs, stop, walkers, handled, results>>

\* Slip: what is equal on both sides is transferred again.
PlanSource_TakesEqual(k) ==
    /\ phase = "source" /\ ~stop
    /\ state["L"][k] = "present" /\ k \notin handled
    /\ handled' = handled \cup {k}
    /\ rows' = rows \cup {k}
    /\ transfers' = IF Verdict(k).src = "ignore" THEN transfers ELSE transfers \cup {k}
    /\ UNCHANGED <<inputs, stop, walkers, phase, deletions>>
\* Slip: a hard link is planned without the other names of its file.
PlanSource_OneName(k) ==
    /\ phase = "source" /\ ~stop
    /\ state["L"][k] = "present" /\ k \notin handled
    /\ handled' = handled \cup {k}
    /\ rows' = rows \cup {k}
    /\ transfers' =
          IF Verdict(k).src \in {"equal", "ignore"} THEN transfers ELSE transfers \cup {k}
    /\ UNCHANGED <<inputs, stop, walkers, phase, deletions>>

\* A key of the source: a row, and a transfer (of all its names, for a hard
\* link) unless both sides agree or the verdict is to ignore it.
PlanSource(k) ==
    /\ phase = "source" /\ ~stop
    /\ state["L"][k] = "present" /\ k \notin handled
    /\ handled' = handled \cup {k}
    /\ rows' = rows \cup {k}
    /\ transfers' =
          IF Verdict(k).src \in {"equal", "ignore"} THEN transfers
          ELSE transfers \cup {k}
               \cup (IF Verdict(k).src = "hardlink" THEN NamesOf("L", k[1]) ELSE {})
    /\ UNCHANGED <<inputs, stop, walkers, phase, deletions>>

StartBackup ==
    /\ phase = "source" /\ ~stop
    /\ \A k \in Keys : state["L"][k] = "present" => k \in handled
    /\ phase' = "backup" /\ handled' = {}
    /\ UNCHANGED <<inputs, stop, walkers, results>>

\* Slip: the option is not asked.
PlanBackup_Always(k) ==
    LET missing == state["L"][k] = "free" /\ ~IsUnknown("L", k)
    IN  /\ phase = "backup" /\ ~stop
        /\ state["R"][k] # "free" /\ k \notin handled
        /\ handled' = handled \cup {k}
        /\ rows' = IF missing THEN rows \cup {k} ELSE rows
        /\ deletions' = IF missing /\ k \notin transfers THEN deletions \cup {k} ELSE deletions
        /\ UNCHANGED <<inputs, stop, walkers, phase, transfers>>
\* A key of the backup: if the source was seen not to have it, a row, and a
\* deletion when delete-after is on.
PlanBackup(k) ==
    LET missing == state["L"][k] = "free" /\ ~IsUnknown("L", k)
    IN  /\ phase = "backup" /\ ~stop
        /\ state["R"][k] # "free" /\ k \notin handled
        /\ handled' = handled \cup {k}
        /\ rows' = IF missing THEN rows \cup {k} ELSE rows
        /\ deletions' = IF missing /\ opts.deleteAfter /\ k \notin transfers
                        THEN deletions \cup {k} ELSE deletions
        /\ UNCHANGED <<inputs, stop, walkers, phase, transfers>>

Finish ==
    /\ phase = "backup"
    /\ \A k \in Keys : state["R"][k] # "free" => k \in handled
    /\ phase' = "done"
    /\ UNCHANGED <<inputs, stop, walkers, handled, results>>

\* Slip: a stop during the walks goes unnoticed.
Cancel_InLoopsOnly ==
    /\ stop /\ phase \in {"source", "backup"}
    /\ phase' = "cancelled" /\ handled' = {}
    /\ rows' = {} /\ transfers' = {} /\ deletions' = {}
    /\ UNCHANGED <<inputs, stop, walkers>>
\* Slip: a stopped analysis leaves what it has planned so far.
Cancel_KeepsPlan ==
    /\ stop
    /\ \/ phase = "walk" /\ walk = [s \in Side |-> "done"]
       \/ phase \in {"source", "backup"}
    /\ phase' = "cancelled" /\ handled' = {}
    /\ UNCHANGED <<inputs, stop, walkers, results>>

\* work_preview_cancel_and_reset: work_cleanup empties everything.
Cancel ==
    /\ stop
    /\ \/ phase = "walk" /\ walk = [s \in Side |-> "done"]
       \/ phase \in {"source", "backup"}
    /\ phase' = "cancelled" /\ handled' = {}
    /\ visited' = [s \in Side |-> {}] /\ lost' = [s \in Side |-> {}]
    /\ state' = [s \in Side |-> [k \in Keys |-> "free"]]
    /\ rootUnknown' = [s \in Side |-> FALSE]
    /\ rows' = {} /\ transfers' = {} /\ deletions' = {}
    /\ UNCHANGED <<inputs, stop, walk>>

Walker == \E s \in Side : OpenWalk(s) \/ EndWalk(s) \/ \E p \in Place : Visit(s, p)
Planner ==
    \/ StartPlan \/ StartBackup \/ Finish \/ Cancel
    \/ \E k \in Keys : PlanSource(k) \/ PlanBackup(k)

Next == StopRequested \/ Walker \/ Planner

Spec == Init /\ [][Next]_vars /\ WF_vars(Walker \/ Planner)

-----------------------------------------------------------------------------
TypeOK ==
    /\ stop \in BOOLEAN
    /\ walk \in [Side -> {"ready", "walking", "done"}]
    /\ visited \in [Side -> SUBSET Place] /\ lost \in [Side -> SUBSET Place]
    /\ state \in [Side -> [Keys -> {"free", "present", "unknown"}]]
    /\ rootUnknown \in [Side -> BOOLEAN]
    /\ phase \in {"walk", "source", "backup", "done", "cancelled"}
    /\ handled \subseteq Keys /\ rows \subseteq Keys
    /\ transfers \subseteq Keys /\ deletions \subseteq Keys

\* The paths of a side cecup can back up: special files are not among them.
Held(s) ==
    {KeyAt(disk[s], p) : p \in {q \in Place : Exists(disk[s], q) /\ disk[s][q].kind # "special"}}

\* A path is planned for deletion only if the source really does not have it,
\* whatever the walker of the source could not read: no error, unreadable
\* directory or refused stat on the source costs a file of the backup.
DeletionsJustified == deletions \cap Held("L") = {}

\* The names of a hard-linked source file are transferred together or not at
\* all: the backend can only link names it is given in one run.
GroupsWhole ==
    phase = "done" =>
        \A k \in transfers : Verdict(k).src = "hardlink" => NamesOf("L", k[1]) \subseteq transfers

\* Rows and plan agree: "Apply Changes" transfers the paths whose rows say so,
\* and the other names of their files.
ShownTransfers ==
    phase = "done" =>
        \A k \in rows :
            k \in transfers <=>
                \E r \in rows :
                    /\ Verdict(r).src \in Transferring
                    /\ \/ k = r
                       \/ Verdict(r).src = "hardlink" /\ k \in NamesOf("L", r[1])
\* ... and deletes the paths whose rows say so.
ShownDeletions ==
    phase = "done" => \A k \in rows : k \in deletions <=> Verdict(k).dst = "delete"

\* What the rows show is what the full synchronisation will do, in both directions.
ShownIsPlanned == ShownTransfers /\ ShownDeletions

\* In whatever order the walkers and the loops come to them, an analysis that was
\* refused nothing plans exactly the transfers and deletions that the trees call
\* for: ManualSync starts from these.
PlanComplete ==
    /\ phase = "done" /\ ignored = {}
    /\ \A s \in Side : ~rootUnknown[s] /\ lost[s] = {}
    => /\ transfers = TransfersOf(disk["L"], disk["R"], opts)
       /\ deletions = DeletionsOf(disk["L"], disk["R"], opts)

\* A place of the side was within the walker's sight.
Known(s, p) == ~rootUnknown[s] /\ \A u \in lost[s] : ~Covers(u, p)

NewerOnBackup(p) ==
    /\ disk["L"][p].kind = "file" /\ disk["R"][p].kind = "file"
    /\ disk["L"][p].mtime < disk["R"][p].mtime

\* Without delete-after no backup file newer than its source is planned to be
\* written, as far as the walker of the backup could see, unless another name of
\* the source file needs to be.
NewerKept ==
    ~opts.deleteAfter =>
        \A k \in transfers :
            Known("R", k[1]) /\ Cardinality(NamesOf("L", k[1])) <= 1 => ~NewerOnBackup(k[1])

\* What a place of the backup holds once the plan has been carried out.
Outcome(p) ==
    IF KeyAt(disk["L"], p) \in transfers THEN disk["L"][p]
    ELSE IF \E k \in deletions : k[1] = p \/ (k[2] = "dir" /\ k[1] \in Above[p]) THEN Absent
    ELSE disk["R"][p]
Skipped(p) ==
    \E a \in Above[p] \cup {p}, s \in Side : Exists(disk[s], a) /\ KeyAt(disk[s], a) \in ignored

Unsupported(p) == \E s \in Side : disk[s][p].kind = "special"

\* With delete-after the plan makes the backup a mirror of the source, hard
\* links included, wherever both sides could be read and nothing is ignored.
PlanMakesMirror ==
    phase = "done" /\ opts.deleteAfter =>
        \A p \in Place :
            Known("L", p) /\ Known("R", p) /\ ~Skipped(p) /\ ~Unsupported(p) =>
                /\ Outcome(p).kind = disk["L"][p].kind
                /\ Outcome(p).attr = disk["L"][p].attr
                /\ Outcome(p).kind # "symlink" => Outcome(p).mtime = disk["L"][p].mtime
                /\ KeyAt(disk["L"], p) \notin transfers /\ Cardinality(NamesOf("L", p)) > 1
                     => NamesOf("L", p) = NamesOf("R", p)

\* The analysis implements Preview: one plan, of paths as the disks hold them. An
\* entry without a stat is named as a leaf, whatever it is.
Unstated(s) == {<<p, "leaf">> : p \in {q \in Place : Exists(disk[s], q) /\ disk[s][q].access = "nostat"}}
Over == phase \in {"done", "cancelled"}
Promise == INSTANCE Preview WITH
    source <- Held("L"), backup <- Held("R") \cup Unstated("R"),
    verdict <- IF phase = "done" THEN "plan" ELSE IF phase = "cancelled" THEN "nothing" ELSE "none",
    transfers <- IF Over THEN transfers ELSE {}, deletions <- IF Over THEN deletions ELSE {}
ImplementsPreview == Promise!PSpec

\* The analysis always comes to its end.
AnalysisEnds == <>(phase \in {"done", "cancelled"})
=============================================================================
