------------------------------- MODULE RowStore -------------------------------
(***************************************************************************)
(* The rows of the preview and the two listings behind them (Traversal,    *)
(* cecup.rows), and what keeps them up to date after the analysis: the     *)
(* batches of row messages that a work thread and a rename post, handled   *)
(* one message at a time by the main loop (update_rows).                   *)
(*                                                                         *)
(* A path is a sequence of names; one path is a directory on both sides or *)
(* on none, and the row of the root is left out. Sizes, times and verdicts *)
(* are not modelled: any row with a source may be one to transfer; nor are *)
(* symlinks, which are removed before they are copied, and other kinds.    *)
(***************************************************************************)
EXTENDS Naturals, Sequences, FiniteSets, FiniteSetsExt

CONSTANTS
    Paths, Dirs,                \* the paths, and those that are directories
    Inodes,                     \* identities of files; directories have 0
    Trees,                      \* the two directories at the analysis: [L, R]
    Unread,                     \* [L, R]: directories that could not be read
    Backends,                   \* subset of {"rsync", "manual"}
    Rules,                      \* what ignore patterns match: sets of paths
    Moves,                      \* subset of {"rename", "apply", "sync", "delete", "ignore"}
    MaxMoves, MaxSelected,      \* bounds: renames, tasks and rules of a user; selected rows
    MaxFaults                   \* bound: removals, copies and walks that fail

Side == {"L", "R"}
Other(s) == IF s = "L" THEN "R" ELSE "L"

\* c lies below the directory p; the place of c after p was renamed to q.
In(c, p) == Len(p) < Len(c) /\ SubSeq(c, 1, Len(p)) = p
Moved(c, p, q) == q \o SubSeq(c, Len(p) + 1, Len(c))

ASSUME RowAssumption ==
    /\ Paths \subseteq Seq(STRING) /\ Dirs \subseteq Paths /\ IsFiniteSet(Paths)
    /\ 0 \notin Inodes /\ MaxMoves \in Nat /\ MaxSelected \in Nat /\ MaxFaults \in Nat /\ Rules \subseteq SUBSET Paths
    /\ \A p \in Paths : p # <<>> /\ \A n \in 1..(Len(p) - 1) : SubSeq(p, 1, n) \in Dirs
    /\ \A t \in Trees : t = [s \in Side |-> [p \in DOMAIN t[s] |-> t[s][p]]]
    /\ \A t \in Trees, s \in Side :
          /\ DOMAIN t[s] \subseteq Paths
          /\ \A p \in DOMAIN t[s] : \A n \in 1..Len(p) : SubSeq(p, 1, n) \in DOMAIN t[s]
          /\ \A p \in DOMAIN t[s] : IF p \in Dirs THEN t[s][p] = 0 ELSE t[s][p] \in Inodes
    /\ \A s \in Side : Unread[s] \subseteq Dirs

VARIABLES
    disk,                       \* disk[s][p]: the inode of p, for the paths there are
    list,                       \* list[s]: the arrays of a Traversal, by index
    map,                        \* Traversal.map: map[s][p] is an index, 0 if there is none
    inode_map,                  \* Traversal.inode_map: HardLinks of every inode
    rows,                       \* cecup.rows, cecup.rows_selected
    queue, handling,            \* posted messages; whether a batch is half handled
    work, side, todo, again,    \* the work thread: phase, side of its tasks, tasks left
    links, done, batch,         \* ManualHardLinks; copied, not reported; the open batch
    backend, rules, loaded,     \* the pattern file; how many of its patterns are loaded
    moves, faults,
    lost, untold                \* history: a copy made, an entry renamed was never reported

tables == <<list, map, inode_map, rows>>
thread == <<work, side, todo, again, links, done, batch, lost>>
vars == <<disk, tables, queue, handling, thread, backend, rules, loaded, moves, faults, untold>>

-----------------------------------------------------------------------------
(* What an analysis leaves behind.                                         *)

Enumeration(S) ==
    CHOOSE f \in [1..Cardinality(S) -> S] : \A i, j \in DOMAIN f : f[i] = f[j] => i = j

Exists(s, p) == p \in DOMAIN disk[s]
Linked(s, p) == p \notin Dirs /\ \E q \in DOMAIN disk[s] : q # p /\ disk[s][q] = disk[s][p]

\* Entries whose state is not PRESENT are in the map, and on the source without a row.
Listed(s) == {p \in DOMAIN disk[s] : \A u \in Unread[s] : ~In(p, u)}
Known(s) == Listed(s) \ Unread[s]
IsUnknown(p) == p \in Unread["L"] \/ \E u \in Unread["L"] : In(p, u)
RowPaths == Known("L") \cup {p \in Listed("R") : p \notin Listed("L") /\ ~IsUnknown(p)}

IndexOf(f, p) == IF \E i \in DOMAIN f : f[i] = p THEN CHOOSE i \in DOMAIN f : f[i] = p ELSE 0

NoLinks == [names |-> <<>>, hash |-> {}]    \* the aggregate hash, as the set of its terms

Entry(s, p, row) ==
    [path |-> p, ino |-> disk[s][p], linked |-> Linked(s, p), ignored |-> FALSE, row |-> row]

Init ==
    \E t \in Trees :
        /\ disk = t
        /\ LET at == [s \in Side |-> Enumeration(Listed(s))]
               row == Enumeration(RowPaths)
               has(s, p) == IF s = "L" THEN p \in Known("L") ELSE p \in Listed("R")
               idx(s, p) == IF has(s, p) THEN IndexOf(at[s], p) ELSE 0
               members(s, i) == {p \in Listed(s) : Linked(s, p) /\ disk[s][p] = i}
           IN  /\ list = [s \in Side |-> [i \in DOMAIN at[s] |->
                              Entry(s, at[s][i], IF has(s, at[s][i]) THEN IndexOf(row, at[s][i]) ELSE 0)]]
               /\ map = [s \in Side |-> [p \in Paths |-> IndexOf(at[s], p)]]
               /\ inode_map = [s \in Side |-> [i \in Inodes |->
                      [names |-> Enumeration(members(s, i)), hash |-> members(s, i)]]]
               /\ rows = [r \in DOMAIN row |->
                      [L |-> idx("L", row[r]), R |-> idx("R", row[r]), selected |-> FALSE]]
        /\ queue = <<>> /\ handling = FALSE
        /\ work = "idle" /\ side = "L" /\ todo = {} /\ again = {}
        /\ links = {} /\ done = {} /\ batch = <<>> /\ lost = FALSE /\ untold = FALSE /\ faults = 0
        /\ backend \in Backends /\ rules = <<>> /\ loaded = 0 /\ moves = 0

PathOf(r) == IF rows[r].L # 0 THEN list["L"][rows[r].L].path ELSE list["R"][rows[r].R].path
ShownOn(s) == {r \in DOMAIN rows : rows[r][s] # 0}

-----------------------------------------------------------------------------
(* The tables of hard links. A name put in twice cancels itself in the hash. *)

Toggle(S, p) == IF p \in S THEN S \ {p} ELSE S \cup {p}

\* traversal_add_link
WithLink(g, p) == [names |-> Append(g.names, p), hash |-> Toggle(g.hash, p)]

\* traversal_unlink: the first such name, if there is one
WithoutLink(g, p) ==
    IF \E k \in DOMAIN g.names : g.names[k] = p
    THEN LET k == CHOOSE j \in DOMAIN g.names :
                     g.names[j] = p /\ \A i \in 1..(j - 1) : g.names[i] # p
         IN  [names |-> [j \in 1..(Len(g.names) - 1) |-> g.names[IF j < k THEN j ELSE j + 1]],
              hash |-> Toggle(g.hash, p)]
    ELSE g

WithoutLinks(g, S) == FoldSet(LAMBDA p, h : WithoutLink(h, p), g, S)

\* hard_link_replace_node: the hash changes whether or not the name is there
Renamed(g, p, q) ==
    LET at == {k \in DOMAIN g.names : g.names[k] = p}
    IN  [names |-> [k \in DOMAIN g.names |->
                       IF k \in at /\ \A j \in at : k <= j THEN q ELSE g.names[k]],
         hash |-> Toggle(Toggle(g.hash, p), q)]

\* A directory is in no group.
Group(s, i, g) == IF i \in Inodes THEN [inode_map EXCEPT ![s][i] = g] ELSE inode_map
\* Slip: a removed name stays in its group.
KeptLinked(s, e) == inode_map
Unlinked(s, e) ==
    IF e.ino \in Inodes THEN Group(s, e.ino, WithoutLink(inode_map[s][e.ino], e.path)) ELSE inode_map

-----------------------------------------------------------------------------
(* Row messages                                                            *)

\* Row r is taken out: the rows behind it move up, and the entries they show follow.
\* Slip: the selection stays where it was.
ShiftedUnselected(rws, r) ==
    [j \in 1..(Len(rws) - 1) |->
        IF j < r THEN rws[j] ELSE [rws[j + 1] EXCEPT !.selected = rws[j].selected]]
Shifted(rws, r) == [j \in 1..(Len(rws) - 1) |-> IF j < r THEN rws[j] ELSE rws[j + 1]]
\* Slip: the entries keep their old rows.
NotFollowing(lst, s, rws, r) == lst
Following(lst, s, rws, r) ==
    [i \in DOMAIN lst |->
        LET at == {j \in r..Len(rws) : rws[j][s] = i}
        IN  IF at = {} THEN lst[i] ELSE [lst[i] EXCEPT !.row = CHOOSE j \in at : \A k \in at : k <= j]]
DropRow(lists, rws, r) ==
    /\ rows' = Shifted(rws, r)
    /\ list' = [s \in Side |-> Following(lists[s], s, Shifted(rws, r), r)]

RemoveRow(s, p) ==              \* update_row_remove
    LET i == map[s][p]
        r == list[s][i].row
        lists == [list EXCEPT ![s][i].row = 0]
    IN  IF i = 0 \/ (i # 0 /\ r = 0) THEN UNCHANGED tables
        ELSE /\ inode_map' = Unlinked(s, list[s][i])
             /\ map' = [map EXCEPT ![s][p] = 0]
             /\ IF rows[r][Other(s)] = 0 THEN DropRow(lists, rows, r)
                ELSE list' = lists /\ rows' = [rows EXCEPT ![r][s] = 0]

TransferRow(p) ==               \* update_row_transfer; the file is looked at only now
    LET i == map["L"][p]
        from == list["L"][i]
        r == from.row
        old == rows[r].R
        stat == Entry("R", p, r)
        grown(t) == IF from.linked /\ stat.ino \in Inodes
                    THEN [t EXCEPT !["R"][stat.ino] = WithLink(t["R"][stat.ino], p)] ELSE t
    IN  IF i = 0 \/ (i # 0 /\ r = 0) \/ ~Exists("R", p) THEN UNCHANGED tables
        ELSE IF old # 0
                THEN /\ inode_map' = grown(IF list["R"][old].linked THEN Unlinked("R", list["R"][old]) ELSE inode_map)
                     /\ list' = [list EXCEPT !["R"][old] =
                            [stat EXCEPT !.ignored = list["R"][old].ignored]]
                     /\ UNCHANGED <<map, rows>>
                ELSE IF map["R"][p] # 0
                THEN /\ rows' = [rows EXCEPT ![r].R = map["R"][p]]
                     /\ list' = [list EXCEPT !["R"][map["R"][p]].row = r]
                     /\ UNCHANGED <<map, inode_map>>
                ELSE /\ inode_map' = grown(inode_map)
                     /\ list' = [list EXCEPT !["R"] = Append(@, [stat EXCEPT !.ignored = from.ignored])]
                     /\ map' = [map EXCEPT !["R"][p] = Len(list["R"]) + 1]
                     /\ rows' = [rows EXCEPT ![r].R = Len(list["R"]) + 1]

\* The row that will show q on both sides after s shows it, if there is one.
Partner(s, q) == IF map[Other(s)][q] = 0 THEN 0 ELSE list[Other(s)][map[Other(s)][q]].row

Matched(p) == \E k \in 1..loaded : p \in rules[k]

RenameRow(s, p, q) ==           \* update_row_rename; the assertion is MergesIntoEmpty
    LET i == map[s][p]
        e == list[s][i]
        r == e.row
        o == rows[r][Other(s)]
        new == Len(list[s]) + 1
        m == Partner(s, q)
        to(row) == [list EXCEPT ![s] = Append([@ EXCEPT ![i].row = 0],
                        [e EXCEPT !.path = q, !.ignored = Matched(q), !.row = row])]
    IN  IF i = 0 \/ (i # 0 /\ r = 0) THEN UNCHANGED tables
        ELSE /\ map' = [map EXCEPT ![s][p] = 0, ![s][q] = IF map[s][q] = 0 THEN new ELSE map[s][q]]
             /\ inode_map' = IF e.linked /\ inode_map[s][e.ino].names # <<>>
                             THEN Group(s, e.ino, Renamed(inode_map[s][e.ino], p, q)) ELSE inode_map
             /\ IF m # 0 /\ o # 0
                THEN rows' = [rows EXCEPT ![m][s] = new, ![r][s] = 0] /\ list' = to(m)
                ELSE IF m # 0
                THEN DropRow(to(m), [rows EXCEPT ![m][s] = new], r)
                ELSE IF o # 0
                THEN /\ rows' = Append([rows EXCEPT ![r][s] = new, ![r][Other(s)] = 0],
                                       [rows[r] EXCEPT ![s] = 0, !.selected = FALSE])
                     /\ list' = [to(r) EXCEPT ![Other(s)][o].row = Len(rows) + 1]
                ELSE rows' = [rows EXCEPT ![r][s] = new] /\ list' = to(r)

IgnoreRows ==                   \* update_row_ignore: only the last pattern of the file
    LET hit == {r \in DOMAIN rows : PathOf(r) \in rules[Len(rules)]}
        names(s, i) == {list[s][rows[r][s]].path : r \in {x \in hit : rows[x][s] # 0
                           /\ list[s][rows[x][s]].linked /\ list[s][rows[x][s]].ino = i}}
    IN  /\ loaded' = Len(rules)
        /\ list' = [s \in Side |-> [i \in DOMAIN list[s] |->
               IF list[s][i].row \in hit THEN [list[s][i] EXCEPT !.ignored = TRUE] ELSE list[s][i]]]
        /\ inode_map' = [s \in Side |-> [i \in Inodes |-> 
               WithoutLinks(inode_map[s][i], names(s, i))]]
        /\ UNCHANGED <<map, rows>>

-----------------------------------------------------------------------------
(* The main loop: one message after another, in the order they were posted. *)

\* more: the next message is of the same batch, handled in the same callback.
Message(type, s, p, q, more) == [type |-> type, side |-> s, path |-> p, to |-> q, more |-> more]
Of(type, s, p) == Message(type, s, p, p, FALSE)

Handle ==                       \* update_ui_handler, update_rows
    /\ queue # <<>>
    /\ LET m == Head(queue)
       IN  /\ queue' = Tail(queue) /\ handling' = m.more
           /\ CASE m.type = "remove"   -> RemoveRow(m.side, m.path) /\ UNCHANGED <<loaded, work>>
                [] m.type = "transfer" -> TransferRow(m.path) /\ UNCHANGED <<loaded, work>>
                [] m.type = "rename"   -> RenameRow(m.side, m.path, m.to) /\ UNCHANGED <<loaded, work>>
                [] m.type = "ignore"   -> IgnoreRows /\ UNCHANGED work
                [] m.type = "finished" -> work' = "idle" /\ UNCHANGED <<tables, loaded>>
    /\ UNCHANGED <<disk, side, todo, again, links, done, batch, backend, rules, moves, lost, faults, untold>>

\* work_batch_push, work_batch_flush: a batch holds messages of one type and side; it
\* is posted when the next is of another type, at the end, or at any time before.
\* Slip: the open batch takes messages of another type.
PushMixed(bq, ms) ==
    <<IF bq[1] = <<>> THEN ms
      ELSE bq[1] \o [k \in DOMAIN ms |-> [ms[k] EXCEPT !.type = Head(bq[1]).type]], bq[2]>>
Push(bq, ms) ==                 \* what becomes of <<batch, queue>>; ms are of one type
    LET b == bq[1]
    IN  IF b = <<>> THEN <<ms, bq[2]>>
        ELSE IF Head(b).type = Head(ms).type
        THEN <<b \o [k \in DOMAIN ms |-> [ms[k] EXCEPT !.side = Head(b).side]], bq[2]>>
        ELSE <<ms, bq[2] \o b>>
Post(bq) == batch' = bq[1] /\ queue' = bq[2]
Open == <<batch, queue>>

FlushBatch ==
    /\ batch # <<>> /\ queue' = queue \o batch /\ batch' = <<>>
    /\ UNCHANGED <<disk, tables, handling, work, side, todo, again, links, done, backend, rules, loaded, moves, lost, faults, untold>>

-----------------------------------------------------------------------------
(* The user, while no work is active                                       *)

UserMay(kind) == kind \in Moves /\ moves < MaxMoves /\ work = "idle" /\ ~handling
Moved1 == moves' = moves + 1

\* Something fails that the program goes on after.
Fault == faults < MaxFaults /\ faults' = faults + 1

\* on_cell_toggled: a directory takes what is below it along, and does not stay
\* selected without it.
Selected == {r \in DOMAIN rows : rows[r].selected}
Select(r) ==
    /\ UserMay("select")
    /\ rows' = [x \in DOMAIN rows |->
          IF x = r \/ (PathOf(r) \in Dirs /\ In(PathOf(x), PathOf(r)))
          THEN [rows[x] EXCEPT !.selected = ~rows[r].selected]
          ELSE IF rows[r].selected /\ In(PathOf(r), PathOf(x))
          THEN [rows[x] EXCEPT !.selected = FALSE] ELSE rows[x]]
    /\ Cardinality({x \in DOMAIN rows : rows'[x].selected /\ \A y \in DOMAIN rows :
                       ~(rows'[y].selected /\ In(PathOf(x), PathOf(y)))}) <= MaxSelected
    /\ UNCHANGED <<disk, list, map, inode_map, queue, handling, thread, backend, rules, loaded, moves, faults, untold>>

Parent(p) == SubSeq(p, 1, Len(p) - 1)

Renamings(s, p, q, walk) ==
    Append([k \in DOMAIN walk |-> Message("rename", s, walk[k], Moved(walk[k], p, q), TRUE)],
           Message("rename", s, p, q, FALSE))

\* on_path_edited: the file is renamed at once, unless the new name is taken; what
\* the walk finds below the new name is reported first. If the walk cannot be opened
\* nothing is reported, and an entry that it cannot read is not.
Rename(s, r, q) ==
    /\ UserMay("rename") /\ r \in ShownOn(s)
    /\ LET p == list[s][rows[r][s]].path
           below == {c \in DOMAIN disk[s] : In(c, p)}
           readable == {c \in below : c \notin Unread[s]}
       IN  /\ q # p /\ (q \in Dirs <=> p \in Dirs) /\ ~In(q, p)
           /\ Exists(s, p) /\ ~Exists(s, q)
           /\ Len(q) > 1 => Exists(s, Parent(q)) /\ Parent(q) \in Dirs
           /\ \A c \in below : Moved(c, p, q) \in Paths /\ (Moved(c, p, q) \in Dirs <=> c \in Dirs)
           /\ disk' = [disk EXCEPT ![s] =
                 [x \in ((DOMAIN disk[s] \ ({p} \cup below)) \cup {q} \cup {Moved(c, p, q) : c \in below}) |->
                     IF x = q THEN disk[s][p]
                     ELSE IF In(x, q) THEN disk[s][Moved(x, q, p)] ELSE disk[s][x]]]
           /\ \/ queue' = queue \o Renamings(s, p, q, Enumeration(readable)) /\ UNCHANGED <<faults, untold>>
              \/ p \in Dirs /\ Fault /\ UNCHANGED queue /\ untold' = TRUE
              \/ \E S \in SUBSET readable :
                    /\ S # readable /\ Fault /\ untold' = TRUE
                    /\ queue' = queue \o Renamings(s, p, q, Enumeration(S))
    /\ Moved1 /\ UNCHANGED <<tables, handling, thread, backend, rules, loaded>>

\* on_menu_ignore_action: the pattern is in the file at once, in the rows later.
Ignore(rule) ==
    /\ UserMay("ignore") /\ rule \in Rules
    /\ rules' = Append(rules, rule) /\ queue' = Append(queue, Of("ignore", "L", <<>>))
    /\ Moved1 /\ UNCHANGED <<disk, tables, handling, thread, backend, loaded, faults, untold>>

\* The work thread is given its tasks: paths to copy and paths to remove on one side.
Start(s, copy, delete) ==
    /\ copy # {} \/ delete # {}
    /\ work' = "delete" /\ side' = s
    /\ todo' = {Of("copy", s, p) : p \in copy} \cup {Of("delete", s, p) : p \in delete}
    /\ again' = {p \in copy : backend = "manual" /\ \E i \in Inodes : \E k, l \in DOMAIN inode_map[s][i].names :
                               k # l /\ inode_map[s][i].names[k] = p}
    /\ links' = {} /\ done' = {} /\ lost' = lost /\ Moved1
    /\ UNCHANGED <<disk, tables, queue, handling, batch, backend, rules, loaded, faults, untold>>

PathsOf(R) == {PathOf(r) : r \in R}

\* The names of the hard-link groups that paths of S belong to on side s.
WithGroups(s, S) ==
    S \cup UNION {{inode_map[s][i].names[k] : k \in DOMAIN inode_map[s][i].names} :
                  i \in {list[s][map[s][p]].ino : p \in {x \in S : map[s][x] # 0}} \cap Inodes}

\* on_sync_response, while the preview is the one of the analysis: what is on the
\* backup only is removed, what is on the source only is copied; verdicts decide the rest.
\* It does not look at the selection; bound: there is none.
StartSync(R) ==
    /\ UserMay("sync") /\ moves = 0 /\ Selected = {} /\ R \subseteq ShownOn("L") \cap ShownOn("R")
    /\ Start("R", WithGroups("L", PathsOf(R \cup (ShownOn("L") \ ShownOn("R")))),
                  PathsOf(ShownOn("R") \ ShownOn("L")))

\* on_menu_apply, get_target_tasks: the selected rows that have an action
StartApply(s, R) ==
    /\ UserMay("apply") /\ R \subseteq Selected \cap ShownOn(s)
    /\ \A r \in Selected \cap ShownOn(s) : rows[r][Other(s)] = 0 => r \in R
    /\ Start(s, WithGroups(s, PathsOf(R \cap ShownOn("L"))), PathsOf(R \ ShownOn("L")))

\* on_menu_delete
StartDelete(s) ==
    /\ UserMay("delete") /\ Start(s, {}, PathsOf(Selected \cap ShownOn(s)))

-----------------------------------------------------------------------------
(* The work thread (work_transfer)                                         *)

Tasks(type) == {t \in todo : t.type = type}
Without(s, S) == [disk EXCEPT ![s] = [p \in DOMAIN disk[s] \ S |-> disk[s][p]]]
Tree(s, p) == {c \in DOMAIN disk[s] : c = p \/ In(c, p)}
Removals(s, p, gone) ==
    LET below == Enumeration(gone \ {p})
        removed == [k \in DOMAIN below |-> Of("remove", s, below[k])]
    IN  IF p \in gone THEN Append(removed, Of("remove", s, p)) ELSE removed

\* work_remove: a directory is emptied first; what is in use, may not be removed or
\* comes after a stop stays, with the directories above it. What goes is reported.
DeletePath(t) ==
    /\ work = "delete" /\ t \in Tasks("delete") /\ todo' = todo \ {t}
    /\ \E gone \in SUBSET Tree(side, t.path) :
          /\ \A c \in gone, d \in Tree(side, t.path) : In(d, c) => d \in gone
          /\ disk' = Without(side, gone)
          /\ IF gone = Tree(side, t.path) THEN UNCHANGED faults ELSE Fault
          /\ IF gone = {} THEN UNCHANGED <<batch, queue>>
             ELSE Post(Push(Open, Removals(side, t.path, gone)))
    /\ UNCHANGED <<tables, handling, work, side, again, links, done, backend, rules, loaded, moves, lost, untold>>

StartCopies ==
    /\ work = "delete" /\ Tasks("delete") = {} /\ work' = "copy"
    /\ UNCHANGED <<disk, tables, queue, handling, side, todo, again, links, done, batch, backend, rules, loaded, moves, lost, faults, untold>>

Unused == {i \in Inodes : \A p \in DOMAIN disk["R"] : disk["R"][p] # i}
With(p, i) ==
    [disk EXCEPT !["R"] = [x \in (DOMAIN disk["R"] \cup {p} \cup {d \in Dirs : In(p, d)}) |->
        IF x = p THEN i ELSE IF x \in DOMAIN disk["R"] THEN disk["R"][x] ELSE 0]]

\* The names under which the inode of p was copied before; what p is linked to then.
Copied(p) == {l.path : l \in {x \in links : Linked("L", p) /\ x.ino = disk["L"][p]}}
Linkable(p) == {disk["R"][x] : x \in {y \in Copied(p) : Exists("R", y)}}

\* The inode a copy is written to, and the one that p is to have in the end.
Opened(p, gone) == IF Exists("R", p) /\ ~gone THEN {disk["R"][p]} ELSE Unused
Targets(p) ==
    IF p \in Dirs THEN {0}
    ELSE IF Copied(p) # {} THEN Linkable(p)
    ELSE Opened(p, FALSE) \cup (IF backend = "rsync" THEN Unused ELSE {})

\* The manual copier removes what a link is to replace: gone.
Replaces(p) == backend = "manual" /\ Copied(p) # {} /\ Exists("R", p)
Cleared(p, gone) == IF gone THEN Push(Open, <<Of("remove", "R", p)>>) ELSE Open

\* Rsync goes through its list in an order of its own, which only a failure shows.
InTurn(p, S) == backend = "rsync" => p \in S /\ p = CHOOSE x \in S : TRUE

\* One file of the first run of rsync, or work_manual_copy_path: directories above
\* are made unreported; what is removed for it is reported first.
\* The manual copier makes a copy of its own where a link fails.
Copy(p, gone) ==
    /\ \/ gone = Replaces(p) /\ (\E i \in Targets(p) : disk' = With(p, i)) /\ UNCHANGED faults
       \/ /\ backend = "manual" /\ Copied(p) # {} /\ Fault
          /\ \E i \in Opened(p, gone) : disk' = With(p, i)
    /\ links' = IF Linked("L", p) /\ Copied(p) = {}
                THEN links \cup {[ino |-> disk["L"][p], path |-> p]} ELSE links
    /\ IF backend = "rsync" THEN done' = done \cup {p} /\ UNCHANGED <<batch, queue>>
       ELSE Post(Push(Cleared(p, gone), <<Of("transfer", "R", p)>>)) /\ UNCHANGED done
    /\ UNCHANGED lost

\* The manual copy fails: before it began, with some directories made, or in the midst
\* of the file, which is there unreported. The work goes on with the next path.
FailCopy(p, gone) ==
    /\ backend = "manual" /\ Fault
    /\ \/ disk' = (IF gone THEN Without("R", {p}) ELSE disk) /\ UNCHANGED lost
       \/ ~gone /\ (\E d \in Dirs : In(p, d) /\ disk' = With(d, 0)) /\ UNCHANGED lost
       \/ /\ p \notin Dirs /\ \E i \in Opened(p, gone) : disk' = With(p, i)
          /\ lost' = (lost \/ gone \/ ~Exists("R", p))
    /\ Post(Cleared(p, gone)) /\ UNCHANGED <<links, done>>

CopyPath(p) ==
    /\ work = "copy" /\ InTurn(p, {t.path : t \in todo})
    /\ \/ Of("copy", side, p) \in todo /\ todo' = todo \ {Of("copy", side, p)} /\ UNCHANGED again
       \/ Of("copy", side, p) \notin todo /\ p \in again /\ again' = again \ {p} /\ UNCHANGED todo
    /\ IF ~Exists("L", p) \/ p \in Copied(p) THEN UNCHANGED <<disk, links, done, batch, queue, faults, lost>>
       ELSE \E gone \in BOOLEAN :
                (gone => Replaces(p)) /\ (Copy(p, gone) \/ FailCopy(p, gone))
    /\ UNCHANGED <<tables, handling, work, side, backend, rules, loaded, moves, untold>>

\* The second run of rsync, with --checksum, lists what the first one was given.
EndCopies ==
    /\ work = "copy" /\ Tasks("copy") = {}
    /\ work' = IF backend = "rsync" THEN "report" ELSE "flush"
    /\ UNCHANGED <<disk, tables, queue, handling, side, todo, again, links, done, batch, backend, rules, loaded, moves, lost, faults, untold>>

Report(p) ==
    /\ work = "report" /\ p \in done /\ InTurn(p, done) /\ done' = done \ {p}
    /\ Post(Push(Open, <<Of("transfer", "R", p)>>))
    /\ UNCHANGED <<disk, tables, handling, work, side, todo, again, links, backend, rules, loaded, moves, lost, faults, untold>>

\* The run of rsync fails, or a stop is seen: no more tasks, and no more reports.
Abort ==
    /\ work \in {"delete", "copy", "report"} /\ work' = "flush"
    /\ lost' = (lost \/ done # {})
    /\ UNCHANGED <<disk, tables, queue, handling, side, todo, again, links, done, batch, backend, rules, loaded, moves, faults, untold>>

\* work_batch_flush, work_finalize; the tasks and the table of copied links are freed.
Finish ==
    /\ \/ work = "flush"
       \/ work = "report" /\ done = {}
    /\ work' = "ended" /\ batch' = <<>> /\ side' = "L"
    /\ todo' = {} /\ again' = {} /\ links' = {} /\ done' = {}
    /\ queue' = queue \o batch \o <<Of("finished", side, <<>>)>>
    /\ UNCHANGED <<disk, tables, handling, backend, rules, loaded, moves, lost, faults, untold>>

Next ==
    \/ Handle \/ FlushBatch \/ StartCopies \/ EndCopies \/ Abort \/ Finish
    \/ \E r \in DOMAIN rows : Select(r)
    \/ \E s \in Side, r \in DOMAIN rows, q \in Paths : Rename(s, r, q)
    \/ \E rule \in Rules : Ignore(rule)
    \/ \E R \in SUBSET DOMAIN rows : StartSync(R) \/ \E s \in Side : StartApply(s, R)
    \/ \E s \in Side : StartDelete(s)
    \/ \E t \in todo : DeletePath(t)
    \/ \E p \in Paths : CopyPath(p) \/ Report(p)

Spec == Init /\ [][Next]_vars

-----------------------------------------------------------------------------
(* Properties                                                              *)

\* check_consistent_state (aux.c): after every single message, rows and entries name
\* each other, exactly the entries with a row are in the map, no row is empty, and
\* no two rows show one path; an index kept over a removal or a merge breaks it.
\* The first three parts are the types: indices of the arrays, batches of one type.
\* A rename that was not told leaves rows that later ones run into (on_path_edited).
StateConsistent == ~untold =>
    /\ \A r \in DOMAIN rows, s \in Side : rows[r][s] \in 0..Len(list[s])
    /\ \A s \in Side : \A i \in DOMAIN list[s] : list[s][i].row \in 0..Len(rows)
    /\ \A k, l \in DOMAIN batch : batch[k].type = batch[l].type
    /\ \A r \in DOMAIN rows : rows[r].L # 0 \/ rows[r].R # 0
    /\ \A r \in DOMAIN rows, s \in Side : rows[r][s] # 0 => list[s][rows[r][s]].row = r
    /\ \A s \in Side : \A i \in DOMAIN list[s] :
          IF list[s][i].row # 0
          THEN rows[list[s][i].row][s] = i /\ map[s][list[s][i].path] = i
          ELSE map[s][list[s][i].path] # i
    /\ \A r, x \in DOMAIN rows : PathOf(r) = PathOf(x) => r = x

AtRest == work = "idle" /\ queue = <<>> /\ ~untold
ShownPaths(s) == {list[s][rows[r][s]].path : r \in ShownOn(s)}

\* Once every message is handled, the rows show what is on the disks: no path that is
\* gone, and every file, unless a copy was made that was never reported: a run of rsync
\* ended early, or a manual copy failed in the midst of a file. No rename was untold.
ShownIsOnDisk ==
    AtRest => \A s \in Side : /\ ShownPaths(s) \subseteq DOMAIN disk[s]
                             /\ ~lost => DOMAIN disk[s] \ Dirs \subseteq ShownPaths(s)

\* A task of a hard link copies the names of its group, and groups are compared by
\* their hash: at rest a group of the source lists each of its paths once, only paths
\* that are there with that inode, all that the rows show as its links, and its hash is
\* that of its names. Groups of the backup, and of names taken out by a pattern, are not
\* so: a copy made alone has no link yet, and hard_link_replace_node takes any name.
GroupsAgree ==
    AtRest /\ rules = <<>> => \A i \in Inodes :
        LET g == inode_map["L"][i]
            names == {g.names[k] : k \in DOMAIN g.names}
        IN  /\ Cardinality(names) = Len(g.names) /\ g.hash = names
            /\ \A p \in names : Exists("L", p) /\ disk["L"][p] = i
            /\ \A e \in {list["L"][rows[r].L] : r \in ShownOn("L")} :
                  e.linked /\ e.ino = i => e.path \in names

\* update_row_rename asserts that the row it merges into is empty on the renamed side.
MergesIntoEmpty ==
    ~untold /\ queue # <<>> =>
        LET m == Head(queue)
            i == map[m.side][m.path]
            row == Partner(m.side, m.to)
        IN  m.type = "rename" /\ i # 0 => (list[m.side][i].row # 0 /\ row # 0 => rows[row][m.side] = 0)

\* "Create hardlink according to original" (cecup.h:244): when the tasks are done, what
\* was copied from a hard link of the source is linked to its other names on the backup.
LinkedLikeOriginal ==
    work = "copy" /\ Tasks("copy") = {} /\ again = {} =>
        \A l \in links : \A q \in DOMAIN disk["L"] :
            disk["L"][q] = l.ino => Exists("R", q) /\ disk["R"][q] = disk["R"][l.path]

\* The arrays of rows, entries and the maps behave as one table by path (RowTable),
\* until a rename was not told.
Row(x, sides, selected) == [path |-> x, sides |-> sides, selected |-> selected]
Table == {Row(PathOf(r), {s \in Side : rows[r][s] # 0}, rows[r].selected) : r \in DOMAIN rows}
T == INSTANCE RowTable WITH table <- Table
ImplementsTable == T!Init /\ [][untold \/ T!Next]_Table
=============================================================================
