# Verification of cecup

cecup is a graphical one-way backup program: it compares a source and a backup
directory, shows what a synchronisation would do, and does it after a
confirmation. The modules here describe what it does when, in TLA+; TLC checks
them on small instances and TLAPS proves for every size the safety of the control
core, that an analysis plans what the trees call for and nothing else, that a
synchronisation keeps to its plan and makes a mirror, that a child's output is
read to its end, and that rows, listings and maps are one table by path. Paths
below are relative to the repository
(`src/` is its root, so the program is in `src/src/`).

## 1. The system

| Component | Code | State it keeps | Operations |
|---|---|---|---|
| Work control | `aux.c`, `on.c`, `on_menu.c`, `work.c`, `update.c`, `main.c` | the flags of the one work thread, `stop_working`, `preview_dirty`, sensitivity of the buttons, the queue of idle callbacks, `cecup.base` | settings, analysis, sync, row operations, stop, close; messages; the thread's own steps |
| Traversal and analysis | `traversal.c`, `work.c`, `item.c` | two listings with what could not be read, hard-link groups, rows, transfers, deletions | walk both sides, give every path a verdict, plan, cancel |
| Transfer, manual backend | `work_rsync.c` | the backup, remembered links, errors | copy file, directory, symlink, hard link; remove; preserve times |
| Transfer, rsync backend | `work_rsync.c` | the child process and its pipes | run, read itemised lines, wait, terminate, second pass |
| Row store | `item.c`, `update.c`, `traversal.c` | `rows`, `row_ids`, hash maps, groups | remove, transfer, rename, ignore |
| Row operations | `tasks.c`, `on_path.c`, `on_menu.c`, `on_tree.c` | a task list | tasks of a selection, rename, delete, apply |
| Ignore patterns | `ignore_patterns.c`, `on_menu.c` | the parsed patterns | load, match, append |
| Visible rows, selection | `list_model.c`, `update.c`, `on.c`, `columns.c` | the filtered, sorted view | filter, sort, search, select |
| Log, columns, start-up | `on_log.c`, `columns.c`, `main.c` | widgets | user interface only |
| cbase | `src/cbase/` | hash maps, arenas | the author's base library |

How they interact. The GTK main loop runs every handler; a handler may start the
work thread (`work_thread_start`), which runs one analysis (`work_preview`) or
one transfer (`work_transfer`) and talks back only by idle callbacks: row
batches, log lines, progress, and at its end the verdict
(`MSG_WORK_FINISHED`). The two share memory with few locks: what keeps them
apart is that the interface is made insensitive while work runs and that the
handlers look at the flags of the thread. An analysis fills the listings, rows
and plan that the list model then shows and that a later synchronisation
executes; every change of the settings or of the files in between has to close
the gate (`preview_dirty`, the sync button).

What is hard here:

* interleavings of user, main loop and work thread, with messages that are
  pending while the user goes on, and dialogs that stay open meanwhile;
* a plan that is a cached answer: it may be stale when executed, partial when
  the analysis was stopped, or computed from listings with holes;
* failures below the walkers (an unreadable directory must not look empty, or
  the backup is deleted) and in the middle of a copy;
* ordering: the verdict after the rows, deletions before transfers, the first
  name of a hard-link group before the others, directory times after contents;
* a stop or a closed window at any moment, with a child process to terminate.

What makes each part correct: of the control, that a full synchronisation
executes exactly a complete plan whose inputs still hold, that no thread is
started twice or left behind, and that everything started or stopped ends; of
the analysis, that a deletion is planned only for what the source really lacks,
that the plan is what the rows show and, carried out, makes a mirror; of the
transfer, that it changes planned paths only, restores link groups, and that a
failure leaves work that the next analysis sees; of the row store, that rows,
indices, maps and groups agree (`check_consistent_state`); of patterns, that
matching means what the four menu forms say.

## 2. The modules

| Module | What it is |
|---|---|
| `WorkControl` | the control core: user, main loop, work thread, idle queue |
| `WorkSession` | its abstract specification: one piece of work at a time, a list that is applied only while it is valid |
| `WorkControlProofs` | the theorems about both |
| `Trees` | directory trees with refusals, hard links, the verdict of `item_get_actions_reasons` |
| `Analysis` | `work_preview`: walkers, unknown paths, the two planning loops, cancel |
| `Preview` | its abstract specification: one plan, in one piece or not at all |
| `AnalysisProofs` | the theorems about the analysis |
| `ManualSync` | `work_transfer` with the manual backend: deletions and copies on the trees themselves |
| `ManualSyncProofs` | the theorems about it: what it may change, and what it has made when it is over |
| `RowStore` | rows, listings, path maps and link groups under the row messages of work and user |
| `RowTable` | its abstract specification: a table by path |
| `RowStoreProofs` | the theorems about the arrays and the messages, and the refinement |
| `RsyncChild` | `work_rsync_run`: the child, its two pipes, the pid, stop and close |
| `RsyncChildProofs` | the theorems about it |
| `ListView` | the visible rows: filters, search, sort, selection, and the list model |
| `ListViewProofs` | the theorems about it |
| `IgnoreRules` | the ignore file, its rules, the row menu that adds to it, the rows that follow |
| `Glob` | what a pattern means: the reference for the matching loop |
| `IgnoreRulesProofs` | the theorems about the loop, the file and the rows |
| `HashMap` | the open-addressing map of cbase |
| `Dictionary` | its abstract specification: a function |
| `HashMapProofs` | the theorems about it, and the refinement |
| `MCWorkControl`, `MCAnalysis`, `MCManualSync`, `MCRowStore`, `MCListView`, `MCIgnoreRules`, `MCHashMap` | the instances TLC checks |

Definitions named `X_Something` beside a definition `X` are slips: what `X`
would be after a plausible mistake. No specification uses them; each shows that
the property it is paired with in `PROJECT.json` notices the mistake.

### WorkControl

| Code | Model |
|---|---|
| `cecup.work_thread_started/joined/done`, `stop_working`, `window_destroying` | `started`, `joined`, `done`, `stop`, `destroying` |
| `preview_dirty`, sensitivity of `stop_button` and `sync_button` | `dirty`, `stopSens`, `syncSens` |
| text of the two entries; `cecup.base` | `entry`; `base` (pairs of directories; a text may also be invalid or name `/`) |
| the modal question and the text it shows | `dialog`, `shown` |
| idle callbacks | `idle`, a FIFO of `rows`, `ignore`, `finished` |
| where the main thread is: in the loop, waiting in `on_window_destroy`, blocked in a join, gone | `ui` |
| the position of the work thread | `pc`, `job` |
| `transfers`/`deletions` | `plan`: empty, partial or complete, and whether it holds deletions |

Two variables are not in the code: `listed`, the directories the rows were read
from, and `stale`, the inputs of the plan that changed since the analysis read
them. They only record, no guard reads them.

Every handler is one action; the main loop runs it to the end before it takes
the next event, while the steps of the thread come between handlers. Progress
and log callbacks are left out: they touch nothing else. Modal dialogs keep the
user off the main window (also off its close button), but not the messages.
While work runs only the stop and reset buttons react (`Released`), as
`aux_protect_interface_from_user` leaves them. The user may do any of the
operations in `Moves`, in any order.

### Trees and Analysis

A tree says for every place what is there: its kind, the identity of the file
(hard links), what the comparison looks at (`attr`: size, mode, owner; the
target of a symlink), its time, and what the walker is refused (`access`: the
`stat` of the entry or the listing of the directory). A stored path is a key: a
place and whether it ends in a slash, so that `d/` and `d` are two paths, as
they are for the hash maps. The action `Visit` is one turn of the loop of
`work_traverse_fs`, for any entry whose parents have been opened; `EndWalk` may
come early with an error, which makes the root unknown. `PlanSource` and
`PlanBackup` are one turn of the two loops of `work_preview`, in any order of
keys, since the order of a hash map is arbitrary. An `fts` directory that cannot
be listed is returned twice (first as a directory): the model takes both returns
in one step. Left out: the root row `./`, which is shown and never planned; the
reasons for the tooltip; limits of length and number, which stop the analysis as
a refused name does; the change time of directories.

`TransfersOf` and `DeletionsOf` are the plan that two trees call for, without
walkers and loops; `PlanComplete` says that an analysis nothing disturbed makes
exactly this one, and `ManualSync` starts from it.

### ManualSync

| Code | Model |
|---|---|
| the two directories | `src`, which does not change, and `dst`; `old` is `dst` as it was analysed |
| `cecup.transfers`, `cecup.deletions`, or the task list of a selection | `plan`, with the side it comes from |
| the loops of `work_transfer` and `work_manual_backend_run` | `phase`, `doomed`, `pending`; `group`, `again`, `own` inside a task |
| a file between `open` and `utime` | `open` |
| `ManualTransferState.hardlinks` | `links` |
| `had_errors`, the log, the stop message | `errors`, which also holds refusals the code only logs |
| writes through a symlink of the backup | `outside` |

One deletion, one directory, symlink or link, and the opening and the end of one
file are one action each; any of them may be refused at any of its calls
(`FailCopy`, the second halves of `Delete` and `CloseFile`, metadata that stays
as it was), a stop may come between any two, and since `OnlyPlannedChange` is an
invariant of every state it also speaks of a crash anywhere. The names of a task
are those of the side its row was chosen in, so a row of the backup may bring
names that the source does not have, or has as directories. Files are identified by inode: a
write goes to all names of a file, a new file gets an inode nothing else has.
The slash that ends a directory's path matters to the calls: below `d/` a file
`d` is not found but refused, and `unlink` refuses a directory; neither conflict
is ever resolved by the copy itself, only by a deletion before it. Left out:
what lies beyond symlinks, special files of the source (they are not listed),
deletions in the source (row menu), and changes by other programs meanwhile.

### RowStore and RowTable

| Code | Model |
|---|---|
| the directories | `disk[s]`: path to inode |
| the arrays of a `Traversal` | `list[s]`, a sequence of entries; entries are never taken out, as in the code |
| `Traversal.map`, `Traversal.inode_map` | `map[s]`, `inode_map[s]` (names in order, and the terms of the aggregate hash) |
| `cecup.rows`, `rows_selected`, `row_ids` | `rows`, `list[s][i].row` |
| batches on their way | `queue`, the open one `batch`; `handling` while a batch is half handled |
| the thread | `work`, `side`, `todo`, `again`, `links`, `done` |

`RemoveRow`, `TransferRow`, `RenameRow` and `IgnoreRows` are the four handlers of
`update.c`, each applied to one message of a batch; the thread's `DeletePath` and
`CopyPath` change `disk` and push the message for it, with the flush when kind or
side change. Either may fail in the midst (`Fault`, `FailCopy`): part of a directory
stays and only what went is reported; a copy removed what a link was to replace, made
directories above it, or began its file and gave up, which is reported to nobody
(`lost`); where `link` fails a copy is made instead. A rename whose new directory
cannot be opened, or not be walked to the end, is on the disk and not, or not whole,
in the messages (`untold`). The initial state is what an analysis leaves of two directories
(some of which it could not read). The user renames, selects, applies, deletes
and ignores between two analyses. Every path has one kind (directory or file) on
both sides, so there is no conflict of kinds to remove, and symlinks are left out;
so are sizes, times and verdicts: any row with a source may be one that is transferred. What the rows look like from outside is `RowTable`:
for every path its sides and its checkbox, and one action per message.

### RsyncChild

The two runs of `work_rsync_backend_run`. A line of output is two chunks, so that
a read may end inside a line; the capacity of a pipe is smaller than what the
child writes, so that it blocks. `Poll`, `ReadOut`, `ReadErr` and `LeaveLoop` are
the loop, `WaitStep`, `Reap` and `ClearPid` what follows it. The child may write,
exit with either status, fail at any point, ignore SIGTERM, and write for ever.
`Stop` and `Destroy` (with `DestroyKills` and `Join`) are the main loop, which
signals the group whose pid it finds in `child_pid`. What rsync does to the
directories is external.

### ListView

A row is a path, a kind that decides its action, and a checkbox. `Pass` is
`update_list_from_rows` with its four kinds: *complete* looks at all rows,
*filter_out*, *sort* and *select* only at the rows on show and the actions
remembered for them in `cache`; *filter_out* applies the search, *sort* and
*select* do not; *select* alone does not sort. Every handler of `on.c` that ends
in a pass is an action, with its early returns; `UpdateChunk` tells GTK of the
next rows. A pass over the cache asserts that there was a complete one before
(`AssertFails`): in a debug build the program ends there (`trapped`), in a release
build the pass goes on over the empty cache; both are in the model. `UserMay` is the interface made insensitive while work runs; reset is
not, as in the code. `StartAnalysis`, `AddRow`, `StartTransfer`, `HandleRow` and
`HandleFinished` are what work does to the rows, in the little detail that the
view notices. A query is the set of paths that contain it.

### IgnoreRules and Glob

The file is a sequence of lines and whether the last one is ended; a line is a
sequence of characters, because the matching is what the properties are about.
`match_loop` is where the loop ends (`match_end`), one `turn` after the other, with
its one star to go back to; `match_single` the
choice between component and whole path, `menu_rule` the text that the row menu
composes (with the length the code gives it), `append_pattern` the append with its
look at the last byte, and `RowsFollow` the handler of the message, which reloads
all rules and tries the last one; the rows it does not hit keep the address of a
pattern that the reload freed (`dangling`). `Glob!Matches` defines matching by a split at
every star: `Rest` says from which positions of the string the rest of a pattern
matches.

### HashMap and Dictionary

Slots, tombstones, triangular probing and growth, with the hash of every key
chosen at the start: keys may collide always, in small tables only, or not. A
larger table is filled slot by slot by a recursive function (`Carried`), as the loop of
`hash_resize_` does.

## 3. Runs

| Run | Instance | What it shows |
|---|---|---|
| `control_all` | 1 pair, every user operation | no thread twice or left behind, the gate; stop and close come to an end |
| `control_gate` | 2 pairs, without switching delete-after off, reset, row-menu ignore, rename | only fresh plans are executed; no row is read while it is built; refinement of `WorkSession` |
| `analysis` | `d/`, `d/e`, `f` with every refusal, one ignore rule, both orders of walking; three files linked in every way, older, as old or newer than their copies; delete-after on and off | no unjustified deletion, rows and plan agree, the plan is the one the trees call for and makes a mirror, groups whole, newer files kept, all or nothing; it ends; refinement of `Preview` |
| `sync_manual` | `d/`, `d/e`, `f`; files, directories, symlinks, links across any two places, a special file; the full plan or any rows of either column; delete-after on and off; every refusal and stop | only planned places change; convergence; mirror; nothing written through symlinks that delete-after removes first |
| `row_store` | two directories with a file each, two files that may be linked; both backends; two operations of the user, one selected row or directory with what is below it, one rule, one removal, copy or walk that fails | arrays and maps agree after every message, rows are what is on disk at rest, but for copies and renames that were never reported, groups of the source hold their names; refinement of `RowTable` |
| `rsync_child` | 2 lines, up to 3 chunks of errors, pipes of 2 chunks, stop and close at any time | every line reported once, `child_pid` names the child of the present run or none, stop, run and close end |
| `list_view` | a directory, a file in it, a file beside it; a search, all filters, both kinds of sort key; chunks of 2; 5 operations of the user | the view is of the rows there are, is what was asked for, in order, and reaches GTK unless an assertion ends the program |
| `ignore_rules` | every line of up to three of `a`, `*`, `/`; a file with comment, empty line and unended end; paths on three levels; 3 rules | the loop matches as defined, the menu adds one rule, rows agree with the file |
| `hash_map` | 4 keys, 2 values, hashes 0, 1, 8, up to 16 slots | counters agree with slots, a miss finds room, refinement of `Dictionary` |

Three more runs are expected to find a violation. Each is a place where the
program and what it says of itself part ways; `PROJECT.json` (`findings`) quotes
both:

| Run | Disagreement |
|---|---|
| `short_copy` | a copy that fails in the middle leaves a short file that counts as a newer backup |
| `rows_unread` | renaming an unreadable directory leaves rows at old paths, into which a later rename merges against an assertion |
| `ignore_by_name` | the rule that ignores by name does not match a file of that name |

Further configurations, kept beside the runs. Each takes one property of a
module that a listed run covers and shows where it stops to hold, or holds with
fewer operations:

| Configuration | Module, property | What it shows |
|---|---|---|
| `WorkControl_dialog_dirs.cfg` | `MCWorkControl`, `SyncNamesItsDirs` | violated: the question of the sync dialog names the text of the entries (`on.c:309-314`), the transfer uses `cecup.base`; typing without Enter changes the first only |
| `WorkControl_dialog_browse.cfg` | `MCWorkControl`, `SyncNamesItsDirs` | violated: the directory choosers are not modal (`on.c:702-715, 736-749`); one answered during an analysis changes the entries and sets `preview_dirty`, which the verdict overwrites (`update.c:220`), so the next question names directories that are not those of the plan |
| `WorkControl_delete_after.cfg` | `MCWorkControl`, `SyncHonoursDeleteAfter` | violated: switching "Sync 100%" off after an analysis (`on.c:203`) keeps the planned deletions |
| `WorkControl_ignore_race.cfg` | `MCWorkControl`, `InterfaceBlocked` | violated: the ignore message of `on_menu.c:164` may be handled while the thread fills the rows, which `list_model.c:175-178` calls impossible |
| `WorkControl_reset_lost.cfg` | `MCWorkControl`, `SyncUsesFreshPlan` | violated: a reset during an analysis sets `preview_dirty`, which the verdict overwrites (`update.c:220`) |
| `WorkControl_rows.cfg` | `MCWorkControl`, `RowsActOnListedDirs` and others | holds without the operations after which rows and directories part company |
| `Analysis_delete_ignored.cfg` | `MCAnalysis`, `ShownDeletions` | violated: ignored backup files are shown as deletions (`item.c:212, 286`) and never planned (`work.c:538`) |
| `RowStore_link_backup.cfg` | `MCRowStore`, `LinkedLikeOriginal` | violated: a hard link applied from the pane of the backup is copied, not linked as `cecup.h:244` says |
| `ListView_trap.cfg` | `MCListView`, `NeverTraps` | violated: "Select all visible" (`on.c:566-586`) does not ask whether there are rows, as filters and sort do; pressed before any analysis it meets the assertion of `update.c:709-712` |
| `IgnoreRules_tip.cfg` | `MCIgnoreRules`, `TipHasPattern` | violated: after a rule is added from the menu, rows ignored before point at patterns that were freed (`update.c:640`, `on_tree.c:405`) |
| `ListView_label.cfg` | `MCListView`, `LabelCounts` | violated: "Selected files" counts the rows on show after "Select all visible" (`update.c:694`), Apply and Delete act on all |

The passing runs leave out exactly what these show, by `Moves` or by the
options, never by changing the specification. More that the models show is
written into the properties instead, so that these hold:

* after the directories are changed the rows of the old ones stay, and "Delete"
  and "Apply" in their menu act on those paths below the new directories
  (`on_menu.c:422`; `RowsActOnListedDirs` is checked without changing them);
* reset stays clickable while work runs and changes what the work reads
  (`main.c:981`; `SettingsStable` is checked without `reset`);
* the sync button is usable before the first analysis, with nothing to do
  (`main.c:818`; `SyncGate` allows an empty plan);
* a special file of the source is passed over without a record, so a backup file
  of that name counts as missing (`work.c:131`; `Held` leaves special files out);
* a name is transferred with its link group although its own row says "ignore,
  the backup is newer" (`work.c:478`; `ShownTransfers`, `NewerKept`);
* a backup that could not be read counts as empty (`work.c:464`; `NewerKept`
  speaks of what the walker of the backup could see);
* files of the backup that are one file there and two in the source stay one,
  and copying one of them writes the other (`O_TRUNC` in place, and extra links
  of the backup are not compared, though a group is compared by its size:
  `item.c:279`; `OnlyPlannedChange`, `LinksAsSource`);
* without delete-after, or when single rows are applied, a symlink of the backup
  where the source has a directory stays, and the entries of the directory are
  written at its target (`work_rsync.c:1237`; `StaysInside` is about delete-after);
* a directory whose entries are copied after it keeps the time of the last copy
  and is planned again by the next analysis (`work_rsync.c:1243`; `Converges`
  leaves times of directories out);
* a stop in a task of linked files still copies the task's own name, and may
  remove it without linking it (`work_rsync.c:1335`; `LinkFile`, `FailCopy`);
* a name is put into the aggregate hash of a group by exclusive or, so putting
  it in twice, as `hard_link_replace_node` may, takes it out (`item.c:27-30`;
  `GroupsAgree` is about the source at rest and without new rules);
* copies that rsync made before its first run failed or was stopped are not
  reported, nor is a manual copy that fails after it created the file
  (`work_rsync.c:850`, `1085`, `1165`; `lost` in `ShownIsOnDisk`), and the rows do
  not show them;
* when the new directory of a rename cannot be opened, or its walk fails on an
  entry, the disk is renamed and the rows are not (`on_path.c:229-234`, `252-256`);
  the assertion of `update.c:567` may then fail as in `rows_unread` (the properties
  of `RowStore` hold until such a rename, `untold`);
* rows ignored before a rule is added from the menu still count as ignored and
  show a pattern that was freed (`ignore_patterns.c:34-37`; `dangling` in `RowsAgree`);
* a directory chooser answered during an analysis sets `preview_dirty` in vain
  (`update.c:220`; `SyncUsesFreshPlan` is about `cecup.base`, which it leaves alone);
* when the ignore file cannot be read the analysis goes on without rules
  (`work.c:404`; `current` in `RowsAgree`);
* the rule for a folder is written without its last slash (`on_tree.c:163-167`;
  `menu_rule`), so it also matches a file of that name;
* switching delete-after or delete-ignored does not show the rows anew: filters,
  sort and totals go on with the actions remembered, cells and tasks with new
  ones (`on.c:183-218`; `under` in `ShownIsAsked`);
* checking a box announces a change of all visible rows to GTK, also when it was
  told of the first chunks only (`on.c:538`; what GTK makes of it is not modelled);
* a sort chosen while there are no rows is dropped and its arrow stays
  (`on.c:364`; `Sort` is about the order that was accepted).

Bounds. `MaxBatches` row batches per transfer and `MaxIdle` messages pending
when the user posts one more: a verdict behind and before a row batch, and an
ignore message between two verdicts, already occur with one batch and two
messages; a longer queue repeats them. Two directory pairs are needed to tell
old from new directories (`control_gate`); the control itself does
not look at them, so `control_all` has one, besides the invalid texts. Three places give an unreadable
directory with something below it and something beside it; three files give a
group of three names, two groups, and a group with a stranger; three times give
older, same and newer. The files of `sync_manual` have one of three identities and
the inodes allow a new one at every place. In `row_store` two operations reach
every pair of messages of different kinds, a merge after a split and a rename
below a renamed directory; a selected directory with what is below it makes a batch
of several, a linked file a task of a group; one failure leaves a directory half
removed, a copy half made or a rename untold, and an operation follows it. In `rsync_child` the output is larger than the pipe and an odd number
of chunks fits a read, so lines are cut and both pipes fill; two steps of patience
tell the first from the last. In `list_view` five operations are an analysis,
a filter off, a search, a selection and the filter on again; two rows per chunk
leave one untold. Three characters per line are enough for a leading and an inner
slash, two stars, and a star on either side of each. Four keys fill a table of
two or four slots with tombstones and double it up to three times. The theorems do not depend on
these bounds.

Deadlock is not checked where the model may stop: the program ends when its
window is closed, an analysis or a transfer is over when it is done, a user may do nothing
or is at the bound of what he does.

Fairness. The main loop keeps dispatching what is pending (GTK does), the
operating system keeps scheduling the work thread, and an analysis is finite:
weak fairness of the loop, of the thread outside a transfer, and of the
analysis's own steps. A transfer need not end by itself, a device or a child may
hang; only once it is stopped is it assumed to leave its loops, which look at the
flag on every turn. Nothing is assumed of the user. `Analysis` assumes that the
walkers and loops go on; it does not assume a stop. `RsyncChild` assumes that the
two threads go on and nothing of the child: `StopEnds` and `WindowCloses` hold
for one that hangs, `RunsEnd` says that a child that writes and exits when it can
is read to its end. `ListView` assumes that timer and idle callback run and that
work ends; a search takes effect for a user who stops typing, which `MaxMoves`
bounds, unless the assertion on the first pass ends the program.

## 4. Proofs

`WorkControlProofs` proves, for every set of directory pairs, every set of user
operations and every bound, that `WorkControl` keeps `TypeOK`, `Consistent` and
with it `NeverFatal`, `SyncGate`, `VerdictComesLast`, `NoOrphanThread`, and the
action property `DirtyClearedByAnalysis`. None of these is inductive alone: that
a button may start work depends on the thread having been joined, which depends
on the verdict having been handled, which depends on there being one verdict in
the queue and none after it. `Consistent` states these links in four named
parts: `MainInv` (where the main thread is and what it then knows), `ButtonInv`
(the stop button tells whether work runs), `ThreadInv` (what the position of the
thread says about job, plan and verdict), `VerdictInv` (at most one verdict
pending, that of the current thread). The proof takes the actions in the four
groups of `Next`; what leaves the queue alone, adds an ordinary message or takes
one is handled by lemmas on sequences. The assumptions are that the three
special entry texts are distinct from the pairs and from each other
(`PairsAssumption`) and that the bounds are naturals (`BoundsAssumption`).

`SessionSafety`, in the same module, says that, for a user who does not add
ignore rules from the row menu, every initial state of the control core is one of `WorkSession`
and every step is one of its steps or a stutter. The ignore message is excluded
because it is the operation that lets a complete plan be called valid after its
rules changed (`WorkControl_ignore_race.cfg`); the refinement is checked by TLC with
the same exclusion.

Two more properties of the control core hold only for a user who leaves some
operations alone, and are proved with that as hypothesis on `Moves`.
`InterfaceBlockedAlways` excludes `ignore_row` and `rename`, whose messages may
still be pending when an analysis starts; `RowsInv` says that otherwise row
changes are pending only during a transfer or in front of its verdict.
`SyncUsesFreshPlanAlways` excludes `delete_after_off`, `reset` and `ignore_row`,
which change an input of the plan without closing the gate at once; `FreshInv`
says at which position of the thread which inputs may already have changed. The
hypotheses are those of the run `control_gate` or weaker, and
`WorkControl_ignore_race.cfg`, `WorkControl_delete_after.cfg` and
`WorkControl_reset_lost.cfg` show what goes wrong with the operations left out.

`AnalysisProofs` proves, for trees of any shape, all refusals, ignore rules and
options and every order of walking and planning, that the analysis keeps its
types, that `DeletionsJustified` always holds, and that the analysis implements
`Preview` (a refinement of its initial states and steps, hence of the whole
safety specification), and that `GroupsWhole` always holds. The invariant says
what a listing knows of the disk: a walk that is over has no entry left unless
it was stopped or said it failed (`WalkedInv`); every entry returned was listed
or recorded unless it is a special file, and every directory was opened, recorded or ignored (`SightInv`);
nothing below an ignored directory is listed (`ListedInv`). Then a path that is
on the backup's list, not on the source's, and not covered by an unknown path
cannot exist: either its walker returned it, or the topmost unseen directory
above it lies below one that was not opened, which is recorded (so the path is
unknown) or ignored (so the backup's walker did not list the path either). The
step to the topmost directory needs that paths are finite, the last part of
`AboveAssumption`; the other assumptions are that `Above` is the ancestor
relation and that the inputs are trees. `GroupsWhole` follows from `ResultInv`, which says of the keys considered so far that
their transfers and deletions are those the verdicts call for: a key whose verdict
is that of a hard link brings all names of its file, and only listed keys are
planned, so that the loop ends after it has considered every planned key.

The same invariant gives the rest of what the analysis plans: `NewerKept`, which
is about a single key; `ShownTransfers`, and with it `ShownIsPlanned` when no case has the option to delete what is ignored (with it
the rows show deletions that are never planned, `Analysis_delete_ignored.cfg`, so
the hypothesis is needed). For `PlanComplete` the walkers have to be exact: of an
analysis that nothing disturbed (`Undisturbed`) a key is listed exactly if the
tree has it, so the plan is a function of the trees and the options, in whatever
order walkers and loops went. `PlanMakesMirror` compares, place by place, what
the plan leaves with the source, also where something else was refused; it needs
that an entry that is there has a kind (`NothingIsAbsent`) and, to count the
names of a file, that there are finitely many places (`PlaceAssumption`).

`ManualSyncProofs` proves, for all trees, plans and choices of rows, that
`ManualSync` keeps its types, that the backup is a tree in every state
(`TreeAlways`) and that `OnlyPlannedChange` always holds. The last is not
inductive: a file is written under all its names, so a target that came to share
its inode with a file that is not to change would spoil it later. `Invariant` therefore
says of the backup that it is typed, that it is a tree (`IsShape`), that a
file with the name of a target has no name that may not change (`Shares`), and
that every place is as it was, planned, another name of a planned file, or a directory
that was made or got a new time (`Allowed`), all gathered in `Kept`; and
of the work that only names of the plan are left to copy, that an open file is a
file (`WorkInv`), and that what the table of links remembers are targets
(`LinkInv`). Each system call has a lemma that it leaves a tree `Kept`
(`ParentsKept`, `RemoveKept`, `PutKept`, `WrittenKept`); each action is a sequence of them. `Shares`
needs that a new file has an inode nothing else has, which `SyncAssumption`
provides, with the types and the shape of the trees.

Its second half is about a whole synchronisation: `StaysInside`, `MirrorMade` and
`Converges`, for all trees, options and orders of the copies. `Progress` says how
far it is. The plan is the one the trees call for (`PlanInv`); one key is copied
at a time and none comes back (`OneByOne`); deletions are over before copies
begin, and nothing is left over at the end unless there was an error (`InOrder`).
With delete-after, what stands on the backup fits the source, is still to be
deleted, or is a special file (`RoomInv`), which gives `StaysInside`: where the
copy makes a directory no symlink is left. And as long as there was no error
(`CalmInv`): what is not planned is untouched, what was copied has its final form
(`CopiedInv`), names copied from one file are one file, and the first of them is
the one remembered (`LinkedInv`). The last part is why a later write cannot spoil
an earlier copy: a written file that shared its inode with a place of other
contents would contradict `LinksAsSource`. `MirrorMade` and `Converges` are then
read off the end, the latter by evaluating the verdict of
`item_get_actions_reasons` on what the transfer left.

`RsyncChildProofs` proves, for any number of lines and of chunks of errors and any
capacity of the pipes, that `RsyncChild` keeps `TypeOK`, that `AllReported`, and
that `PidOfThisRun` always hold. `AllReported` needs to know, at the moment a run
is over, that everything the child wrote was read, which rests on when a pipe was
taken off the poll. `IInv` says: the pid is set exactly from `SetPid` to
`ClearPid` (`PidInv`); what the child may be at each place of the thread
(`ChildInv`); a pipe that poll called hung up and empty stays so until it is read
(`EventsInv`); standard output leaves the poll only when it is empty and nobody
can write to it (`EndInv`); chunks read, in the pipe and unwritten add up to the
output (`CountInv`); and the rows reported are the whole lines read of the second
run (`ReportInv`). One lemma per action.

`RowStoreProofs` proves, for all trees, histories, rules and bounds, and for both
backends, that rows, listings and maps agree after every single message
(`StateConsistentAlways`), that a renamed entry is merged only into a row that is
empty on its side (`MergesIntoEmptyAlways`), and that at rest the rows are what
the disks hold (`ShownIsOnDiskAlways`), whichever removals and copies fail in the
midst. A rename that was not reported whole (`untold`) ends what is claimed: each
theorem is about the history up to it. About the arrays alone it needs `Sound`:
rows and entries point at each other, the map points at the entry that has the
row, no row is empty, and a path has one row (`RowsPoint`, `EntriesPoint`,
`MapPoints`, `NoEmptyRow`, `OneRowPerPath`). `Sound` has a parameter, the rows
about to be dropped, since a handler empties rows first and moves the others up
afterwards. What makes it inductive is about messages that are still on their
way. A rename appends its entry under the new path, which must be out of the map
by then: `FreeAt` says what the map cannot hold after the first *n* messages
pending, `NamesFree` that every new name is free when its message is handled,
`GoneFree` that whatever is gone from a disk will be out of the map at the end.
For this the order of batches matters (`BatchOK`: of one type and one side,
deletions before transfers) and that the verdict comes last (`VerdictLast`). The
converse, that nothing on disk is left without a row, is `HeldInv`, with `HeldAt`
for what the map will hold and `done` for copies that rsync has still to report;
it is given up once a copy is `lost`. A removal that stays partial posts a list of
messages for what went and nothing above what stayed (`InBelow`, `RemovalsAre`); the
three ends of a copy have a lemma each (`CopySkipped`, `CopyMade`, `CopyFailed`), and
what removes a file for a link and then fails is a removal.
The four theorems assume `ReadAll`: the analysis could list every directory. The
run `rows_unread` shows that this is needed: below an unread directory a rename
leaves rows under the old names, and a later one merges into them. The instance
of `row_store` satisfies it. The assumption on the constants (`RowAssumption`)
says that paths are finitely many, that what lies above a path is a directory,
that the trees have those shapes, and that 0 names no file.

A further part proves with the same hypothesis that `RowStore` implements
`RowTable` (`TableImplemented`). Of a row of the table, the map gives the sides (`ShownIs`); what has to
be followed through arrays that are shortened, split and merged is the checkbox
(`Marked`). Each handler has two lemmas: that it is one step of the table on the
path its message names (`RemoveTable`, `AddTable`, `RenameTable`, `SelectTable`), and
that for every other path it keeps row, sides and checkbox (`RemoveKeeps`,
`TransferKeeps`, `RenameKeeps`, `IgnoreKeeps`).

The last part proves `GroupsAgree`, again for all trees that were read to the end
(`GroupsAgreeAlways`). At rest a group has to fit the disk, but on the way there it
only fits the tables: `Cells` is what the map of the source makes of a path, its
inode and whether it is a link, and `LinksOK` says of every state that a group lists
each path of those cells once and that its hash is the one of its names. A handler
changes one cell or moves it to a name that is free (`RemoveLinks`, `RenameLinks`);
one that only moves rows changes none (`KeptRow`, `KeptDrop`, `TransferKept`). That
the cells end up as the disk is said by `TraceOK`: the messages still to come, one
after another, lead from the inodes of the cells to those of the disk (`After`,
`Traced`). What is posted is appended to such a trace (`TraceMore`) and what is
handled is taken off it (`TraceTail`); that a walk and a rename post what they did
to the disk, the entries of a directory in any order, is `TraceRemovals` and
`TraceRename`. A pattern takes names out of their groups, as the code does, so
`LinksOK` holds only while there is none, and `NoPattern` says that none is on its
way then.

`ListViewProofs` proves, for any rows, ranks, queries, chunks and histories of the
user, `ViewConsistent`, `ShownIsAsked` and `ShownInOrder`. That a pass may walk the
cache in place of the rows is what needs an invariant: every entry of the cache is
of a row there is, no row has two, and its action is the one the row has under the
option of the last pass over all rows (`CacheInv`); while no thread works the
entries pass the filters, and without a search to come they are all that do
(`AskedInv`); the cache is empty while rows are found and else made for the rows
there are, so that the assertion on the first pass cannot fail while there are rows (`WorkInv`,
`NotFirst`); where there are none the pass may end the program or show nothing. `PassMakes`
says once what a pass makes of the entries it walks, `CompletePass` and `CachedPass`
apply it to the rows and to the cache, and each action cites one of them. SELECT,
the pass that does not sort, hands over what it got: an injection of 1..n into
itself that keeps the order moves nothing (`OrderIsIdentity`). That is shown by the
least number it would move, a first-order form of induction: that a set of numbers
has a least one (`LeastNumber`) follows from the library's theorem on well-founded
relations, which takes no operator.

`HashMapProofs` proves, for any keys, values, hashes and lengths, that `HashMap`
keeps `TableConsistent` and implements `Dictionary`. The invariant is
`GoodTable`: every key lies on its own walk with no free slot before it
(`Reaches`), and no key lies in two slots; together with the counters (`Right`).
It is why a tombstone may not become free (`ReplaceGood`) and why a new key may
take the first tombstone it met (`PutGood`, `Room`). Two facts carry the rest.
A walk of *n* steps over *n* slots looks at every one (`EverySlot`): two steps
that meet differ by a product of two numbers, one of them odd, that is a multiple
of 2*n*, and an odd number has no part in a power of two (`OddFactor`). And a
table is never full when a key is put: it was grown before (`ReadyIs`). Growing
is a recursion over the old slots; that it has a solution (`GrownExists`), and that
the larger table holds the same keys and values (`ResizedGood`), is shown by the
least number of slots for which it would fail. For the refinement only one
relation matters, which key has which value (`Holds`): each operation has a lemma
that says what it does to it, and a table is as good as its `Contents`
(`ContentsIs`).

`IgnoreRulesProofs` proves, for any files, edits and paths, `LoopIsGlob`,
`RowsAgree` and `RuleIsAdded`. The loop of `work_match_pattern` is right for every
pattern and every string (`MatchLoopIsMatching`). In a state of the loop the
characters since its last star lie side by side (`Abreast`), and the loop will end
well exactly if the rest matches as it stands or when the last star takes more
(`Able`); a turn keeps both (`LoopRight`). The case that matters is the next star,
where the code forgets the one before: what that one would gain by taking more the
new one can take itself, and a slash that the new one may not take stood in the way
of the old one too, since the literal between them is the same at both places
(`LastStarTakes`, `Literal`). A turn goes on to a later star, a longer star or a
later character (`TurnIs`), so that every set of states has one that no other is
later than (`LatestState`): that the loop ends and that its end is right is shown
of the latest state for which it would fail. The rules of the first *n* lines are
treated alike (`LoadedExists`): a line more at the end is a rule more at the end
(`LoadAppended`), and what the menu composes is read as a rule (`MenuRuleIsRule`).
The invariant, `RulesInv`, says that while the message is on its way the file has one
rule more than memory, at its end, and that the rows are what the rules in memory
say, but for the text of those that are `dangling` (`InStep`); `OneRuleMore` is why trying that rule alone is enough. The
assumptions on the constants (`PathsAreRelative`, `FilesAreLines`) say that paths
and lines are sequences of characters and that no path is empty or begins with a
slash.

Only model-checked. Liveness and fairness, which are beyond the prover:
`StopEnds`, `RunsEnd`, `WindowCloses`, `SearchTakesEffect`, `AnalysisEnds`,
`CloseEnds`, and the fairness part of `WorkSession`. And what the code does not keep:
`SyncNamesItsDirs` of `WorkControl`, `LabelCounts` and `NeverTraps` of `ListView`, `NameRuleMatches` and `TipHasPattern` of `IgnoreRules`,
`LinkedLikeOriginal` of `RowStore`. Of the invariants of the passing runs none is left
without a theorem.

`TypeOK` of `Analysis` and `ManualSync`, `Consistent`, `VerdictComesLast` and
`DirtyClearedByAnalysis` of `WorkControl` are proved and not repeated in a run.

## 5. Not modelled, and the plan

Left out for good: widgets, columns, the log view, formatting, translations and
the vendored libraries, which keep no state of the program; what rsync does
to the directories, which is external; the arena, the strings and the wrappers
of system calls of cbase, whose correctness is about addresses and memory (more
than nine tenths of the lines of the repository are these, the vendored code,
tables of constants and tests). Of the modelled parts: removal of
a path of the source by the row menu as the backend does it (its rows are in
`RowStore`); the numbers on the filter buttons and the totals in bytes; the
reload of options at start-up; changes that other programs make between an
analysis and a transfer; a torn line when the append to the ignore file fails
half way, names with a newline in them, and a directory rule `a/*/` against `a/`
itself.

Next, in this order:

1. `RowStore` and `ListView` composed, so that the selection that is applied is
   the one made on the rows on show.
2. `ManualSync` with a source that changes between analysis and copy.
