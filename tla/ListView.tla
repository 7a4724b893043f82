------------------------------ MODULE ListView ------------------------------
(***************************************************************************)
(* What of the rows the two lists show: filters, search, sort order and    *)
(* selection (on.c), the pass over the rows that applies them              *)
(* (update_list_from_rows), the cache that spares it, and the list model   *)
(* that tells GTK of the rows in chunks (list_model.c).                    *)
(*                                                                         *)
(* A row is a path, a kind that decides its action, and its checkbox.  The *)
(* kinds stand for the three ways an action depends on the rows: "new" and *)
(* "equal" come from the listings alone, "extra" (only in the backup) is   *)
(* ignored or deleted as delete_after says.  A query is the set of paths   *)
(* that contain it.  What a work thread does to the rows is RowStore's; it *)
(* is here as rows that come, change and go.                               *)
(***************************************************************************)
EXTENDS Integers, SequencesExt

CONSTANTS
  Paths,        \* sequences of names; <<>> is the root
  Rank,         \* [Paths -> Nat \ {0}]: the order of strcmp
  Found,        \* the rows an analysis may find: a set of [path, kind]
  Queries,      \* sets of paths; Paths is the empty query
  Chunk,        \* rows told to GTK at a time
  MaxMoves      \* bound on what the user does

Kinds == {"new", "equal", "extra"}

ASSUME ListAssumption ==
  /\ Rank \in [Paths -> Nat \ {0}] /\ Paths \in Queries
  /\ Found \subseteq [path : Paths, kind : Kinds]
  /\ Chunk \in Nat \ {0} /\ MaxMoves \in Nat

Actions == {"new", "equal", "delete", "ignore"}
DefaultFilters == {"new", "delete", "ignore"}
Columns == {"src_path", "src_action"}

VARIABLES
  rows,         \* cecup.rows, rows_selected
  delete_after, filters, query, sort_col,
  timer,        \* search_timeout_id # 0
  cache,        \* cache_rows: the visible rows with the action they had
  capacity,     \* cache_rows_capacity
  visible,      \* rows_visible[0..rows_visible_len)
  reported, idle,  \* of the list model: reported_count, idle_id # 0
  label,        \* the number in "Selected files"
  under,        \* history: delete_after when the actions were cached
  active,       \* the work thread: "no", "analysis", "transfer"
  trapped,      \* an assertion has ended the program
  moves

options == <<delete_after, filters, query, sort_col>>
shown == <<cache, capacity, visible, reported, idle, label, under>>
view == <<shown, trapped>>
vars == <<rows, options, timer, view, active, moves>>

Below(c, p) == Len(p) < Len(c) /\ SubSeq(c, 1, Len(p)) = p
Matches(r) == rows'[r].path \in query'

-----------------------------------------------------------------------------
(* update_list_from_rows, over the values that the handler leaves behind.  *)

\* item_get_actions_reasons, as far as filters and columns ask
Action(row, after) ==
  IF row.kind # "extra" THEN row.kind ELSE IF after THEN "delete" ELSE "ignore"

\* The source has no path for an extra row, and its action is "ignore" there.
Key(e) ==
  IF sort_col' = "src_path"
    THEN IF rows'[e.row].kind = "extra" THEN 0 ELSE Rank[rows'[e.row].path]
    ELSE CASE e.action = "new" -> 1 [] e.action = "equal" -> 2 [] OTHER -> 3

Fresh(after) == [r \in DOMAIN rows' |-> [row |-> r, action |-> Action(rows'[r], after)]]

Keeps(change, e) ==
  /\ e.action \in filters'
  /\ change \in {"complete", "filter_out"} => Matches(e.row)

\* The sort is not stable; SELECT leaves the entries in their places.
Orders(change, entries, kept) ==
  {s \in Injection(1..Cardinality(kept), kept) :
     \A i, j \in DOMAIN s : i < j =>
        IF change = "select" THEN s[i] < s[j] ELSE Key(entries[s[i]]) <= Key(entries[s[j]])}

CountSelected(entries) == Cardinality({k \in DOMAIN entries : rows'[entries[k].row].selected})

\* cecup_list_model_update: GTK forgets the rows, an idle callback tells them again.
ListModelUpdate == reported' = 0 /\ idle' = (visible' # <<>>)

PassOver(change, after) ==
  LET entries == IF change = "complete" THEN Fresh(after) ELSE cache
      kept == {k \in DOMAIN entries : Keeps(change, entries[k])}
  IN  /\ capacity' = Len(rows')
      /\ \E s \in Orders(change, entries, kept) :
            /\ cache' = [i \in DOMAIN s |-> entries[s[i]]]
            /\ visible' = IF change = "select" THEN SubSeq(visible, 1, Len(s))
                          ELSE [i \in DOMAIN s |-> entries[s[i]].row]
      /\ label' = IF change \in {"complete", "select"} THEN CountSelected(entries) ELSE label
      /\ under' = IF change = "complete" THEN after ELSE under
      /\ trapped' = trapped
      /\ ListModelUpdate

\* Only a complete pass may be the first. Where the assertion of that fails, a program
\* that was built to debug ends; any other takes the case for impossible and goes on.
AssertFails(change) == capacity = 0 /\ change # "complete"
PassUnder(change, after) ==
  \/ AssertFails(change) /\ trapped' = TRUE /\ UNCHANGED shown
  \/ PassOver(change, after)

Pass(change) == PassUnder(change, delete_after')

-----------------------------------------------------------------------------
(* The user, while no work thread is active.                               *)

UserMay == ~trapped /\ active = "no" /\ moves < MaxMoves /\ moves' = moves + 1

\* on_search_changed: the text counts at once, the rows follow 350 ms later.
Search(q) ==
  /\ UserMay
  /\ query' = q /\ timer' = TRUE
  /\ UNCHANGED <<rows, delete_after, filters, sort_col, view, active>>

\* on_search_timeout
SearchTimeout ==
  /\ ~trapped /\ timer /\ timer' = FALSE
  /\ UNCHANGED <<rows, options, active, moves>>
  /\ IF active # "no" \/ rows = <<>> THEN UNCHANGED view ELSE Pass("complete")

\* Slip: a filter that is switched on looks among the cached rows.
ChangeFor_Cached(a) == "filter_out"

\* on_filter_toggled: a filter that is switched off only takes rows away.
ChangeFor(a) == IF a \in filters' THEN "complete" ELSE "filter_out"

ToggleFilter(a) ==
  /\ UserMay
  /\ filters' = IF a \in filters THEN filters \ {a} ELSE filters \union {a}
  /\ UNCHANGED <<rows, delete_after, query, sort_col, timer, active>>
  /\ IF rows = <<>> THEN UNCHANGED view ELSE Pass(ChangeFor(a))

\* Slip: the rows keep their places.
Sort_InPlace(col) ==
  /\ UserMay /\ rows # <<>>
  /\ sort_col' = col
  /\ UNCHANGED <<rows, delete_after, filters, query, timer, active>>
  /\ Pass("select")

\* on_sort_changed
Sort(col) ==
  /\ UserMay /\ rows # <<>>
  /\ sort_col' = col
  /\ UNCHANGED <<rows, delete_after, filters, query, timer, active>>
  /\ Pass("sort")

\* on_cell_toggled: a directory takes the rows below along, and a row that is
\* unselected the directories above it.
Toggled(r) ==
  LET on == ~rows[r].selected
      p == rows[r].path
      other(q) == Below(q, p) \/ (~on /\ Below(p, q))
  IN  [i \in DOMAIN rows |->
         IF i = r \/ other(rows[i].path) THEN [rows[i] EXCEPT !.selected = on] ELSE rows[i]]

Toggle(i) ==
  /\ UserMay /\ i <= reported
  /\ rows' = Toggled(visible[i])
  /\ UNCHANGED <<options, timer, active, cache, capacity, visible, reported, idle, under, trapped>>
  /\ label' = CountSelected(Fresh(delete_after))

Marked(S, on) == [r \in DOMAIN rows |-> IF r \in S THEN [rows[r] EXCEPT !.selected = on] ELSE rows[r]]

\* on_unselect_all_clicked
UnselectAll ==
  /\ UserMay
  /\ rows' = Marked(DOMAIN rows, FALSE)
  /\ UNCHANGED <<options, timer, active>>
  /\ Pass("complete")

\* on_select_all_visible_clicked
SelectVisible ==
  /\ UserMay
  /\ rows' = Marked(ToSet(visible), TRUE)
  /\ UNCHANGED <<options, timer, active>>
  /\ Pass("select")

\* on_delete_after_toggled: nothing is shown anew.
ToggleDeleteAfter ==
  /\ UserMay
  /\ delete_after' = ~delete_after
  /\ UNCHANGED <<rows, filters, query, sort_col, timer, view, active>>

\* on_path_edited and the message it posts, for a row with nothing below it and a name
\* no row has: a row on both sides is split, and what stays behind is a new row.
Renamed(r, p) ==
  IF rows[r].kind # "equal" THEN {[rows EXCEPT ![r].path = p]}
  ELSE {Append([rows EXCEPT ![r] = [@ EXCEPT !.path = p, !.kind = k[1]]],
               [path |-> rows[r].path, kind |-> k[2], selected |-> FALSE]) :
          k \in {<<"new", "extra">>, <<"extra", "new">>}}

Rename(i, p) ==
  /\ UserMay /\ i <= reported
  /\ \A r \in DOMAIN rows : rows[r].path # p /\ ~Below(rows[r].path, rows[visible[i]].path)
  /\ rows' \in Renamed(visible[i], p)
  /\ UNCHANGED <<options, timer, active>>
  /\ Pass("complete")

\* on_reset_clicked: the buttons change one after the other and each shows the rows
\* anew; "equal" is the only one that is switched off.  The button stays usable while
\* a thread works, and then the handlers return at once.
ResetChange == IF DefaultFilters \ filters # {} THEN "complete" ELSE "filter_out"

Reset ==
  /\ ~trapped /\ moves < MaxMoves /\ moves' = moves + 1
  /\ filters' = DefaultFilters /\ delete_after' = FALSE
  /\ UNCHANGED <<rows, query, sort_col, timer, active>>
  /\ IF active # "no" \/ rows = <<>> \/ filters = DefaultFilters
       THEN UNCHANGED view
       ELSE PassUnder(ResetChange, delete_after)  \* delete_after is the last to change

-----------------------------------------------------------------------------
(* Work.                                                                   *)

\* on_preview_clicked: aux_protect_interface_from_user drops the timer, MSG_CLEAR_TREES
\* the rows.
StartAnalysis ==
  /\ UserMay
  /\ active' = "analysis" /\ timer' = FALSE
  /\ rows' = <<>> /\ visible' = <<>> /\ cache' = <<>> /\ ListModelUpdate
  /\ UNCHANGED <<options, capacity, label, under, trapped>>

\* item_add, by the thread
AddRow(f) ==
  /\ ~trapped /\ active = "analysis"
  /\ \A r \in DOMAIN rows : rows[r].path # f.path
  /\ rows' = Append(rows, [path |-> f.path, kind |-> f.kind, selected |-> FALSE])
  /\ UNCHANGED <<options, timer, view, active, moves>>

\* on_menu_apply, on_delete_response, on_sync_response
StartTransfer ==
  /\ UserMay /\ rows # <<>>
  /\ active' = "transfer" /\ timer' = FALSE
  /\ UNCHANGED <<rows, options, view>>

\* update_row_remove: a row that is on both sides stays on the other one.
Removed(r) ==
  IF rows[r].kind # "equal" THEN {RemoveAt(rows, r)}
  ELSE {[rows EXCEPT ![r].kind = k] : k \in {"new", "extra"}}

\* update_row_transfer
Transferred(r) == IF rows[r].kind = "new" THEN {[rows EXCEPT ![r].kind = "equal"]} ELSE {}

\* Slip: rows that are not on show are changed without a pass.
HandleRow_Lazy(r) ==
  /\ ~trapped /\ active = "transfer"
  /\ rows' \in Removed(r) \union Transferred(r)
  /\ UNCHANGED <<options, timer, active, moves>>
  /\ IF r \in ToSet(visible) THEN Pass("complete") ELSE UNCHANGED view

\* update_ui_handler: a batch of row messages
HandleRow(r) ==
  /\ ~trapped /\ active = "transfer"
  /\ rows' \in Removed(r) \union Transferred(r)
  /\ UNCHANGED <<options, timer, active, moves>>
  /\ Pass("complete")

\* Slip: the rows are shown anew after an analysis only.
HandleFinished_Analysis ==
  /\ ~trapped /\ active # "no" /\ active' = "no"
  /\ UNCHANGED <<rows, options, timer, moves>>
  /\ IF active = "analysis" THEN Pass("complete") ELSE UNCHANGED view

\* update_ui_handler: MSG_WORK_FINISHED
HandleFinished ==
  /\ ~trapped /\ active # "no" /\ active' = "no"
  /\ UNCHANGED <<rows, options, timer, moves>>
  /\ Pass("complete")

\* cecup_list_model_update_chunk
UpdateChunk ==
  /\ ~trapped /\ idle
  /\ reported' = Min({reported + Chunk, Len(visible)})
  /\ idle' = (reported < Len(visible))
  /\ UNCHANGED <<rows, options, timer, cache, capacity, visible, label, under, active, trapped, moves>>

-----------------------------------------------------------------------------
Init ==
  /\ rows = <<>> /\ delete_after = FALSE /\ filters = DefaultFilters
  /\ query = Paths /\ sort_col = "src_path" /\ timer = FALSE
  /\ cache = <<>> /\ capacity = 0 /\ visible = <<>>
  /\ reported = 0 /\ idle = FALSE /\ label = 0 /\ under = FALSE
  /\ active = "no" /\ trapped = FALSE /\ moves = 0

User ==
  \/ \E q \in Queries : Search(q)
  \/ \E a \in Actions : ToggleFilter(a)
  \/ \E col \in Columns : Sort(col)
  \/ \E i \in DOMAIN visible : Toggle(i)
  \/ UnselectAll
  \/ SelectVisible
  \/ ToggleDeleteAfter
  \/ \E i \in DOMAIN visible, p \in Paths : Rename(i, p)
  \/ Reset
  \/ StartAnalysis
  \/ StartTransfer

Next ==
  \/ User
  \/ SearchTimeout
  \/ UpdateChunk
  \/ \E f \in Found : AddRow(f)
  \/ \E r \in DOMAIN rows : HandleRow(r)
  \/ HandleFinished

\* The timer and the idle callback run and the thread ends; the user need do nothing.
Fairness == WF_vars(SearchTimeout) /\ WF_vars(UpdateChunk) /\ WF_vars(HandleFinished)

Spec == Init /\ [][Next]_vars /\ Fairness

-----------------------------------------------------------------------------
(* Properties.                                                             *)

(* The two arrays that GTK is answered from are about the rows there are:  *)
(* cecup_list_model_get_item and the row menu take rows_visible[pos] for a *)
(* row without asking whether rows were removed, shifted or sorted since,  *)
(* and SORT, FILTER_OUT and SELECT take the cache for the rows on show.    *)
(* Rows that GTK was not told of yet have a callback that will tell it.    *)
ViewConsistent ==
  /\ capacity \in Nat /\ label \in Nat /\ timer \in BOOLEAN /\ under \in BOOLEAN
  /\ trapped \in BOOLEAN
  /\ visible = [i \in DOMAIN cache |-> cache[i].row]
  /\ ToSet(visible) \subseteq DOMAIN rows /\ IsInjective(visible)
  /\ reported \in 0..Len(visible)
  /\ reported < Len(visible) => idle

Asked == {r \in DOMAIN rows : /\ Action(rows[r], under) \in filters
                              /\ rows[r].path \in query}

(* When nothing is pending, the rows on show are those that the filters    *)
(* and the search ask for, no matter which of them were applied to the     *)
(* rows and which to what was left of them by the ones before (the actions *)
(* are those of the last pass over all rows: delete_after shows none).     *)
ShownIsAsked == ~timer /\ active = "no" => ToSet(visible) = Asked

Earlier(r, q) ==
  IF sort_col = "src_path"
    THEN \/ rows[r].kind = "extra"
         \/ rows[q].kind # "extra" /\ Rank[rows[r].path] <= Rank[rows[q].path]
    ELSE \/ rows[q].kind = "extra"
         \/ rows[r].kind # "extra" /\ (rows[r].kind = "new" \/ rows[q].kind = "equal")

(* The rows on show are in the order of the column that was clicked last,  *)
(* after every filter, search, selection and change of the rows, and while *)
(* a transfer runs: SELECT is the one pass that does not sort.             *)
ShownInOrder ==
  \A i, j \in DOMAIN visible : i < j => Earlier(visible[i], visible[j])

Settled ==
  /\ ~timer /\ active = "no" /\ reported = Len(visible)
  /\ \A i \in DOMAIN visible : rows[visible[i]].path \in query

(* What was typed is searched for in the end and GTK hears of all of it,   *)
(* although the timer is dropped when work starts and every pass starts    *)
(* the telling anew (of a user who stops at some time, MaxMoves). Unless   *)
(* the program ends before: the button that selects all visible rows asks  *)
(* for a pass that may not be the first (NeverTraps).                      *)
SearchTakesEffect == timer ~> Settled \/ trapped

(* No handler asks for a pass that the assertion of update.c:710 forbids.  *)
NeverTraps == ~trapped

(* "Selected files" is the number of selected rows (update.c:939).         *)
LabelCounts == active = "no" => label = Cardinality({r \in DOMAIN rows : rows[r].selected})
=============================================================================
