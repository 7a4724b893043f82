----------------------------- MODULE WorkControl -----------------------------
(***************************************************************************)
(* The control core of cecup: the GTK main loop, the one work thread it    *)
(* starts (analysis or transfer), the queue of idle callbacks by which the *)
(* thread talks back, and the gate that decides when the plan computed by  *)
(* the last analysis may be applied.                                       *)
(*                                                                         *)
(* Actors: the user (widgets and modal dialogs), the main loop (dispatches *)
(* idle messages in FIFO order, and blocks in a join), the work thread.    *)
(* The shared flags and widgets are the fields of struct cecup.            *)
(***************************************************************************)
EXTENDS Naturals, Sequences

CONSTANTS
    Pairs,       \* valid (source, backup) directory pairs
    NoPair,      \* cecup.base not set yet
    BadPair,     \* entry text that cecup_get_dirs rejects and resets to "./"
    RootPair,    \* entry text naming the root directory: rejected, not reset
    Moves,       \* what the user does: a subset of AllMoves
    MaxBatches,  \* bound: row batches one transfer posts
    MaxIdle      \* bound: pending idle messages when the user queues one more

AllMoves ==
    {"type_dirs", "enter_dirs", "browse", "check_fs", "delete_after_on",
     "delete_after_off", "reset", "edit_rules", "ignore_row", "rename",
     "apply_row", "delete_row"}

ASSUME PairsAssumption ==
    /\ NoPair \notin Pairs /\ BadPair \notin Pairs /\ RootPair \notin Pairs
    /\ NoPair # BadPair /\ NoPair # RootPair /\ BadPair # RootPair
ASSUME BoundsAssumption == MaxBatches \in Nat /\ MaxIdle \in Nat

VARIABLES
    \* user interface
    ui,          \* where the main thread is: "loop", "waiting", "joining", "quit"
    stopSens, syncSens,      \* sensitivity of stop_button and sync_button
    dialog, shown,           \* open modal dialog; the pair its text names
    entry, base,             \* text of the directory entries; cecup.base
    deleteAfter, dirty,      \* cecup.delete_after, cecup.preview_dirty
    \* lifecycle flags
    started, joined, destroying, stop, done, fatal,
    \* work thread
    pc, job, sent, clean,
    \* analysis results
    plan, planDeletes,       \* transfers/deletions arrays; they hold deletions
    listed,                  \* the pair the rows in the trees were read from
    \* idle callbacks of the main loop
    idle,
    \* history: inputs of the plan that changed since the plan read them
    stale

uiVars     == <<stopSens, syncSens, dirty>>
dialogVars == <<dialog, shown>>
dirVars    == <<entry, base>>
threadVars == <<started, joined, stop, done, fatal, pc, job, sent, clean>>
planVars   == <<plan, planDeletes, listed>>
vars == <<ui, uiVars, dialogVars, dirVars, deleteAfter, destroying,
          threadVars, planVars, idle, stale>>

Inputs == {"dirs", "check_fs", "delete_after", "rules", "tree"}

Finished(c) == [type |-> "finished", clean |-> c]
RowBatch    == [type |-> "rows",     clean |-> FALSE]
NewPattern  == [type |-> "ignore",   clean |-> FALSE]
Messages    == [type : {"finished", "rows", "ignore"}, clean : BOOLEAN]

\* work_thread_is_active
Active == started /\ ~joined

Init ==
    /\ ui = "loop"
    /\ stopSens = FALSE /\ syncSens = TRUE /\ dirty = TRUE
    /\ dialog = "none" /\ shown = NoPair
    /\ entry \in Pairs \cup {BadPair} /\ base = NoPair
    /\ deleteAfter \in BOOLEAN
    /\ started = FALSE /\ joined = FALSE /\ destroying = FALSE
    /\ stop = FALSE /\ done = FALSE /\ fatal = FALSE
    /\ pc = "none" /\ job = "none" /\ sent = 0 /\ clean = FALSE
    /\ plan = "empty" /\ planDeletes = FALSE /\ listed = NoPair
    /\ idle = <<>>
    /\ stale = {}

-----------------------------------------------------------------------------
(* Pieces shared by several handlers.                                      *)

\* aux_invalidate_preview: the sync button is only touched when no work runs.
Invalidate ==
    /\ dirty' = TRUE
    /\ syncSens' = (syncSens /\ stopSens)
    /\ UNCHANGED stopSens

\* aux_protect_interface_from_user(true): only the stop button stays usable.
Protect == stopSens' = TRUE /\ syncSens' = FALSE

\* work_thread_start: fatal when the window is closing or a thread is live.
StartWork(j) ==
    IF destroying \/ Active
    THEN fatal' = TRUE /\ UNCHANGED <<started, joined, stop, done, pc, job, sent, clean>>
    ELSE /\ stop' = FALSE /\ done' = FALSE
         /\ started' = TRUE /\ joined' = FALSE
         /\ job' = j
         /\ pc' = IF j = "preview" THEN "cleanup" ELSE "transfer"
         /\ sent' = 0 /\ clean' = FALSE
         /\ UNCHANGED fatal

\* cecup_get_dirs, called until the entries settle: a rejected entry is
\* replaced by "./", which may or may not make a valid pair.
SettleDirs ==
    \/ entry \in Pairs /\ base' = entry /\ UNCHANGED entry
    \/ entry = RootPair /\ UNCHANGED <<entry, base>>
    \/ entry = BadPair /\ entry' = BadPair /\ UNCHANGED base
    \/ entry = BadPair /\ \E p \in Pairs : entry' = p /\ base' \in {base, p}

StaleDirs == IF base' = base THEN {} ELSE {"dirs"}

\* The user reaches the main window: no modal dialog, the loop is running.
UserTurn == ui = "loop" /\ dialog = "none" /\ ~destroying

\* Every widget but stop and reset needs the interface to be released; an open
\* directory chooser does not.
Released == UserTurn /\ ~stopSens

-----------------------------------------------------------------------------
(* User operations on the settings.                                        *)

\* Typing in a directory entry: only "activate" is connected, so the text
\* changes and nothing else does.
TypeDirs ==
    /\ "type_dirs" \in Moves /\ Released
    /\ entry' \in (Pairs \cup {BadPair, RootPair}) \ {entry}
    /\ UNCHANGED <<ui, uiVars, dialogVars, base, deleteAfter, destroying,
                   threadVars, planVars, idle, stale>>

\* on_config_changed: Enter in a directory entry, or an edited tool entry.
EnterDirs ==
    /\ "enter_dirs" \in Moves /\ Released
    /\ Invalidate
    /\ SettleDirs
    /\ stale' = stale \cup StaleDirs
    /\ UNCHANGED <<ui, dialogVars, deleteAfter, destroying, threadVars, planVars, idle>>

\* Slip: the text of a cancelled chooser is taken.
Browse_TakesNothing ==
    /\ "browse" \in Moves /\ UserTurn
    /\ entry' = NoPair
    /\ Invalidate
    /\ UNCHANGED <<ui, dialogVars, base, deleteAfter, destroying, threadVars,
                   planVars, idle, stale>>

\* on_browse_response_src/dst and on_invert_clicked: new text, invalidated,
\* cecup.base untouched. The choosers are not modal: one opened before the work
\* began is answered at any time, and the verdict of a running analysis then
\* overwrites the dirty flag it sets.
Browse ==
    /\ "browse" \in Moves /\ UserTurn
    /\ entry' \in (Pairs \cup {BadPair, RootPair})
    /\ Invalidate
    /\ UNCHANGED <<ui, dialogVars, base, deleteAfter, destroying, threadVars,
                   planVars, idle, stale>>

\* on_preview_setting_toggled (the same-drive protection check box).
ToggleCheckFs ==
    /\ "check_fs" \in Moves /\ Released
    /\ Invalidate
    /\ stale' = stale \cup {"check_fs"}
    /\ UNCHANGED <<ui, dialogVars, dirVars, deleteAfter, destroying, threadVars,
                   planVars, idle>>

\* on_delete_after_toggled: invalidates only when the option is turned on.
DeleteAfterOn ==
    /\ "delete_after_on" \in Moves /\ Released
    /\ ~deleteAfter /\ deleteAfter' = TRUE
    /\ Invalidate
    /\ stale' = stale \cup {"delete_after"}
    /\ UNCHANGED <<ui, dialogVars, dirVars, destroying, threadVars, planVars, idle>>

DeleteAfterOff ==
    /\ "delete_after_off" \in Moves /\ Released
    /\ deleteAfter /\ deleteAfter' = FALSE
    /\ stale' = stale \cup {"delete_after"}
    /\ UNCHANGED <<ui, uiVars, dialogVars, dirVars, destroying, threadVars, planVars, idle>>

\* on_reset_clicked: the reset button is never made insensitive. It turns the
\* options off, rewrites the tool entries (whose "changed" handler settles the
\* directories) and invalidates.
Reset ==
    /\ "reset" \in Moves /\ UserTurn
    /\ deleteAfter' = FALSE
    /\ SettleDirs
    /\ Invalidate
    /\ \E fs \in {{}, {"check_fs"}} :
          stale' = stale \cup StaleDirs \cup fs
                   \cup (IF deleteAfter THEN {"delete_after"} ELSE {})
    /\ UNCHANGED <<ui, dialogVars, destroying, threadVars, planVars, idle>>

\* Slip: writing the rules does not invalidate the preview.
EditRules_Silent ==
    /\ "edit_rules" \in Moves /\ Released
    /\ stale' = stale \cup {"rules"}
    /\ UNCHANGED <<ui, uiVars, dialogVars, dirVars, deleteAfter, destroying, threadVars,
                   planVars, idle>>

\* on_ignore_response: the rules file is written and the preview invalidated.
EditRules ==
    /\ "edit_rules" \in Moves /\ Released
    /\ Invalidate
    /\ stale' = stale \cup {"rules"}
    /\ UNCHANGED <<ui, dialogVars, dirVars, deleteAfter, destroying, threadVars,
                   planVars, idle>>

-----------------------------------------------------------------------------
(* User operations on rows, on the work thread and on the window.          *)

\* on_menu_ignore_action: the rule is appended to the file now, the rows and
\* the gate are updated by a message handled later.
IgnoreRow ==
    /\ "ignore_row" \in Moves /\ Released /\ listed # NoPair
    /\ ~Active
    /\ Len(idle) < MaxIdle
    /\ idle' = Append(idle, NewPattern)
    /\ stale' = stale \cup {"rules"}
    /\ UNCHANGED <<ui, uiVars, dialogVars, dirVars, deleteAfter, destroying,
                   threadVars, planVars>>

\* on_path_edited: the file is renamed on disk, the preview invalidated, the
\* rows updated by a message handled later.
Rename ==
    /\ "rename" \in Moves /\ Released /\ listed # NoPair
    /\ ~Active
    /\ Len(idle) < MaxIdle
    /\ Invalidate
    /\ idle' = Append(idle, RowBatch)
    /\ stale' = stale \cup {"tree"}
    /\ UNCHANGED <<ui, dialogVars, dirVars, deleteAfter, destroying, threadVars, planVars>>

\* on_preview_clicked. MSG_CLEAR_TREES is handled synchronously.
PreviewClicked ==
    /\ Released
    /\ \/ /\ entry = BadPair
          /\ entry' \in Pairs \cup {BadPair}
          /\ Invalidate
          /\ UNCHANGED <<base, threadVars, planVars, stale>>
       \/ /\ entry \in Pairs
          /\ base' = entry
          /\ dirty' = (dirty \/ base # entry)
          /\ Protect
          /\ listed' = NoPair
          /\ StartWork("preview")
          /\ stale' = (stale \cup StaleDirs) \ {"check_fs"}
          /\ UNCHANGED <<entry, plan, planDeletes>>
    /\ UNCHANGED <<ui, dialogVars, deleteAfter, destroying, idle>>

\* on_sync_clicked: the confirmation names the text of the entries.
SyncClicked ==
    /\ UserTurn /\ syncSens
    /\ dialog' = "sync" /\ shown' = entry
    /\ UNCHANGED <<ui, uiVars, dirVars, deleteAfter, destroying, threadVars,
                   planVars, idle, stale>>

\* on_menu_delete with at least one task.
DeleteRowClicked ==
    /\ "delete_row" \in Moves /\ Released /\ listed # NoPair
    /\ ~Active
    /\ dialog' = "delete"
    /\ UNCHANGED <<ui, uiVars, shown, dirVars, deleteAfter, destroying,
                   threadVars, planVars, idle, stale>>

\* Slip: work is started without protecting the interface.
DialogYes_Unprotected ==
    /\ ui = "loop" /\ ~destroying
    /\ dialog \in {"sync", "delete"}
    /\ dialog' = "none"
    /\ StartWork(IF dialog = "sync" THEN "sync" ELSE "tasks")
    /\ UNCHANGED <<ui, uiVars, shown, dirVars, deleteAfter, destroying, planVars, idle, stale>>

\* on_sync_response and on_delete_response.
DialogYes ==
    /\ ui = "loop" /\ ~destroying
    /\ dialog \in {"sync", "delete"}
    /\ dialog' = "none"
    /\ Protect
    /\ StartWork(IF dialog = "sync" THEN "sync" ELSE "tasks")
    /\ UNCHANGED <<ui, dirty, shown, dirVars, deleteAfter, destroying, planVars, idle, stale>>

DialogNo ==
    /\ ui = "loop" /\ ~destroying
    /\ dialog # "none"
    /\ dialog' = "none"
    /\ UNCHANGED <<ui, uiVars, shown, dirVars, deleteAfter, destroying,
                   threadVars, planVars, idle, stale>>

\* on_menu_apply with at least one task.
ApplyRow ==
    /\ "apply_row" \in Moves /\ Released /\ listed # NoPair
    /\ ~Active
    /\ Protect
    /\ StartWork("tasks")
    /\ UNCHANGED <<ui, dirty, dialogVars, dirVars, deleteAfter, destroying,
                   planVars, idle, stale>>

StopClicked ==
    /\ UserTurn /\ stopSens
    /\ stop' = TRUE
    /\ UNCHANGED <<ui, uiVars, dialogVars, dirVars, deleteAfter, destroying, started,
                   joined, done, fatal, pc, job, sent, clean, planVars, idle, stale>>

\* Slip: the window goes away without waiting for the thread.
CloseWindow_NoWait ==
    /\ UserTurn
    /\ destroying' = TRUE /\ stop' = TRUE
    /\ UNCHANGED <<ui, uiVars, dialogVars, dirVars, deleteAfter, started, joined, done,
                   fatal, pc, job, sent, clean, planVars, idle, stale>>
\* Slip: the thread is waited for but not told to stop.
CloseWindow_NoStop ==
    /\ UserTurn
    /\ destroying' = TRUE
    /\ ui' = IF Active THEN "waiting" ELSE "loop"
    /\ UNCHANGED <<uiVars, dialogVars, dirVars, deleteAfter, threadVars, planVars, idle, stale>>

\* on_window_destroy, up to the point where it waits for the work thread.
CloseWindow ==
    /\ UserTurn
    /\ destroying' = TRUE
    /\ stop' = TRUE
    /\ ui' = IF Active THEN "waiting" ELSE "loop"
    /\ UNCHANGED <<uiVars, dialogVars, dirVars, deleteAfter, started, joined, done,
                   fatal, pc, job, sent, clean, planVars, idle, stale>>

-----------------------------------------------------------------------------
(* The main loop.                                                          *)

\* update_ui_handler on the oldest idle message.
HandleRows ==
    /\ ui = "loop" /\ ~destroying /\ idle # <<>> /\ Head(idle).type = "rows"
    /\ Invalidate
    /\ idle' = Tail(idle)
    /\ UNCHANGED <<ui, dialogVars, dirVars, deleteAfter, destroying, threadVars,
                   planVars, stale>>

HandleIgnore ==
    /\ ui = "loop" /\ ~destroying /\ idle # <<>> /\ Head(idle).type = "ignore"
    /\ Invalidate
    /\ idle' = Tail(idle)
    /\ UNCHANGED <<ui, dialogVars, dirVars, deleteAfter, destroying, threadVars,
                   planVars, stale>>

\* Slip: the sync button comes back whatever the verdict.
HandleFinished_IgnoresVerdict ==
    /\ ui = "loop" /\ ~destroying /\ idle # <<>> /\ Head(idle).type = "finished"
    /\ dirty' = ~Head(idle).clean
    /\ stopSens' = FALSE /\ syncSens' = TRUE
    /\ idle' = Tail(idle)
    /\ ui' = IF Active THEN "joining" ELSE "loop"
    /\ UNCHANGED <<dialogVars, dirVars, deleteAfter, destroying, threadVars, planVars, stale>>

\* MSG_WORK_FINISHED: the gate takes the verdict of the thread, the interface
\* is released, then work_thread_join_once blocks until the thread has exited.
HandleFinished ==
    /\ ui = "loop" /\ ~destroying /\ idle # <<>> /\ Head(idle).type = "finished"
    /\ dirty' = ~Head(idle).clean
    /\ stopSens' = FALSE
    /\ syncSens' = ~dirty'
    /\ idle' = Tail(idle)
    /\ ui' = IF Active THEN "joining" ELSE "loop"
    /\ UNCHANGED <<dialogVars, dirVars, deleteAfter, destroying, threadVars, planVars, stale>>

\* The same handler once the window is going away: join_once, then drop.
DropMessage ==
    /\ ui = "loop" /\ destroying /\ idle # <<>>
    /\ idle' = Tail(idle)
    /\ ui' = IF Head(idle).type = "finished" /\ Active THEN "joining" ELSE "loop"
    /\ UNCHANGED <<uiVars, dialogVars, dirVars, deleteAfter, destroying, threadVars,
                   planVars, stale>>

\* on_work_thread_wait_done: ends with the thread done, or after two seconds.
WaitOver ==
    /\ ui = "waiting"
    /\ ui' = "joining"
    /\ UNCHANGED <<uiVars, dialogVars, dirVars, deleteAfter, destroying, threadVars,
                   planVars, idle, stale>>

\* xpthread_join returns once the thread has called pthread_exit.
Join ==
    /\ ui = "joining" /\ pc = "exited"
    /\ joined' = TRUE /\ started' = FALSE
    /\ ui' = "loop"
    /\ UNCHANGED <<uiVars, dialogVars, dirVars, deleteAfter, destroying, stop, done, fatal,
                   pc, job, sent, clean, planVars, idle, stale>>

\* The application has no window left: the main loop returns.
Quit ==
    /\ ui = "loop" /\ destroying
    /\ ui' = "quit"
    /\ UNCHANGED <<uiVars, dialogVars, dirVars, deleteAfter, destroying, threadVars,
                   planVars, idle, stale>>

-----------------------------------------------------------------------------
(* The work thread.                                                        *)

threadFlags == <<started, joined, fatal>>
workerFrame == <<ui, uiVars, dialogVars, dirVars, deleteAfter, destroying, threadFlags, job>>

\* work_cleanup at the start of work_preview.
PreviewCleanup ==
    /\ pc = "cleanup"
    /\ plan' = "empty" /\ planDeletes' = FALSE /\ listed' = NoPair
    /\ pc' = "load"
    /\ UNCHANGED <<workerFrame, stop, done, sent, clean, idle, stale>>

\* stat of both roots and the same-device safety stop, then the ignore rules.
PreviewLoad ==
    /\ pc = "load"
    /\ \/ pc' = "cancel" /\ UNCHANGED <<listed, stale>>
       \/ pc' = "traverse" /\ listed' = base /\ stale' = stale \ {"rules", "dirs"}
    /\ UNCHANGED <<workerFrame, stop, done, sent, clean, plan, planDeletes, idle>>

\* work_traverse_fs of both sides; a name cecup cannot handle stops the work.
PreviewTraverse ==
    /\ pc = "traverse"
    /\ stop' \in {stop, TRUE}
    /\ IF stop'
       THEN pc' = "cancel" /\ UNCHANGED stale
       ELSE pc' = "plan" /\ stale' = stale \ {"tree", "delete_after"}
    /\ UNCHANGED <<workerFrame, done, sent, clean, planVars, idle>>

\* One turn of the loops that fill rows, transfers and deletions.
PreviewPlanEntry ==
    /\ pc = "plan" /\ ~stop
    /\ plan' = "partial"
    /\ planDeletes' = (planDeletes \/ deleteAfter)
    /\ UNCHANGED <<workerFrame, stop, done, pc, sent, clean, listed, idle, stale>>

PreviewStopped ==
    /\ pc = "plan" /\ stop
    /\ pc' = "cancel"
    /\ UNCHANGED <<workerFrame, stop, done, sent, clean, planVars, idle, stale>>

PreviewComplete ==
    /\ pc = "plan"
    /\ plan' = "complete" /\ clean' = TRUE /\ pc' = "finish"
    /\ planDeletes' = (planDeletes \/ deleteAfter)
    /\ UNCHANGED <<workerFrame, stop, done, sent, listed, idle, stale>>

\* work_preview_cancel_and_reset: work_cleanup, then not clean.
PreviewCancel ==
    /\ pc = "cancel"
    /\ plan' = "empty" /\ planDeletes' = FALSE /\ listed' = NoPair
    /\ clean' = FALSE /\ pc' = "finish"
    /\ UNCHANGED <<workerFrame, stop, done, sent, idle, stale>>

\* work_transfer: something is deleted or copied and a batch is posted.
TransferStep ==
    /\ pc = "transfer" /\ ~stop
    /\ job = "tasks" \/ plan # "empty"
    /\ sent < MaxBatches
    /\ sent' = sent + 1
    /\ idle' = Append(idle, RowBatch)
    /\ stale' = stale \cup {"tree"}
    /\ UNCHANGED <<workerFrame, stop, done, pc, clean, planVars>>

\* Slip: a transfer reports a clean preview.
TransferEnd_Clean ==
    /\ pc = "transfer"
    /\ clean' = TRUE /\ pc' = "finish"
    /\ UNCHANGED <<workerFrame, stop, done, sent, planVars, idle, stale>>
\* Slip: a stop does not leave the loop before its last item.
TransferEnd_IgnoresStop ==
    /\ pc = "transfer" /\ sent = MaxBatches
    /\ clean' = FALSE /\ pc' = "finish"
    /\ UNCHANGED <<workerFrame, stop, done, sent, planVars, idle, stale>>

\* work_transfer returns: nothing to do, all done, a failure, or a stop.
TransferEnd ==
    /\ pc = "transfer"
    /\ clean' = FALSE /\ pc' = "finish"
    /\ UNCHANGED <<workerFrame, stop, done, sent, planVars, idle, stale>>

\* Slip: the last batch is flushed after the verdict.
PostFinished_BeforeFlush ==
    /\ pc = "finish"
    /\ idle' = idle \o <<Finished(clean), RowBatch>>
    /\ pc' = "posted"
    /\ UNCHANGED <<workerFrame, stop, done, sent, clean, planVars, stale>>

\* work_finalize posts the verdict, then raises the done flag and exits.
PostFinished ==
    /\ pc = "finish"
    /\ idle' = Append(idle, Finished(clean))
    /\ pc' = "posted"
    /\ UNCHANGED <<workerFrame, stop, done, sent, clean, planVars, stale>>

Exit ==
    /\ pc = "posted"
    /\ done' = TRUE /\ pc' = "exited"
    /\ UNCHANGED <<workerFrame, stop, sent, clean, planVars, idle, stale>>

-----------------------------------------------------------------------------
Settings ==
    \/ TypeDirs \/ EnterDirs \/ Browse \/ ToggleCheckFs
    \/ DeleteAfterOn \/ DeleteAfterOff \/ Reset \/ EditRules
User ==
    \/ IgnoreRow \/ Rename \/ PreviewClicked \/ SyncClicked \/ DeleteRowClicked
    \/ DialogYes \/ DialogNo \/ ApplyRow \/ StopClicked \/ CloseWindow
Loop ==
    \/ HandleRows \/ HandleIgnore \/ HandleFinished \/ DropMessage
    \/ WaitOver \/ Join \/ Quit
Worker ==
    \/ PreviewCleanup \/ PreviewLoad \/ PreviewTraverse \/ PreviewPlanEntry
    \/ PreviewStopped \/ PreviewComplete \/ PreviewCancel
    \/ TransferStep \/ TransferEnd \/ PostFinished \/ Exit

Next == ~fatal /\ (Settings \/ User \/ Loop \/ Worker)

\* The main loop keeps dispatching, the operating system keeps scheduling the
\* work thread, and an analysis is finite. A transfer need not end by itself (a
\* child process or a device may hang): it is only assumed to notice a stop.
\* Nothing is assumed of the user.
Fairness ==
    /\ WF_vars(~fatal /\ Loop)
    /\ WF_vars(~fatal /\ Worker /\ pc # "transfer")
    /\ WF_vars(~fatal /\ TransferEnd /\ stop)

Spec == Init /\ [][Next]_vars /\ Fairness

-----------------------------------------------------------------------------
WidgetTypes ==
    /\ ui \in {"loop", "waiting", "joining", "quit"}
    /\ stopSens \in BOOLEAN /\ syncSens \in BOOLEAN /\ dirty \in BOOLEAN
    /\ dialog \in {"none", "sync", "delete"}
    /\ deleteAfter \in BOOLEAN /\ destroying \in BOOLEAN

DirTypes ==
    /\ shown \in Pairs \cup {NoPair, BadPair, RootPair}
    /\ entry \in Pairs \cup {BadPair, RootPair}
    /\ base \in Pairs \cup {NoPair}
    /\ listed \in Pairs \cup {NoPair}

ThreadTypes ==
    /\ started \in BOOLEAN /\ joined \in BOOLEAN
    /\ stop \in BOOLEAN /\ done \in BOOLEAN /\ fatal \in BOOLEAN
    /\ pc \in {"none", "cleanup", "load", "traverse", "plan", "cancel",
               "transfer", "finish", "posted", "exited"}
    /\ job \in {"none", "preview", "sync", "tasks"}
    /\ clean \in BOOLEAN

PlanTypes ==
    /\ plan \in {"empty", "partial", "complete"} /\ planDeletes \in BOOLEAN
    /\ stale \subseteq Inputs

TypeOK ==
    /\ WidgetTypes /\ DirTypes /\ ThreadTypes /\ PlanTypes
    /\ sent \in 0..MaxBatches
    /\ idle \in Seq(Messages)

-----------------------------------------------------------------------------
(* Properties that hold whatever the user does.                            *)

\* work_thread_start never meets its two "Internal error" exits: no handler
\* starts work while a thread is unjoined or the window is going away.
NeverFatal == ~fatal

\* Whenever "Apply Changes" can be pressed, the transfer and deletion arrays
\* are either the complete result of an undisturbed analysis or empty.
SyncGate == syncSens => plan = "empty" \/ (plan = "complete" /\ ~dirty)

\* preview_dirty is only cleared by the verdict of an analysis that ran to its
\* end; no transfer, no stopped or failed analysis clears it.
DirtyClearedByAnalysis ==
    [][dirty /\ ~dirty' => plan = "complete" /\ job = "preview"]_vars

\* The verdict of a work thread is the last thing it says: when it is handled
\* every row change of that thread is on screen.
VerdictComesLast ==
    \A i \in 1..Len(idle) :
        idle[i].type = "finished" => \A j \in (i + 1)..Len(idle) : idle[j].type # "rows"

\* The process never leaves its main loop with a work thread still running.
NoOrphanThread == ui = "quit" => pc \in {"none", "exited"}

\* A stop request ends the running work, the thread is joined and the interface
\* is given back.
StopEnds == (Active /\ stop) ~> (~Active /\ (destroying \/ ~stopSens))
\* An analysis ends, stopped or not.
AnalysisEnds == (Active /\ job = "preview") ~> ~Active
\* A closed window always leads to the end of the process.
CloseEnds == destroying ~> ui = "quit"

-----------------------------------------------------------------------------
(* The inductive invariant behind the properties above, in named parts.    *)

Reporting == {i \in 1..Len(idle) : idle[i].type = "finished"}

\* Where the main thread can be, and what it then knows of the work thread.
MainInv ==
    /\ ui = "waiting" => destroying /\ Active
    /\ ui = "joining" => Active
    /\ ui = "quit" => destroying
    /\ destroying /\ ui \in {"loop", "quit"} => ~Active
    /\ dialog # "none" => ~destroying /\ ~Active

\* The stop button tells whether work runs; it and the sync button exclude
\* each other.
ButtonInv ==
    /\ ~destroying /\ ui = "loop" => (stopSens <=> Active)
    /\ ~destroying /\ ui = "joining" => ~stopSens /\ pc \in {"posted", "exited"}
    /\ syncSens => ~stopSens /\ pc \in {"none", "posted", "exited"}

\* What the work thread is doing, and what its verdict is worth.
ThreadInv ==
    /\ pc \notin {"none", "exited"} => Active
    /\ pc \in {"cleanup", "load", "traverse", "plan", "cancel"} => job = "preview"
    /\ pc = "transfer" => job # "preview"
    /\ clean => plan = "complete" /\ job = "preview" /\ pc \in {"finish", "posted", "exited"}
    /\ job = "preview" /\ ~clean /\ pc \in {"finish", "posted", "exited"} => plan = "empty"

\* At most one verdict is pending, the one of the current thread, and in an
\* open window that thread has not been joined yet.
VerdictInv ==
    \A i \in Reporting :
        /\ idle[i].clean = clean
        /\ pc \in {"posted", "exited"}
        /\ ~destroying => Active /\ ui # "joining"
        /\ \A j \in Reporting : i = j

\* The invariant that makes the control core safe: buttons, main thread, work
\* thread and pending verdict agree in every reachable state.
Consistent ==
    /\ MainInv /\ ButtonInv /\ ThreadInv /\ VerdictInv
    /\ NeverFatal /\ VerdictComesLast /\ SyncGate

-----------------------------------------------------------------------------
(* Properties of a user who avoids the operations that break them.         *)

StartsSync == job' = "sync" /\ pc' = "transfer" /\ pc # "transfer"

\* A full transfer starts from a plan none of whose inputs has changed since
\* the analysis read it.
SyncUsesFreshPlan == [][StartsSync /\ plan # "empty" => stale = {}]_vars

\* The deletions of a plan are executed only while delete-after is on.
SyncHonoursDeleteAfter == [][StartsSync /\ planDeletes => deleteAfter]_vars

\* The directories the confirmation named are the directories synchronised.
SyncNamesItsDirs == [][StartsSync /\ plan # "empty" => shown = base]_vars

\* Row operations act on the directories their rows were read from.
RowsActOnListedDirs ==
    [][job' = "tasks" /\ pc' = "transfer" /\ pc # "transfer" => listed = base]_vars

\* While the work thread builds rows the main loop has no message to handle
\* that reads or rewrites them.
WritesRows == pc \in {"cleanup", "load", "traverse", "plan", "cancel"}
InterfaceBlocked ==
    WritesRows /\ ~destroying =>
        \A i \in 1..Len(idle) : idle[i].type \notin {"rows", "ignore"}

\* What the running work reads is not changed under it by the interface.
SettingsStable == [][stopSens /\ stopSens' => UNCHANGED <<base, deleteAfter>>]_vars

\* The control core implements WorkSession: the verdict of the last analysis is
\* the abstract list, valid as long as preview_dirty is false.
SessionWork == IF Active THEN job ELSE "none"
SessionList ==
    IF destroying THEN "none"
    ELSE IF Active /\ job = "preview" THEN "checking"
    ELSE IF plan = "empty" THEN "none"
    ELSE IF dirty THEN "outdated" ELSE "valid"
Session == INSTANCE WorkSession WITH
    open <- ~destroying, work <- SessionWork, list <- SessionList
ImplementsSession == Session!SSpec
=============================================================================
