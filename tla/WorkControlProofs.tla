-------------------------- MODULE WorkControlProofs --------------------------
(***************************************************************************)
(* Theorems about WorkControl, for every set of directory pairs, every set *)
(* of user moves and every bound: the interface, the main thread, the work *)
(* thread and the pending verdict agree, so the gate is never open on an   *)
(* incomplete plan and no thread is started twice or left behind.          *)
(***************************************************************************)
EXTENDS WorkControl, TLAPS

USE DEF vars, uiVars, dialogVars, dirVars, threadVars, planVars

-----------------------------------------------------------------------------
(* The queue of idle callbacks.                                            *)

\* What g_idle_add leaves in the queue: the old messages in order, then m.
LEMMA AppendFacts ==
    ASSUME NEW q \in Seq(Messages), NEW m \in Messages
    PROVE  /\ Append(q, m) \in Seq(Messages)
           /\ Len(Append(q, m)) = Len(q) + 1
           /\ \A i \in 1..Len(q) : Append(q, m)[i] = q[i]
           /\ Append(q, m)[Len(q) + 1] = m
  OBVIOUS

\* What the main loop leaves when it takes the oldest message.
LEMMA TailFacts ==
    ASSUME NEW q \in Seq(Messages), q # <<>>
    PROVE  /\ Tail(q) \in Seq(Messages)
           /\ Len(Tail(q)) = Len(q) - 1
           /\ \A i \in 1..Len(Tail(q)) : i + 1 \in 1..Len(q) /\ Tail(q)[i] = q[i + 1]
           /\ 1 \in 1..Len(q) /\ Head(q) = q[1] /\ q[1] \in Messages
  OBVIOUS

\* The three kinds of message.
LEMMA MessageFacts ==
    /\ RowBatch \in Messages /\ NewPattern \in Messages
    /\ RowBatch.type = "rows" /\ NewPattern.type = "ignore"
    /\ \A c \in BOOLEAN : /\ Finished(c) \in Messages
                          /\ Finished(c).type = "finished" /\ Finished(c).clean = c
  BY DEF RowBatch, NewPattern, Finished, Messages

-----------------------------------------------------------------------------
(* Types.                                                                  *)

LEMMA TypeInit == Init => TypeOK
<1> SUFFICES ASSUME Init PROVE TypeOK  OBVIOUS
<1>1. WidgetTypes  BY DEF Init, WidgetTypes
<1>2. DirTypes  BY DEF Init, DirTypes
<1>3. ThreadTypes  BY DEF Init, ThreadTypes
<1>4. PlanTypes  BY DEF Init, PlanTypes
<1>5. sent \in 0..MaxBatches  BY BoundsAssumption DEF Init
<1>6. idle \in Seq(Messages)  BY DEF Init
<1> QED  BY <1>1, <1>2, <1>3, <1>4, <1>5, <1>6 DEF TypeOK

\* work_thread_start keeps the flags of the thread in their types.
LEMMA StartTypes ==
    ASSUME TypeOK, NEW j \in {"preview", "sync", "tasks"}, StartWork(j)
    PROVE  ThreadTypes' /\ sent' \in 0..MaxBatches
<1>1. sent' \in 0..MaxBatches  BY BoundsAssumption DEF StartWork, TypeOK
<1>2. ThreadTypes'
  <2>1. CASE destroying \/ Active  BY <2>1 DEF StartWork, TypeOK, ThreadTypes
  <2>2. CASE ~(destroying \/ Active)  BY <2>2 DEF StartWork, TypeOK, ThreadTypes
  <2> QED  BY <2>1, <2>2
<1> QED  BY <1>1, <1>2

\* A settings operation keeps every variable in its type.
LEMMA SettingsTypes == TypeOK /\ Settings => TypeOK'
<1> SUFFICES ASSUME TypeOK, Settings PROVE TypeOK'  OBVIOUS
<1> USE DEF TypeOK, Settings, TypeDirs, EnterDirs, Browse, ToggleCheckFs, DeleteAfterOn,
           DeleteAfterOff, Reset, EditRules, Invalidate, SettleDirs, StaleDirs
<1>1. WidgetTypes'  BY DEF WidgetTypes
<1>2. DirTypes'  BY DEF DirTypes
<1>3. ThreadTypes'  BY DEF ThreadTypes
<1>4. PlanTypes'  BY DEF PlanTypes, Inputs
<1>5. sent' \in 0..MaxBatches  OBVIOUS
<1>6. idle' \in Seq(Messages)  OBVIOUS
<1> QED  BY <1>1, <1>2, <1>3, <1>4, <1>5, <1>6

\* So do the operations on rows, on the work thread and on the window.
LEMMA UserTypes == TypeOK /\ User => TypeOK'
<1> SUFFICES ASSUME TypeOK, User PROVE TypeOK'  OBVIOUS
<1> USE DEF TypeOK, User, IgnoreRow, Rename, PreviewClicked, SyncClicked, DeleteRowClicked,
           DialogYes, DialogNo, ApplyRow, StopClicked, CloseWindow,
           Invalidate, Protect, StaleDirs
<1>1. WidgetTypes'  BY DEF WidgetTypes, ThreadTypes
<1>2. DirTypes'  BY DEF DirTypes
<1>3. ThreadTypes'
  <2>1. \/ \E j \in {"preview", "sync", "tasks"} : StartWork(j)
        \/ UNCHANGED <<started, joined, done, fatal, pc, job, clean>> /\ stop' \in {stop, TRUE}
    <3>1. CASE PreviewClicked  BY <3>1
    <3>2. CASE DialogYes  BY <3>2
    <3>3. CASE ApplyRow  BY <3>3
    <3>4. CASE ~PreviewClicked /\ ~DialogYes /\ ~ApplyRow
      <4> HIDE DEF PreviewClicked, DialogYes, ApplyRow
      <4> QED  BY <3>4
    <3> QED  BY <3>1, <3>2, <3>3, <3>4
  <2>2. ThreadTypes  OBVIOUS
  <2> HIDE DEF User, TypeOK
  <2>3. CASE \E j \in {"preview", "sync", "tasks"} : StartWork(j)  BY <2>3, StartTypes
  <2>4. CASE UNCHANGED <<started, joined, done, fatal, pc, job, clean>> /\ stop' \in {stop, TRUE}
    BY <2>2, <2>4 DEF ThreadTypes
  <2> QED  BY <2>1, <2>3, <2>4
<1>4. PlanTypes'  BY DEF PlanTypes, Inputs
<1>5. sent' \in 0..MaxBatches  BY StartTypes
<1>6. idle' \in Seq(Messages)  BY AppendFacts, MessageFacts
<1> QED  BY <1>1, <1>2, <1>3, <1>4, <1>5, <1>6

\* So does every step of the main loop.
LEMMA LoopTypes == TypeOK /\ Loop => TypeOK'
<1> SUFFICES ASSUME TypeOK, Loop PROVE TypeOK'  OBVIOUS
<1> USE DEF TypeOK, Loop, HandleRows, HandleIgnore, HandleFinished, DropMessage, WaitOver,
           Join, Quit, Invalidate
<1>1. WidgetTypes'  BY TailFacts DEF WidgetTypes, ThreadTypes, Messages
<1>2. DirTypes'  BY DEF DirTypes
<1>3. ThreadTypes'  BY DEF ThreadTypes
<1>4. PlanTypes'  BY DEF PlanTypes, Inputs
<1>5. sent' \in 0..MaxBatches  OBVIOUS
<1>6. idle' \in Seq(Messages)  BY TailFacts
<1> QED  BY <1>1, <1>2, <1>3, <1>4, <1>5, <1>6

\* The work thread never touches the interface.
LEMMA WorkerFrame == Worker => UNCHANGED workerFrame
  BY DEF Worker, PreviewCleanup, PreviewLoad, PreviewTraverse, PreviewPlanEntry,
           PreviewStopped, PreviewComplete, PreviewCancel, TransferStep,
           TransferEnd, PostFinished, Exit

\* So does every step of the work thread.
LEMMA WorkerTypes == TypeOK /\ Worker => TypeOK'
<1> SUFFICES ASSUME TypeOK, Worker PROVE TypeOK'  OBVIOUS
<1>1. WidgetTypes'  BY WorkerFrame DEF workerFrame, TypeOK, WidgetTypes
<1> USE DEF TypeOK, Worker, PreviewCleanup, PreviewLoad, PreviewTraverse, PreviewPlanEntry,
           PreviewStopped, PreviewComplete, PreviewCancel, TransferStep,
           TransferEnd, PostFinished, Exit
<1>2. DirTypes'
  <2>1. (listed \in Pairs \cup {NoPair})'
    <3>1. base \in Pairs \cup {NoPair} /\ listed \in Pairs \cup {NoPair}  BY DEF DirTypes
    <3> QED  BY <3>1
  <2> QED  BY <2>1, WorkerFrame DEF workerFrame, DirTypes
<1>3. ThreadTypes'  BY WorkerFrame DEF workerFrame, threadFlags, ThreadTypes
<1>4. PlanTypes'  BY DEF PlanTypes, Inputs, WidgetTypes
<1>5. sent' \in 0..MaxBatches
  <2>1. sent' = sent \/ (sent' = sent + 1 /\ sent < MaxBatches)  OBVIOUS
  <2> QED  BY <2>1, BoundsAssumption
<1>6. idle' \in Seq(Messages)
  <2>1. idle' = idle \/ idle' = Append(idle, RowBatch) \/ idle' = Append(idle, Finished(clean))
    OBVIOUS
  <2> QED  BY <2>1, AppendFacts, MessageFacts DEF ThreadTypes
<1> QED  BY <1>1, <1>2, <1>3, <1>4, <1>5, <1>6

LEMMA TypeStep == TypeOK /\ [Next]_vars => TypeOK'
<1> SUFFICES ASSUME TypeOK, [Next]_vars PROVE TypeOK'
  OBVIOUS
<1>1. CASE UNCHANGED vars  BY <1>1 DEF TypeOK, WidgetTypes, DirTypes, ThreadTypes, PlanTypes
<1>2. CASE Next  BY <1>2, SettingsTypes, UserTypes, LoopTypes, WorkerTypes DEF Next
<1> QED  BY <1>1, <1>2

\* Every variable keeps its type: in particular the batches a transfer posts
\* stay within their bound and only the three kinds of message are queued.
THEOREM TypeCorrect == Spec => []TypeOK
  BY TypeInit, TypeStep, PTL DEF Spec

-----------------------------------------------------------------------------
(* Consistency of buttons, main thread, work thread and pending verdict.   *)

LEMMA ConsistentInit == Init => Consistent
  BY DEF Init, Consistent, MainInv, ButtonInv, ThreadInv, VerdictInv, Reporting,
         NeverFatal, VerdictComesLast, SyncGate, Active

\* In an open window without a live thread no verdict is pending.
LEMMA NothingReported ==
    ASSUME Consistent, ~destroying, ~Active
    PROVE  Reporting = {}
  BY DEF Consistent, VerdictInv

\* A working thread has not reported, and the sync button is not usable.
LEMMA WorkingFacts ==
    ASSUME TypeOK, Consistent, pc \notin {"none", "posted", "exited"}
    PROVE  /\ Active /\ Reporting = {} /\ ~syncSens /\ dialog = "none"
           /\ ~destroying => ui = "loop"
  BY DEF Consistent, VerdictInv, MainInv, ButtonInv, ThreadInv, TypeOK, WidgetTypes

\* The part of the invariant that does not mention the queue.
StateInv == MainInv /\ ButtonInv /\ ThreadInv /\ NeverFatal /\ SyncGate
QueueInv == VerdictInv /\ VerdictComesLast

\* A step that at most invalidates the preview.
Quiet ==
    /\ UNCHANGED <<ui, stopSens, dialog, destroying, threadVars, plan>>
    /\ Invalidate \/ UNCHANGED <<dirty, syncSens>>

LEMMA QuietKeepsState == StateInv /\ Quiet => StateInv'
<1> SUFFICES ASSUME StateInv, Quiet PROVE StateInv'  OBVIOUS
<1> USE DEF StateInv, Quiet, Active
<1>1. MainInv'  BY DEF MainInv
<1>2. ButtonInv'
  <2>1. syncSens' => syncSens  BY DEF Invalidate
  <2> QED  BY <2>1 DEF ButtonInv
<1>3. ThreadInv'  BY DEF ThreadInv
<1>4. NeverFatal'  BY DEF NeverFatal
<1>5. SyncGate'  BY DEF SyncGate, ButtonInv, Invalidate
<1> QED  BY <1>1, <1>2, <1>3, <1>4, <1>5

\* What the queue part of the invariant reads besides the queue.
QueueFrame == UNCHANGED <<ui, destroying, started, joined, pc, clean>>

LEMMA SameQueue == QueueInv /\ QueueFrame /\ UNCHANGED idle => QueueInv'
  BY DEF QueueInv, QueueFrame, VerdictInv, VerdictComesLast, Reporting, Active

\* Taking a message that is no verdict disturbs nothing.
LEMMA TakeOrdinary ==
    ASSUME TypeOK, QueueInv, QueueFrame, idle # <<>>, Head(idle).type # "finished",
           idle' = Tail(idle)
    PROVE  QueueInv'
<1> DEFINE n == Len(idle)
<1>1. idle \in Seq(Messages)  BY DEF TypeOK
<1>2. /\ Len(idle') = n - 1 /\ n \in Nat
      /\ \A i \in 1..Len(idle') : i + 1 \in 1..n /\ idle'[i] = idle[i + 1]
  BY <1>1, TailFacts
<1>3. \A i \in Reporting' : i \in Nat /\ i + 1 \in Reporting /\ idle'[i] = idle[i + 1]
  BY <1>2 DEF Reporting
<1>4. VerdictInv'
  <2> SUFFICES ASSUME NEW i \in Reporting'
               PROVE  /\ idle'[i].clean = clean' /\ (pc \in {"posted", "exited"})'
                      /\ (~destroying => Active /\ ui # "joining")'
                      /\ \A j \in Reporting' : i = j
    BY DEF VerdictInv
  <2>1. i + 1 \in Reporting /\ idle'[i] = idle[i + 1]  BY <1>3
  <2>2. /\ idle[i + 1].clean = clean /\ pc \in {"posted", "exited"}
        /\ ~destroying => Active /\ ui # "joining"
        /\ \A j \in Reporting : i + 1 = j
    BY <2>1 DEF QueueInv, VerdictInv
  <2>3. \A j \in Reporting' : i = j  BY <1>3, <2>2
  <2> QED  BY <2>1, <2>2, <2>3 DEF QueueFrame, Active
<1>5. VerdictComesLast'
  <2> SUFFICES ASSUME NEW i \in 1..Len(idle'), idle'[i].type = "finished",
                      NEW j \in (i + 1)..Len(idle')
               PROVE  idle'[j].type # "rows"
    BY DEF VerdictComesLast
  <2>1. i + 1 \in 1..n /\ j + 1 \in ((i + 1) + 1)..n /\ idle'[i] = idle[i + 1] /\ idle'[j] = idle[j + 1]
    BY <1>2
  <2> QED  BY <2>1 DEF QueueInv, VerdictComesLast
<1> QED  BY <1>4, <1>5 DEF QueueInv

\* Taking the verdict leaves a queue without verdicts.
LEMMA TakeVerdict ==
    ASSUME TypeOK, QueueInv, idle # <<>>, Head(idle).type = "finished", idle' = Tail(idle)
    PROVE  /\ Reporting' = {} /\ QueueInv'
           /\ Head(idle).clean = clean /\ pc \in {"posted", "exited"}
           /\ ~destroying => Active
           /\ \A i \in 1..Len(idle') : idle'[i].type # "rows"
<1>1. idle \in Seq(Messages)  BY DEF TypeOK
<1>2. /\ Len(idle') = Len(idle) - 1 /\ Len(idle) \in Nat
      /\ \A i \in 1..Len(idle') : i + 1 \in 1..Len(idle) /\ idle'[i] = idle[i + 1]
      /\ 1 \in 1..Len(idle) /\ Head(idle) = idle[1]
  BY <1>1, TailFacts
<1>3. 1 \in Reporting  BY <1>2 DEF Reporting
<1>4. Reporting' = {}
  <2> SUFFICES ASSUME NEW i \in Reporting' PROVE FALSE  OBVIOUS
  <2>1. i \in 1..Len(idle') /\ idle'[i].type = "finished"  BY DEF Reporting
  <2>2. i + 1 \in Reporting /\ i + 1 # 1  BY <1>2, <2>1 DEF Reporting
  <2> QED  BY <1>3, <2>2 DEF QueueInv, VerdictInv
<1>5. QueueInv'  BY <1>4 DEF QueueInv, VerdictInv, VerdictComesLast, Reporting
<1>6. \A i \in 1..Len(idle') : idle'[i].type # "rows"
  <2> SUFFICES ASSUME NEW i \in 1..Len(idle') PROVE idle'[i].type # "rows"  OBVIOUS
  <2>1. i + 1 \in (1 + 1)..Len(idle) /\ idle'[i] = idle[i + 1] /\ idle[1].type = "finished"
    BY <1>2
  <2> QED  BY <1>2, <2>1 DEF QueueInv, VerdictComesLast
<1> QED  BY <1>2, <1>3, <1>4, <1>5, <1>6 DEF QueueInv, VerdictInv

\* A queue without verdicts stays one when an ordinary message is queued,
\* whatever else the step does.
LEMMA PostOrdinary ==
    ASSUME TypeOK, Reporting = {}, NEW m \in Messages, m.type # "finished",
           idle' = Append(idle, m)
    PROVE  QueueInv' /\ Reporting' = {}
<1>1. idle \in Seq(Messages)  BY DEF TypeOK
<1>2. Reporting' = {}  BY <1>1, AppendFacts DEF Reporting
<1> QED  BY <1>2 DEF QueueInv, VerdictInv, VerdictComesLast, Reporting

\* Without verdicts in the queue the queue part holds, whatever else changes.
LEMMA NoVerdict ==
    ASSUME Reporting = {}, UNCHANGED idle
    PROVE  QueueInv' /\ Reporting' = {}
  BY DEF Reporting, QueueInv, VerdictInv, VerdictComesLast

-----------------------------------------------------------------------------
(* One lemma per group of actions: the invariant is preserved.             *)

\* With the interface released, no work runs and nothing is pending.
LEMMA ReleasedFacts ==
    ASSUME TypeOK, Consistent, UserTurn, ~stopSens
    PROVE  ~destroying /\ ~Active /\ ui = "loop" /\ dialog = "none" /\ Reporting = {}
  BY NothingReported DEF Consistent, ButtonInv, UserTurn, TypeOK, WidgetTypes

LEMMA SettingsKeep == TypeOK /\ Consistent /\ Settings => Consistent'
<1> SUFFICES ASSUME TypeOK, Consistent, Settings PROVE Consistent'  OBVIOUS
<1>1. Quiet /\ QueueFrame /\ UNCHANGED idle
  BY DEF Quiet, QueueFrame, Settings, TypeDirs, EnterDirs, Browse, ToggleCheckFs,
         DeleteAfterOn, DeleteAfterOff, Reset, EditRules, Invalidate
<1> QED  BY <1>1, QuietKeepsState, SameQueue DEF Consistent, StateInv, QueueInv

\* Work started from an open, released window.
LEMMA StartKeeps ==
    ASSUME TypeOK, Consistent, NEW j \in {"preview", "sync", "tasks"},
           ui = "loop", ~destroying, ~Active, Protect, StartWork(j),
           dialog' = "none", UNCHANGED <<ui, destroying, plan, idle>>
    PROVE  Consistent'
<1>1. QueueInv'  BY NothingReported, NoVerdict
<1> USE DEF Protect, StartWork, Active
<1>2. MainInv'  BY DEF MainInv
<1>3. ButtonInv'  BY DEF ButtonInv
<1>4. ThreadInv'  BY DEF ThreadInv
<1>5. NeverFatal'  BY DEF NeverFatal, Consistent
<1>6. SyncGate'  BY DEF SyncGate
<1> QED  BY <1>1, <1>2, <1>3, <1>4, <1>5, <1>6 DEF Consistent, QueueInv

LEMMA UserKeep == TypeOK /\ Consistent /\ User => Consistent'
<1> SUFFICES ASSUME TypeOK, Consistent, User PROVE Consistent'  OBVIOUS
<1>1. CASE IgnoreRow
  <2>1. Quiet /\ Reporting = {}  BY <1>1, ReleasedFacts DEF IgnoreRow, Released, Quiet
  <2>2. QueueInv'  BY <1>1, <2>1, PostOrdinary, MessageFacts DEF IgnoreRow
  <2> QED  BY <2>1, <2>2, QuietKeepsState DEF Consistent, StateInv, QueueInv
<1>2. CASE Rename
  <2>1. Quiet /\ Reporting = {}  BY <1>2, ReleasedFacts DEF Rename, Released, Quiet, Invalidate
  <2>2. QueueInv'  BY <1>2, <2>1, PostOrdinary, MessageFacts DEF Rename
  <2> QED  BY <2>1, <2>2, QuietKeepsState DEF Consistent, StateInv, QueueInv
<1>3. CASE PreviewClicked
  <2>1. CASE Quiet /\ QueueFrame /\ UNCHANGED idle  
    BY <2>1, QuietKeepsState, SameQueue DEF Consistent, StateInv, QueueInv
  <2>2. CASE StartWork("preview") /\ Protect
    BY <1>3, <2>2, StartKeeps, ReleasedFacts DEF PreviewClicked, Released
  <2> QED  BY <1>3, <2>1, <2>2 DEF PreviewClicked, Quiet, QueueFrame, Invalidate
<1>4. CASE SyncClicked \/ DeleteRowClicked
  <2>1. ~destroying /\ ~Active
    BY <1>4, ReleasedFacts DEF SyncClicked, DeleteRowClicked, Released, Consistent, ButtonInv
  <2> USE <1>4, <2>1 DEF SyncClicked, DeleteRowClicked, Consistent, Active
  <2>2. MainInv'  BY DEF MainInv
  <2>3. ButtonInv'  BY DEF ButtonInv
  <2>4. ThreadInv'  BY DEF ThreadInv
  <2>5. NeverFatal' /\ SyncGate'  BY DEF NeverFatal, SyncGate
  <2>6. QueueInv'  BY SameQueue DEF QueueFrame, QueueInv
  <2> QED  BY <2>2, <2>3, <2>4, <2>5, <2>6 DEF Consistent, QueueInv
<1>5. CASE DialogYes
  <2>1. ~destroying /\ ~Active  BY <1>5 DEF DialogYes, Consistent, MainInv
  <2> QED  BY <1>5, <2>1, StartKeeps DEF DialogYes
<1>6. CASE DialogNo \/ StopClicked
  <2> USE <1>6 DEF DialogNo, StopClicked, Consistent, Active
  <2>1. MainInv'  BY DEF MainInv
  <2>2. ButtonInv'  BY DEF ButtonInv
  <2>3. ThreadInv'  BY DEF ThreadInv
  <2>4. NeverFatal' /\ SyncGate'  BY DEF NeverFatal, SyncGate
  <2>5. QueueInv'  BY SameQueue DEF QueueFrame, QueueInv
  <2> QED  BY <2>1, <2>2, <2>3, <2>4, <2>5 DEF Consistent, QueueInv
<1>7. CASE ApplyRow
  BY <1>7, StartKeeps, ReleasedFacts DEF ApplyRow, Released, UserTurn
<1>8. CASE CloseWindow
  <2> USE <1>8 DEF CloseWindow, Consistent, Active
  <2>1. MainInv'  BY DEF MainInv, UserTurn
  <2>2. ButtonInv'  BY DEF ButtonInv
  <2>3. ThreadInv'  BY DEF ThreadInv
  <2>4. NeverFatal' /\ SyncGate'  BY DEF NeverFatal, SyncGate
  <2>5. VerdictInv'  BY DEF VerdictInv, Reporting
  <2>6. VerdictComesLast'  BY DEF VerdictComesLast
  <2> QED  BY <2>1, <2>2, <2>3, <2>4, <2>5, <2>6
<1> QED  BY <1>1, <1>2, <1>3, <1>4, <1>5, <1>6, <1>7, <1>8 DEF User

LEMMA LoopKeeps == TypeOK /\ Consistent /\ Loop => Consistent'
<1> SUFFICES ASSUME TypeOK, Consistent, Loop PROVE Consistent'  OBVIOUS
<1>0. StateInv /\ QueueInv  BY DEF Consistent, StateInv, QueueInv
<1>1. CASE HandleRows \/ HandleIgnore
  <2>1. Quiet  BY <1>1 DEF HandleRows, HandleIgnore, Quiet, Invalidate
  <2>2. QueueInv'
    BY <1>0, <1>1, TakeOrdinary DEF HandleRows, HandleIgnore, QueueFrame
  <2> QED  BY <1>0, <2>1, <2>2, QuietKeepsState DEF Consistent, StateInv, QueueInv
<1>2. CASE HandleFinished
  <2>1. /\ Reporting' = {} /\ QueueInv' /\ Active
        /\ Head(idle).clean = clean /\ pc \in {"posted", "exited"}
    BY <1>0, <1>2, TakeVerdict DEF HandleFinished
  <2> USE <1>2, <2>1 DEF HandleFinished, Active, Consistent
  <2>2. MainInv'  BY DEF MainInv
  <2>3. ButtonInv'  BY DEF ButtonInv
  <2>4. ThreadInv'  BY DEF ThreadInv
  <2>5. NeverFatal'  BY DEF NeverFatal
  <2>6. SyncGate'  BY DEF SyncGate, ThreadInv
  <2> QED  BY <2>2, <2>3, <2>4, <2>5, <2>6 DEF QueueInv
<1>3. CASE DropMessage
  <2>1. QueueInv'
    <3>1. CASE Head(idle).type = "finished"  BY <1>0, <1>3, <3>1, TakeVerdict DEF DropMessage
    <3>2. CASE Head(idle).type # "finished"
      <4>1. ui = "loop" /\ ui' = "loop"  BY <1>3, <3>2 DEF DropMessage
      <4> QED  BY <1>0, <1>3, <3>2, <4>1, TakeOrdinary DEF DropMessage, QueueFrame
    <3> QED  BY <3>1, <3>2
  <2> USE <1>3 DEF DropMessage, Active, Consistent
  <2>2. MainInv'  BY DEF MainInv
  <2>3. ButtonInv'  BY DEF ButtonInv
  <2>4. ThreadInv'  BY DEF ThreadInv
  <2>5. NeverFatal' /\ SyncGate'  BY DEF NeverFatal, SyncGate
  <2> QED  BY <2>1, <2>2, <2>3, <2>4, <2>5 DEF QueueInv
<1>4. CASE WaitOver \/ Quit
  <2> USE <1>4 DEF WaitOver, Quit, Active, Consistent
  <2>1. MainInv'  BY DEF MainInv
  <2>2. ButtonInv'  BY DEF ButtonInv, MainInv
  <2>3. ThreadInv'  BY DEF ThreadInv
  <2>4. NeverFatal' /\ SyncGate'  BY DEF NeverFatal, SyncGate
  <2>5. VerdictInv'  BY DEF VerdictInv, Reporting, MainInv
  <2>6. VerdictComesLast'  BY DEF VerdictComesLast
  <2> QED  BY <2>1, <2>2, <2>3, <2>4, <2>5, <2>6
<1>5. CASE Join
  <2> USE <1>5 DEF Join, Active, Consistent
  <2>1. MainInv'  BY DEF MainInv
  <2>2. ButtonInv'  BY DEF ButtonInv
  <2>3. ThreadInv'  BY DEF ThreadInv
  <2>4. NeverFatal' /\ SyncGate'  BY DEF NeverFatal, SyncGate
  <2>5. VerdictInv'  BY DEF VerdictInv, Reporting
  <2>6. VerdictComesLast'  BY DEF VerdictComesLast
  <2> QED  BY <2>1, <2>2, <2>3, <2>4, <2>5, <2>6
<1> QED  BY <1>1, <1>2, <1>3, <1>4, <1>5 DEF Loop

LEMMA WorkerKeeps == TypeOK /\ Consistent /\ Worker => Consistent'
<1> SUFFICES ASSUME TypeOK, Consistent, Worker PROVE Consistent'  OBVIOUS
<1>0. StateInv /\ QueueInv  BY DEF Consistent, StateInv, QueueInv
<1>1. UNCHANGED workerFrame  BY WorkerFrame
<1>2. CASE Exit
  <2>1. VerdictInv'  BY <1>1, <1>2 DEF Exit, workerFrame, threadFlags, Consistent, VerdictInv, Reporting, Active
  <2>2. VerdictComesLast'  BY <1>2 DEF Exit, Consistent, VerdictComesLast
  <2> USE <1>1, <1>2 DEF Exit, workerFrame, threadFlags, Consistent, Active
  <2>3. MainInv'  BY DEF MainInv
  <2>4. ButtonInv'  BY DEF ButtonInv
  <2>5. ThreadInv'  BY DEF ThreadInv
  <2>6. NeverFatal' /\ SyncGate'  BY DEF NeverFatal, SyncGate
  <2> QED  BY <2>1, <2>2, <2>3, <2>4, <2>5, <2>6
<1>3. CASE PostFinished
  <2>1. Active /\ Reporting = {} /\ ~syncSens /\ dialog = "none" /\ (~destroying => ui = "loop")
    BY <1>3, WorkingFacts DEF PostFinished
  <2>2. /\ Len(idle) \in Nat /\ Len(idle') = Len(idle) + 1
        /\ \A i \in 1..Len(idle) : idle'[i] = idle[i]
        /\ idle'[Len(idle) + 1].type = "finished" /\ idle'[Len(idle) + 1].clean = clean
    BY <1>3, AppendFacts, MessageFacts DEF PostFinished, TypeOK, ThreadTypes
  <2>3. Reporting' = {Len(idle) + 1}  BY <2>1, <2>2 DEF Reporting
  <2>4. VerdictInv'
    BY <1>1, <1>3, <2>1, <2>2, <2>3 DEF PostFinished, workerFrame, threadFlags, VerdictInv, Active
  <2>5. VerdictComesLast'  BY <2>2, <2>3 DEF Reporting, VerdictComesLast
  <2> USE <1>1, <1>3, <2>1 DEF PostFinished, workerFrame, threadFlags, Consistent, Active
  <2>6. MainInv'  BY DEF MainInv
  <2>7. ButtonInv'  BY DEF ButtonInv
  <2>8. ThreadInv'  BY DEF ThreadInv
  <2>9. NeverFatal' /\ SyncGate'  BY DEF NeverFatal, SyncGate
  <2> QED  BY <2>4, <2>5, <2>6, <2>7, <2>8, <2>9
<1>4. CASE Worker /\ ~Exit /\ ~PostFinished
  <2>1. pc \notin {"none", "posted", "exited"}
    BY <1>4 DEF Worker, PreviewCleanup, PreviewLoad, PreviewTraverse, PreviewPlanEntry,
       PreviewStopped, PreviewComplete, PreviewCancel, TransferStep, TransferEnd
  <2>2. Active /\ Reporting = {} /\ ~syncSens /\ dialog = "none" /\ (~destroying => ui = "loop")
    BY <2>1, WorkingFacts
  <2>3. QueueInv'
    <3>1. CASE TransferStep  BY <3>1, <2>2, PostOrdinary, MessageFacts DEF TransferStep
    <3>2. CASE ~TransferStep
      <4>1. UNCHANGED idle
        BY <1>4, <3>2 DEF Worker, PreviewCleanup, PreviewLoad, PreviewTraverse,
           PreviewPlanEntry, PreviewStopped, PreviewComplete, PreviewCancel, TransferEnd
      <4> QED  BY <2>2, <4>1, NoVerdict
    <3> QED  BY <3>1, <3>2
  <2>4. ThreadInv'
    <3> USE DEF ThreadInv, Consistent, workerFrame, threadFlags, Active
    <3>1. CASE PreviewCleanup  BY <1>1, <3>1 DEF PreviewCleanup
    <3>2. CASE PreviewLoad  BY <1>1, <3>2 DEF PreviewLoad
    <3>3. CASE PreviewTraverse  BY <1>1, <3>3 DEF PreviewTraverse
    <3>4. CASE PreviewPlanEntry  BY <1>1, <3>4 DEF PreviewPlanEntry
    <3>5. CASE PreviewStopped  BY <1>1, <3>5 DEF PreviewStopped
    <3>6. CASE PreviewComplete  BY <1>1, <3>6 DEF PreviewComplete
    <3>7. CASE PreviewCancel  BY <1>1, <3>7 DEF PreviewCancel
    <3>8. CASE TransferStep  BY <1>1, <3>8 DEF TransferStep
    <3>9. CASE TransferEnd  BY <1>1, <3>9 DEF TransferEnd
    <3> QED
      BY <1>4, <3>1, <3>2, <3>3, <3>4, <3>5, <3>6, <3>7, <3>8, <3>9 DEF Worker
  <2> USE <1>1, <2>2 DEF workerFrame, threadFlags, Consistent, Active
  <2>5. MainInv'  BY DEF MainInv
  <2>6. ButtonInv'  BY DEF ButtonInv
  <2>7. NeverFatal' /\ SyncGate'  BY DEF NeverFatal, SyncGate
  <2> QED  BY <2>3, <2>4, <2>5, <2>6, <2>7 DEF QueueInv
<1> QED  BY <1>2, <1>3, <1>4

LEMMA ConsistentStep == TypeOK /\ Consistent /\ [Next]_vars => Consistent'
<1> SUFFICES ASSUME TypeOK, Consistent, [Next]_vars PROVE Consistent'  OBVIOUS
<1>1. CASE Next  BY <1>1, SettingsKeep, UserKeep, LoopKeeps, WorkerKeeps DEF Next
<1>2. CASE UNCHANGED vars
  <2>1. Quiet /\ QueueFrame /\ UNCHANGED idle  BY <1>2 DEF Quiet, QueueFrame
  <2> QED  BY <2>1, QuietKeepsState, SameQueue DEF Consistent, StateInv, QueueInv
<1> QED  BY <1>1, <1>2

-----------------------------------------------------------------------------
(* The results.                                                            *)

\* Buttons, main thread, work thread and pending verdict always agree.
THEOREM AlwaysConsistent == Spec => []Consistent
  BY TypeCorrect, ConsistentInit, ConsistentStep, PTL DEF Spec

\* work_thread_start never meets its two "Internal error" exits.
THEOREM NeverFatalAlways == Spec => []NeverFatal
<1>1. Consistent => NeverFatal  BY DEF Consistent
<1> QED  BY <1>1, AlwaysConsistent, PTL

\* "Apply Changes" is only usable on a complete plan of an undisturbed
\* analysis, or on no plan at all.
THEOREM SyncGateAlways == Spec => []SyncGate
<1>1. Consistent => SyncGate  BY DEF Consistent
<1> QED  BY <1>1, AlwaysConsistent, PTL

\* The verdict of a work thread follows every row change it posts.
THEOREM VerdictComesLastAlways == Spec => []VerdictComesLast
<1>1. Consistent => VerdictComesLast  BY DEF Consistent
<1> QED  BY <1>1, AlwaysConsistent, PTL

\* The main loop never returns with a work thread still running.
THEOREM NoOrphanThreadAlways == Spec => []NoOrphanThread
<1>1. Consistent => NoOrphanThread
  BY DEF Consistent, NoOrphanThread, MainInv, ThreadInv
<1> QED  BY <1>1, AlwaysConsistent, PTL

\* preview_dirty is cleared by the verdict of a complete analysis and by
\* nothing else.
THEOREM DirtyClearedByAnalysisAlways == Spec => DirtyClearedByAnalysis
<1>1. TypeOK /\ Consistent /\ [Next]_vars
        => [dirty /\ ~dirty' => plan = "complete" /\ job = "preview"]_vars
  <2> SUFFICES ASSUME TypeOK, Consistent, Next, dirty, ~dirty'
               PROVE  plan = "complete" /\ job = "preview"
    OBVIOUS
  <2>1. HandleFinished
    <3>1. ~Worker  BY WorkerFrame DEF workerFrame
    <3>2. ~Settings
      BY DEF Settings, TypeDirs, EnterDirs, Browse, ToggleCheckFs, DeleteAfterOn,
         DeleteAfterOff, Reset, EditRules, Invalidate
    <3>3. ~User
      BY DEF User, IgnoreRow, Rename, PreviewClicked, SyncClicked, DeleteRowClicked,
         DialogYes, DialogNo, ApplyRow, StopClicked, CloseWindow, Invalidate
    <3> QED
      BY <3>1, <3>2, <3>3 DEF Next, Loop, HandleRows, HandleIgnore, DropMessage, WaitOver,
         Join, Quit, Invalidate
  <2>2. clean
    BY <2>1, TakeVerdict DEF HandleFinished, Consistent, QueueInv
  <2> QED  BY <2>2 DEF Consistent, ThreadInv
<1> QED  BY <1>1, TypeCorrect, AlwaysConsistent, PTL DEF Spec, DirtyClearedByAnalysis

-----------------------------------------------------------------------------
(* A user who avoids the operations that break the gate.                   *)

\* Row changes are pending only while a transfer runs, or until the verdict behind
\* them is handled; without row operations of the user nothing else is queued.
Pending(t) == {i \in 1..Len(idle) : idle[i].type = t}
RowsInv ==
    /\ Pending("ignore") = {}
    /\ ~destroying /\ Pending("rows") # {} =>
          Active /\ job # "preview" /\ (pc \in {"transfer", "finish"} \/ Reporting # {})

\* What the plan has read does not change under it: an analysis reads every input,
\* and each later change takes the sync button away.
FreshInv ==
    ~destroying =>
        /\ pc \in {"cleanup", "load"} => "check_fs" \notin stale
        /\ pc = "traverse" => stale \subseteq {"tree", "delete_after"}
        /\ pc = "plan" => stale = {}
        /\ clean /\ stopSens => stale = {}
        /\ (syncSens \/ dialog = "sync") /\ plan # "empty" => stale = {}

\* How the pending messages of a type change.
LEMMA PendingAppend ==
    ASSUME TypeOK, NEW m \in Messages, idle' = Append(idle, m), NEW t
    PROVE  m.type # t => Pending(t)' = Pending(t)
<1>1. idle \in Seq(Messages)  BY DEF TypeOK
<1> QED  BY <1>1, AppendFacts DEF Pending

LEMMA PendingTail ==
    ASSUME TypeOK, idle # <<>>, idle' = Tail(idle), NEW t
    PROVE  /\ Pending(t) = {} => Pending(t)' = {}
           /\ Head(idle).type # t /\ Pending(t) # {} => Pending(t)' # {}
<1>1. idle \in Seq(Messages)  BY DEF TypeOK
<1>2. /\ Len(idle') = Len(idle) - 1 /\ Len(idle) \in Nat
      /\ \A i \in 1..Len(idle') : i + 1 \in 1..Len(idle) /\ idle'[i] = idle[i + 1]
      /\ Head(idle) = idle[1]
  BY <1>1, TailFacts
<1>3. Pending(t) = {} => Pending(t)' = {}  BY <1>2 DEF Pending
<1>4. ASSUME Head(idle).type # t, Pending(t) # {} PROVE Pending(t)' # {}
  <2>1. PICK i \in 1..Len(idle) : idle[i].type = t  BY <1>4 DEF Pending
  <2>2. i # 1  BY <1>2, <1>4, <2>1
  <2>3. i - 1 \in 1..Len(idle') /\ (i - 1) + 1 = i  BY <1>2, <2>1, <2>2
  <2>4. idle'[i - 1].type = t  BY <1>2, <2>1, <2>3
  <2> QED  BY <2>3, <2>4 DEF Pending
<1> QED  BY <1>3, <1>4

LEMMA RowsInit == Init => RowsInv
  BY DEF Init, RowsInv, Pending

LEMMA RowsStep ==
    ASSUME Moves \cap {"ignore_row", "rename"} = {}, TypeOK, Consistent, RowsInv, [Next]_vars
    PROVE  RowsInv'
<1>1. /\ Pending("ignore") = {}
      /\ ~destroying /\ Pending("rows") # {} =>
           Active /\ job # "preview" /\ (pc \in {"transfer", "finish"} \/ Reporting # {})
  BY DEF RowsInv
<1>2. ASSUME UNCHANGED <<idle, started, joined, job, pc>>, destroying => destroying' PROVE RowsInv'
  BY <1>1, <1>2 DEF RowsInv, Pending, Reporting, Active
<1>3. CASE Settings \/ UNCHANGED vars
  BY <1>2, <1>3 DEF Settings, TypeDirs, EnterDirs, Browse, ToggleCheckFs,
         DeleteAfterOn, DeleteAfterOff, Reset, EditRules
<1>4. CASE User
  <2>1. ~IgnoreRow /\ ~Rename  BY DEF IgnoreRow, Rename
  <2>2. ASSUME NEW j \in {"preview", "sync", "tasks"}, StartWork(j), ~destroying, ~Active,
               UNCHANGED <<idle, destroying>>
        PROVE  RowsInv'
    BY <1>1, <2>2 DEF RowsInv, Pending
  <2>3. CASE PreviewClicked
    <3>1. CASE UNCHANGED threadVars  BY <1>2, <2>3, <3>1 DEF PreviewClicked
    <3>2. CASE StartWork("preview")
      BY <2>2, <2>3, <3>2, ReleasedFacts DEF PreviewClicked, Released
    <3> QED  BY <2>3, <3>1, <3>2 DEF PreviewClicked
  <2>4. CASE DialogYes
    <3>1. ~destroying /\ ~Active  BY <2>4 DEF DialogYes, Consistent, MainInv
    <3> QED  BY <2>2, <2>4, <3>1 DEF DialogYes
  <2>5. CASE ApplyRow
    BY <2>2, <2>5, ReleasedFacts DEF ApplyRow, Released, UserTurn
  <2>6. CASE SyncClicked \/ DeleteRowClicked \/ DialogNo \/ StopClicked \/ CloseWindow
    BY <1>2, <2>6 DEF SyncClicked, DeleteRowClicked, DialogNo, StopClicked, CloseWindow
  <2> QED  BY <1>4, <2>1, <2>3, <2>4, <2>5, <2>6 DEF User
<1>5. CASE Loop
  <2>1. CASE HandleRows \/ HandleIgnore
    <3>1. Head(idle).type # "finished" /\ idle # <<>> /\ idle' = Tail(idle)
          /\ UNCHANGED <<started, joined, job, pc, destroying>>
      BY <2>1 DEF HandleRows, HandleIgnore
    <3>2. Pending("finished") = Reporting  BY DEF Pending, Reporting
    <3>3. Pending("finished")' = Reporting'  BY DEF Pending, Reporting
    <3>4. Reporting # {} => Reporting' # {}  BY <3>1, <3>2, <3>3, PendingTail
    <3>5. /\ Pending("ignore")' = {}
          /\ Pending("rows")' # {} => Pending("rows") # {}
      BY <1>1, <3>1, PendingTail
    <3> QED  BY <1>1, <3>1, <3>4, <3>5 DEF RowsInv, Active
  <2>2. CASE HandleFinished
    <3>1. idle # <<>> /\ idle' = Tail(idle) /\ Head(idle).type = "finished"
      BY <2>2 DEF HandleFinished
    <3>2. Pending("ignore")' = {}  BY <1>1, <3>1, PendingTail
    <3>3. Pending("rows")' = {}
      BY <3>1, TakeVerdict DEF Pending, Consistent, QueueInv
    <3> QED  BY <3>2, <3>3 DEF RowsInv
  <2>3. CASE DropMessage
    <3>1. idle # <<>> /\ idle' = Tail(idle) /\ destroying'  BY <2>3 DEF DropMessage
    <3> QED  BY <1>1, <3>1, PendingTail DEF RowsInv
  <2>4. CASE WaitOver \/ Quit
    BY <1>2, <2>4 DEF WaitOver, Quit
  <2>5. CASE Join
    <3>1. UNCHANGED <<idle, job, pc, destroying>> /\ ui = "joining" /\ pc = "exited"  BY <2>5 DEF Join
    <3>2. ~destroying => Reporting = {}  BY <3>1 DEF Consistent, VerdictInv
    <3>3. ~destroying => Pending("rows") = {}  BY <1>1, <3>1, <3>2
    <3> QED  BY <1>1, <3>1, <3>3 DEF RowsInv, Pending
  <2> QED  BY <1>5, <2>1, <2>2, <2>3, <2>4, <2>5 DEF Loop
<1>6. CASE Worker
  <2>1. UNCHANGED workerFrame  BY <1>6, WorkerFrame
  <2>2. UNCHANGED <<started, joined, job, destroying>>  BY <2>1 DEF workerFrame, threadFlags
  <2>3. CASE TransferStep
    <3>1. idle' = Append(idle, RowBatch) /\ pc = "transfer" /\ pc' = pc  BY <2>3 DEF TransferStep
    <3>2. Pending("ignore")' = {}  BY <1>1, <3>1, PendingAppend, MessageFacts
    <3>3. Active /\ job # "preview"  BY <3>1 DEF Consistent, ThreadInv
    <3> QED  BY <2>2, <3>1, <3>2, <3>3 DEF RowsInv, Active
  <2>4. CASE PostFinished
    <3>1. idle' = Append(idle, Finished(clean)) /\ pc = "finish" /\ clean \in BOOLEAN
      BY <2>4 DEF PostFinished, TypeOK, ThreadTypes
    <3>2. Pending("ignore")' = Pending("ignore") /\ Pending("rows")' = Pending("rows")
      BY <3>1, PendingAppend, MessageFacts
    <3>3. Reporting' # {}
      <4>1. idle \in Seq(Messages)  BY DEF TypeOK
      <4>2. /\ Len(idle') = Len(idle) + 1 /\ Len(idle) \in Nat
            /\ idle'[Len(idle) + 1].type = "finished"
        BY <3>1, <4>1, AppendFacts, MessageFacts
      <4> QED  BY <4>2 DEF Reporting
    <3> QED  BY <1>1, <2>2, <3>2, <3>3 DEF RowsInv, Active
  <2>5. CASE Worker /\ ~TransferStep /\ ~PostFinished
    <3>1. UNCHANGED idle
      BY <2>5 DEF Worker, PreviewCleanup, PreviewLoad, PreviewTraverse, PreviewPlanEntry,
           PreviewStopped, PreviewComplete, PreviewCancel, TransferEnd, Exit
    <3>2. pc \in {"cleanup", "load", "traverse", "plan", "cancel"} \/ TransferEnd \/ Exit
      BY <2>5 DEF Worker, PreviewCleanup, PreviewLoad, PreviewTraverse, PreviewPlanEntry,
           PreviewStopped, PreviewComplete, PreviewCancel
    <3>3. CASE pc \in {"cleanup", "load", "traverse", "plan", "cancel"}
      <4>1. job = "preview"  BY <3>3 DEF Consistent, ThreadInv
      <4>2. ~destroying => Pending("rows") = {}  BY <1>1, <4>1
      <4> QED  BY <1>1, <2>2, <3>1, <4>2 DEF RowsInv, Pending
    <3>4. CASE TransferEnd
      BY <1>1, <2>2, <3>1, <3>4 DEF TransferEnd, RowsInv, Pending, Active
    <3>5. CASE Exit
      <4>1. pc = "posted"  BY <3>5 DEF Exit
      <4>2. ~destroying /\ Pending("rows") # {} => Reporting # {}  BY <1>1, <4>1
      <4> QED  BY <1>1, <2>2, <3>1, <4>2 DEF RowsInv, Pending, Reporting, Active
    <3> QED  BY <3>2, <3>3, <3>4, <3>5
  <2> QED  BY <1>6, <2>3, <2>4, <2>5
<1> QED  BY <1>3, <1>4, <1>5, <1>6 DEF Next

\* While an analysis builds rows the main loop has nothing to handle that reads or
\* rewrites them (update_ui_handler against work_preview) - provided the user leaves
\* alone the two row operations whose messages may still be pending when it starts.
THEOREM InterfaceBlockedAlways ==
    ASSUME Moves \cap {"ignore_row", "rename"} = {}
    PROVE  Spec => []InterfaceBlocked
<1>1. TypeOK /\ Consistent /\ RowsInv /\ [Next]_vars => RowsInv'
  BY RowsStep
<1>2. Consistent /\ RowsInv => InterfaceBlocked
  <2> SUFFICES ASSUME Consistent, RowsInv, WritesRows, ~destroying, NEW i \in 1..Len(idle)
               PROVE  idle[i].type \notin {"rows", "ignore"}
    BY DEF InterfaceBlocked
  <2>1. job = "preview"  BY DEF Consistent, ThreadInv, WritesRows
  <2>2. Pending("rows") = {} /\ Pending("ignore") = {}  BY <2>1 DEF RowsInv
  <2> QED  BY <2>2 DEF Pending
<1> QED  BY <1>1, <1>2, RowsInit, TypeCorrect, AlwaysConsistent, PTL DEF Spec

LEMMA FreshInit == Init => FreshInv
  BY DEF Init, FreshInv

LEMMA FreshStep ==
    ASSUME Moves \cap {"delete_after_off", "reset", "ignore_row"} = {},
           TypeOK, Consistent, FreshInv, [Next]_vars
    PROVE  FreshInv'
<1> SUFFICES ASSUME ~destroying, ~destroying' PROVE FreshInv'
  <2>1. destroying => destroying'
    <3>1. Worker => UNCHANGED destroying  BY WorkerFrame DEF workerFrame
    <3> QED
      BY <3>1 DEF Next, Settings, TypeDirs, EnterDirs, Browse, ToggleCheckFs, DeleteAfterOn,
         DeleteAfterOff, Reset, EditRules, User, IgnoreRow, Rename, PreviewClicked, SyncClicked,
         DeleteRowClicked, DialogYes, DialogNo, ApplyRow, StopClicked, CloseWindow, Loop, HandleRows,
         HandleIgnore, HandleFinished, DropMessage, WaitOver, Join, Quit
  <2> QED  BY <2>1 DEF FreshInv
<1>1. /\ pc \in {"cleanup", "load"} => "check_fs" \notin stale
      /\ pc = "traverse" => stale \subseteq {"tree", "delete_after"}
      /\ pc = "plan" => stale = {}
      /\ clean /\ stopSens => stale = {}
      /\ (syncSens \/ dialog = "sync") /\ plan # "empty" => stale = {}
  BY DEF FreshInv
<1>2. ASSUME UNCHANGED <<pc, clean, plan, stale>>, stopSens' => stopSens,
             (syncSens \/ dialog = "sync")' => syncSens \/ dialog = "sync"
      PROVE  FreshInv'
  BY <1>1, <1>2 DEF FreshInv
<1>3. ASSUME UNCHANGED <<pc, clean, plan>>, UserTurn, ~stopSens, ~stopSens', ~syncSens', dialog' = "none"
      PROVE  FreshInv'
  <2>1. pc \in {"none", "exited"}  BY <1>3, ReleasedFacts DEF Consistent, ThreadInv
  <2> QED  BY <1>3, <2>1 DEF FreshInv
<1>4. ASSUME Settings PROVE FreshInv'
  <2>1. CASE Browse
    BY <1>2, <2>1 DEF Browse, Invalidate
  <2>2. CASE Settings /\ ~Browse
    <3>1. Released /\ UNCHANGED <<pc, clean, plan, stopSens, dialog>>
      BY <2>2 DEF Settings, TypeDirs, EnterDirs, ToggleCheckFs, DeleteAfterOn,
           DeleteAfterOff, Reset, EditRules, Invalidate
    <3>2. Invalidate \/ UNCHANGED <<syncSens, stale>>
      BY <2>2 DEF Settings, TypeDirs, EnterDirs, ToggleCheckFs, DeleteAfterOn,
           DeleteAfterOff, Reset, EditRules
    <3>3. CASE UNCHANGED <<syncSens, stale>>  BY <1>2, <3>1, <3>3
    <3>4. CASE Invalidate
      <4>1. ~stopSens /\ ~stopSens' /\ UserTurn /\ dialog' = "none"
        BY <3>1 DEF Released, UserTurn
      <4>2. ~syncSens'  BY <3>4, <4>1 DEF Invalidate
      <4> QED  BY <1>3, <3>1, <4>1, <4>2
    <3> QED  BY <3>2, <3>3, <3>4
  <2> QED  BY <1>4, <2>1, <2>2
<1>5. ASSUME User PROVE FreshInv'
  <2>1. ASSUME NEW j \in {"preview", "sync", "tasks"}, StartWork(j), ~Active, Protect,
               dialog' = "none", j = "preview" => "check_fs" \notin stale'
        PROVE  FreshInv'
    BY <2>1 DEF StartWork, Protect, FreshInv
  <2>2. CASE PreviewClicked
    <3>1. CASE Invalidate /\ UNCHANGED <<threadVars, planVars, stale, dialogVars>>
      BY <1>2, <3>1 DEF Invalidate
    <3>2. CASE StartWork("preview") /\ Protect /\ stale' = (stale \cup StaleDirs) \ {"check_fs"}
      BY <2>1, <2>2, <3>2, ReleasedFacts DEF PreviewClicked, Released
    <3> QED  BY <2>2, <3>1, <3>2 DEF PreviewClicked
  <2>3. CASE DialogYes
    <3>1. ~Active  BY <2>3 DEF DialogYes, Consistent, MainInv
    <3> QED  BY <2>1, <2>3, <3>1 DEF DialogYes
  <2>4. CASE ApplyRow
    BY <2>1, <2>4, ReleasedFacts DEF ApplyRow, Released, UserTurn
  <2>5. CASE Rename
    BY <1>3, <2>5 DEF Rename, Released, UserTurn, Invalidate
  <2>6. CASE SyncClicked \/ DeleteRowClicked \/ DialogNo \/ StopClicked
    BY <1>2, <2>6 DEF SyncClicked, DeleteRowClicked, DialogNo, StopClicked
  <2> QED  BY <1>5, <2>2, <2>3, <2>4, <2>5, <2>6 DEF User, IgnoreRow, CloseWindow
<1>6. ASSUME Loop PROVE FreshInv'
  <2>1. UNCHANGED <<pc, clean, plan, stale, dialog>>
    BY <1>6 DEF Loop, HandleRows, HandleIgnore, HandleFinished, DropMessage, WaitOver, Join, Quit
  <2>2. CASE HandleFinished
    <3>1. Head(idle).clean = clean /\ Active /\ ui = "loop"
      BY <2>2, TakeVerdict DEF HandleFinished, Consistent, QueueInv
    <3>2. stopSens  BY <3>1 DEF Consistent, ButtonInv
    <3>3. syncSens' => stale = {}  BY <1>1, <2>2, <3>1, <3>2 DEF HandleFinished
    <3>4. ~stopSens'  BY <2>2 DEF HandleFinished
    <3>5. pc \in {"posted", "exited"}
      BY <2>2, TakeVerdict DEF HandleFinished, Consistent, QueueInv
    <3>6. dialog = "none"  BY <3>1 DEF Consistent, MainInv
    <3> QED  BY <2>1, <3>3, <3>4, <3>5, <3>6, Zenon DEF FreshInv
  <2>3. CASE ~HandleFinished
    <3>1. UNCHANGED stopSens /\ (syncSens' => syncSens)
      <4>1. UNCHANGED <<stopSens, syncSens>> \/ Invalidate
        BY <1>6, <2>3 DEF Loop, HandleRows, HandleIgnore, DropMessage, WaitOver, Join, Quit
      <4>2. CASE Invalidate  BY <4>2 DEF Invalidate
      <4>3. CASE UNCHANGED <<stopSens, syncSens>>  BY <4>3
      <4> QED  BY <4>1, <4>2, <4>3
    <3>2. (syncSens \/ dialog = "sync")' => syncSens \/ dialog = "sync"  BY <2>1, <3>1
    <3> QED  BY <1>2, <2>1, <3>1, <3>2
  <2> QED  BY <2>2, <2>3
<1>7. ASSUME Worker PROVE FreshInv'
  <2>1. UNCHANGED <<stopSens, syncSens, dialog>>  BY <1>7, WorkerFrame DEF workerFrame
  <2>2. CASE Exit \/ PostFinished
    <3>1. pc' \in {"posted", "exited"} /\ UNCHANGED <<clean, plan, stale>>
      BY <2>2 DEF Exit, PostFinished
    <3> QED  BY <1>1, <2>1, <3>1 DEF FreshInv
  <2>3. CASE ~Exit /\ ~PostFinished
    <3>1. pc \notin {"none", "posted", "exited"}
      BY <1>7, <2>3 DEF Worker, PreviewCleanup, PreviewLoad, PreviewTraverse, PreviewPlanEntry,
         PreviewStopped, PreviewComplete, PreviewCancel, TransferStep, TransferEnd
    <3>2. ~syncSens /\ dialog = "none"  BY <3>1, WorkingFacts
    <3>3. pc \in {"cleanup", "load", "traverse", "plan", "cancel", "transfer"} => ~clean
      BY DEF Consistent, ThreadInv
    <3>4. \A i \in stale : i \in Inputs  BY DEF TypeOK, PlanTypes
    <3> USE <1>1, <2>1, <3>2, <3>3, <3>4 DEF FreshInv, Inputs
    <3>5. CASE PreviewCleanup  BY <3>5 DEF PreviewCleanup
    <3>6. CASE PreviewLoad  BY <3>6 DEF PreviewLoad
    <3>7. CASE PreviewTraverse  BY <3>7 DEF PreviewTraverse
    <3>8. CASE PreviewPlanEntry  BY <3>8 DEF PreviewPlanEntry
    <3>9. CASE PreviewStopped  BY <3>9 DEF PreviewStopped
    <3>10. CASE PreviewComplete  BY <3>10 DEF PreviewComplete
    <3>11. CASE PreviewCancel  BY <3>11 DEF PreviewCancel
    <3>12. CASE TransferStep  BY <3>12 DEF TransferStep
    <3>13. CASE TransferEnd  BY <3>13 DEF TransferEnd
    <3> QED
      BY <1>7, <2>3, <3>5, <3>6, <3>7, <3>8, <3>9, <3>10, <3>11, <3>12, <3>13 DEF Worker
  <2> QED  BY <2>2, <2>3
<1>8. CASE UNCHANGED vars  BY <1>2, <1>8
<1> QED  BY <1>4, <1>5, <1>6, <1>7, <1>8 DEF Next

\* A full transfer starts from a plan none of whose inputs has changed since the
\* analysis read it (on_sync_response) - unless the user switched delete-after off,
\* reset the settings or added a rule from a row, none of which closes the gate at once.
THEOREM SyncUsesFreshPlanAlways ==
    ASSUME Moves \cap {"delete_after_off", "reset", "ignore_row"} = {}
    PROVE  Spec => SyncUsesFreshPlan
<1>1. TypeOK /\ Consistent /\ FreshInv /\ [Next]_vars => FreshInv'
  BY FreshStep
<1>2. TypeOK /\ Consistent /\ FreshInv /\ [Next]_vars
        => [StartsSync /\ plan # "empty" => stale = {}]_vars
  <2> SUFFICES ASSUME TypeOK, Consistent, FreshInv, Next, StartsSync, plan # "empty" PROVE stale = {}
    OBVIOUS
  <2>1. ~Worker
    BY DEF Worker, PreviewCleanup, PreviewLoad, PreviewTraverse, PreviewPlanEntry, PreviewStopped,
       PreviewComplete, PreviewCancel, TransferStep, TransferEnd, PostFinished, Exit, StartsSync
  <2>2. ~Settings /\ ~Loop
    BY DEF Settings, TypeDirs, EnterDirs, Browse, ToggleCheckFs, DeleteAfterOn, DeleteAfterOff, Reset,
       EditRules, Loop, HandleRows, HandleIgnore, HandleFinished, DropMessage, WaitOver, Join, Quit,
       StartsSync
  <2>3. DialogYes /\ dialog = "sync"
    BY <2>1, <2>2 DEF Next, User, IgnoreRow, Rename, PreviewClicked, SyncClicked, DeleteRowClicked,
       DialogYes, DialogNo, ApplyRow, StopClicked, CloseWindow, StartsSync, StartWork
  <2> QED  BY <2>3 DEF DialogYes, FreshInv
<1> QED  BY <1>1, <1>2, FreshInit, TypeCorrect, AlwaysConsistent, PTL DEF Spec, SyncUsesFreshPlan

-----------------------------------------------------------------------------
(* WorkControl implements the safety part of WorkSession for every user    *)
(* who does not add an ignore rule from a row's menu (that operation       *)
(* changes the rows now and closes the gate later).                        *)

Holding == plan = "empty" \/ (plan = "complete" /\ ~dirty)

\* What the refinement needs beyond Consistent: an open confirmation stands
\* for a list that still holds, no row change is on its way while it is open,
\* and a thread is joined with its verdict already applied.
DialogInv   == ~destroying /\ dialog = "sync" => Holding
PendingInv  ==
    \A i \in 1..Len(idle) :
        /\ idle[i].type # "ignore"
        /\ idle[i].type = "rows" /\ ~destroying => ~syncSens /\ dialog # "sync"
JoiningInv  ==
    /\ Active => job # "none"
    /\ ~destroying /\ ui = "joining" => IF job = "preview" THEN Holding ELSE dirty
SessionInv  == DialogInv /\ PendingInv /\ JoiningInv

LEMMA SessionInvInit == Init => SessionInv
  BY DEF Init, SessionInv, DialogInv, PendingInv, JoiningInv, Active

-----------------------------------------------------------------------------
(* Steps that leave the thread and the plan alone.                         *)

\* The abstract view of a step that at most invalidates the preview.
LEMMA QuietView ==
    ASSUME TypeOK, Quiet
    PROVE  [Session!SNext]_(Session!svars)
<1> USE DEF Quiet, SessionWork, Active
<1>1. UNCHANGED <<destroying, SessionWork>>  OBVIOUS
<1>2. CASE UNCHANGED dirty
  <2>1. UNCHANGED SessionList  BY <1>2 DEF SessionList
  <2> QED  BY <1>1, <2>1 DEF Session!svars
<1>3. CASE dirty' = TRUE
  <2>1. UNCHANGED SessionList \/ (SessionList = "valid" /\ SessionList' = "outdated")
    BY <1>3 DEF SessionList
  <2> QED  BY <1>1, <2>1 DEF Session!svars, Session!SNext, Session!Outdate
<1> QED  BY <1>2, <1>3 DEF Invalidate

\* Such a step keeps the invariant unless it invalidates under an open
\* confirmation or a running join.
LEMMA QuietKeeps ==
    ASSUME TypeOK, SessionInv, Quiet, UNCHANGED dirty \/ (dialog # "sync" /\ ui # "joining"),
           idle' = idle \/ (idle # <<>> /\ idle' = Tail(idle))
    PROVE  SessionInv'
<1>0. syncSens' => syncSens  BY DEF Quiet, Invalidate
<1>1. UNCHANGED <<ui, destroying, dialog, plan, job, started, joined>>  BY DEF Quiet
<1>2. DialogInv'  BY <1>1 DEF SessionInv, DialogInv, Holding
<1>3. PendingInv'
  <2>1. CASE idle' = idle  BY <1>0, <1>1, <2>1 DEF SessionInv, PendingInv
  <2>2. CASE idle # <<>> /\ idle' = Tail(idle)
    <3>1. \A i \in 1..Len(idle') : i + 1 \in 1..Len(idle) /\ idle'[i] = idle[i + 1]
      BY <2>2, TailFacts DEF TypeOK
    <3> QED  BY <1>0, <1>1, <3>1 DEF SessionInv, PendingInv
  <2> QED  BY <2>1, <2>2
<1>4. JoiningInv'  BY <1>1 DEF SessionInv, JoiningInv, Holding, Active
<1> QED  BY <1>2, <1>3, <1>4 DEF SessionInv

LEMMA SettingsRefine ==
    ASSUME TypeOK, SessionInv, Settings
    PROVE  SessionInv' /\ [Session!SNext]_(Session!svars)
<1>1. /\ Quiet /\ UNCHANGED idle
      /\ dialog # "sync" /\ ui # "joining"
  BY DEF Quiet, Settings, TypeDirs, EnterDirs, Browse, ToggleCheckFs, DeleteAfterOn,
         DeleteAfterOff, Reset, EditRules, Invalidate, Released, UserTurn
<1> QED  BY <1>1, QuietView, QuietKeeps

-----------------------------------------------------------------------------
(* Starting work.                                                          *)

LEMMA StartRefines ==
    ASSUME TypeOK, Consistent, SessionInv, NEW j \in {"preview", "sync", "tasks"},
           ui = "loop", ~destroying, ~Active, Protect, StartWork(j), dialog' = "none",
           UNCHANGED <<ui, destroying, plan, idle>>,
           j # "preview" => UNCHANGED dirty,
           j = "sync" => dialog = "sync"
    PROVE  SessionInv' /\ [Session!SNext]_(Session!svars)
<1> USE DEF Protect, StartWork, Active
<1>1. Active' /\ job' = j  OBVIOUS
<1>2. DialogInv' /\ JoiningInv'  BY DEF DialogInv, JoiningInv
<1>3. PendingInv'  BY DEF SessionInv, PendingInv
<1>4. /\ SessionWork = "none" /\ SessionWork' = j
      /\ SessionList' = IF j = "preview" THEN "checking" ELSE SessionList
  BY DEF SessionWork, SessionList
<1>5. j = "sync" => SessionList \in {"none", "valid"}
  BY DEF SessionInv, DialogInv, Holding, SessionList
<1>6. Session!SNext
  BY <1>4, <1>5 DEF Session!SNext, Session!BeginAnalysis, Session!BeginSync, Session!BeginTasks
<1> QED  BY <1>2, <1>3, <1>6 DEF SessionInv

-----------------------------------------------------------------------------
(* The operations of the user.                                             *)

\* A step that changes neither thread, plan, gate nor window is invisible.
LEMMA SameView ==
    ASSUME UNCHANGED <<destroying, started, joined, job, plan, dirty>>
    PROVE  UNCHANGED Session!svars
  BY DEF Session!svars, SessionWork, SessionList, Active

\* Queuing a row change while the gate is shut.
LEMMA PostRows ==
    ASSUME TypeOK, PendingInv, idle' = Append(idle, RowBatch),
           ~destroying' => ~destroying /\ ~syncSens' /\ dialog' # "sync"
    PROVE  PendingInv'
<1>1. /\ Len(idle') = Len(idle) + 1 /\ Len(idle) \in Nat
      /\ \A i \in 1..Len(idle) : idle'[i] = idle[i]
      /\ idle'[Len(idle) + 1].type = "rows"
  BY AppendFacts, MessageFacts DEF TypeOK
<1>2. \A i \in 1..Len(idle') : i \in 1..Len(idle) \/ i = Len(idle) + 1  BY <1>1
<1> QED  BY <1>1, <1>2 DEF PendingInv

LEMMA UserRefine ==
    ASSUME TypeOK, Consistent, SessionInv, User, "ignore_row" \notin Moves
    PROVE  SessionInv' /\ [Session!SNext]_(Session!svars)
<1>1. CASE IgnoreRow  BY <1>1 DEF IgnoreRow
<1>2. CASE Rename
  <2>1. Quiet /\ ~destroying /\ dialog = "none" /\ dialog' = "none" /\ ui = "loop" /\ ui' = "loop"
    BY <1>2, ReleasedFacts DEF Rename, Released, Quiet, Invalidate
  <2>2. ~syncSens' /\ idle' = Append(idle, RowBatch)  BY <1>2 DEF Rename, Invalidate, Released
  <2>3. DialogInv'  BY <2>1 DEF DialogInv
  <2>4. PendingInv'  BY <2>1, <2>2, PostRows DEF SessionInv
  <2>5. JoiningInv'  BY <2>1 DEF Quiet, SessionInv, JoiningInv, Active
  <2> QED  BY <2>1, <2>3, <2>4, <2>5, QuietView DEF SessionInv
<1>3. CASE PreviewClicked
  <2>1. ~destroying /\ ~Active /\ ui = "loop" /\ dialog = "none"
    BY <1>3, ReleasedFacts DEF PreviewClicked, Released
  <2>2. CASE Quiet /\ UNCHANGED idle  BY <2>1, <2>2, QuietView, QuietKeeps
  <2>3. CASE StartWork("preview") /\ Protect
    BY <1>3, <2>1, <2>3, StartRefines DEF PreviewClicked
  <2> QED  BY <1>3, <2>2, <2>3 DEF PreviewClicked, Quiet, Invalidate
<1>4. CASE SyncClicked
  <2> USE <1>4 DEF SyncClicked, SessionInv, UserTurn
  <2>1. DialogInv'  BY DEF DialogInv, Holding, Consistent, SyncGate
  <2>2. PendingInv'  BY DEF PendingInv
  <2>3. JoiningInv'  BY DEF JoiningInv, Active, Holding
  <2>4. UNCHANGED Session!svars  BY SameView
  <2> QED  BY <2>1, <2>2, <2>3, <2>4
<1>5. CASE DeleteRowClicked \/ DialogNo \/ StopClicked
  <2> USE <1>5 DEF DeleteRowClicked, DialogNo, StopClicked, SessionInv
  <2>1. DialogInv'  BY DEF DialogInv, Holding
  <2>2. PendingInv'  BY DEF PendingInv
  <2>3. JoiningInv'  BY DEF JoiningInv, Active, Holding
  <2>4. UNCHANGED Session!svars  BY SameView
  <2> QED  BY <2>1, <2>2, <2>3, <2>4
<1>6. CASE DialogYes
  <2>1. ~Active  BY <1>6 DEF DialogYes, Consistent, MainInv
  <2> QED  BY <1>6, <2>1, StartRefines DEF DialogYes
<1>7. CASE ApplyRow
  <2>1. ~Active /\ dialog = "none"  BY <1>7, ReleasedFacts DEF ApplyRow, Released
  <2> QED  BY <1>7, <2>1, StartRefines DEF ApplyRow, Released, UserTurn
<1>8. CASE CloseWindow
  <2> USE <1>8 DEF CloseWindow, SessionInv
  <2>1. DialogInv'  BY DEF DialogInv
  <2>2. PendingInv'  BY DEF PendingInv
  <2>3. JoiningInv'  BY DEF JoiningInv, Active
  <2>4. Session!Close
    BY DEF Session!Close, SessionWork, SessionList, Active, UserTurn
  <2> QED  BY <2>1, <2>2, <2>3, <2>4 DEF Session!SNext
<1> QED  BY <1>1, <1>2, <1>3, <1>4, <1>5, <1>6, <1>7, <1>8 DEF User

-----------------------------------------------------------------------------
(* The main loop and the work thread.                                      *)

LEMMA LoopRefine ==
    ASSUME TypeOK, Consistent, SessionInv, Loop
    PROVE  SessionInv' /\ [Session!SNext]_(Session!svars)
<1>0. QueueInv  BY DEF Consistent, QueueInv
<1>1. CASE HandleRows
  <2>1. /\ Quiet /\ ui = "loop" /\ ~destroying /\ idle # <<>> /\ idle' = Tail(idle)
        /\ Head(idle).type = "rows"
    BY <1>1 DEF HandleRows, Quiet, Invalidate
  <2>2. 1 \in 1..Len(idle) /\ Head(idle) = idle[1]  BY <2>1, TailFacts DEF TypeOK
  <2>3. dialog # "sync"  BY <2>1, <2>2 DEF SessionInv, PendingInv
  <2> QED  BY <2>1, <2>3, QuietView, QuietKeeps
<1>2. CASE HandleIgnore
  <2>1. 1 \in 1..Len(idle) /\ Head(idle) = idle[1]  BY <1>2, TailFacts DEF HandleIgnore, TypeOK
  <2> QED  BY <1>2, <2>1 DEF HandleIgnore, SessionInv, PendingInv
<1>3. CASE HandleFinished
  <2>1. /\ \A i \in 1..Len(idle') : idle'[i].type # "rows"
        /\ Active /\ Head(idle).clean = clean /\ pc \in {"posted", "exited"}
    BY <1>0, <1>3, TakeVerdict DEF HandleFinished
  <2>2. IF job = "preview" THEN plan = "empty" \/ (plan = "complete" /\ ~dirty') ELSE dirty'
    BY <1>3, <2>1 DEF HandleFinished, Consistent, ThreadInv
  <2>3. dialog = "none"  BY <2>1, <1>3 DEF HandleFinished, Consistent, MainInv, TypeOK, WidgetTypes
  <2>4. DialogInv'  BY <1>3, <2>3 DEF HandleFinished, DialogInv
  <2>5. PendingInv'
    <3>1. \A i \in 1..Len(idle') : i + 1 \in 1..Len(idle) /\ idle'[i] = idle[i + 1]
      BY <1>3, TailFacts DEF HandleFinished, TypeOK
    <3> QED  BY <2>1, <3>1 DEF SessionInv, PendingInv
  <2>6. JoiningInv'
    BY <1>3, <2>2 DEF HandleFinished, SessionInv, JoiningInv, Holding, Active
  <2>7. UNCHANGED <<destroying, SessionWork, Active>>
    BY <1>3 DEF HandleFinished, SessionWork, Active
  <2>8. UNCHANGED SessionList \/ (SessionList = "valid" /\ SessionList' = "outdated")
    <3>1. CASE job = "preview"  BY <1>3, <2>1, <3>1 DEF HandleFinished, SessionList, Active
    <3>2. CASE job # "preview"
      BY <1>3, <2>1, <2>2, <3>2 DEF HandleFinished, SessionList, Active, TypeOK, WidgetTypes
    <3> QED  BY <3>1, <3>2
  <2>9. [Session!SNext]_(Session!svars)
    BY <2>7, <2>8 DEF Session!svars, Session!SNext, Session!Outdate
  <2> QED  BY <2>4, <2>5, <2>6, <2>9 DEF SessionInv
<1>4. CASE DropMessage
  <2> USE <1>4 DEF DropMessage
  <2>1. DialogInv'  BY DEF DialogInv
  <2>2. PendingInv'
    <3>1. \A i \in 1..Len(idle') : i + 1 \in 1..Len(idle) /\ idle'[i] = idle[i + 1]
      BY TailFacts DEF TypeOK
    <3> QED  BY <3>1 DEF SessionInv, PendingInv
  <2>3. JoiningInv'  BY DEF SessionInv, JoiningInv, Active
  <2>4. UNCHANGED Session!svars  BY SameView
  <2> QED  BY <2>1, <2>2, <2>3, <2>4 DEF SessionInv
<1>5. CASE WaitOver \/ Quit
  <2>0. destroying  BY <1>5 DEF WaitOver, Quit, Consistent, MainInv
  <2> USE <1>5, <2>0 DEF WaitOver, Quit
  <2>1. DialogInv'  BY DEF DialogInv
  <2>2. PendingInv'  BY DEF SessionInv, PendingInv
  <2>3. JoiningInv'
    <3>1. destroying /\ UNCHANGED <<destroying, job, started, joined>>  OBVIOUS
    <3> HIDE DEF DropMessage, WaitOver, Quit
    <3> QED  BY <3>1 DEF SessionInv, JoiningInv, Active
  <2>4. UNCHANGED Session!svars  BY SameView
  <2> QED  BY <2>1, <2>2, <2>3, <2>4 DEF SessionInv
<1>6. CASE Join
  <2>0. Active /\ ~Active' /\ job # "none" /\ UNCHANGED <<destroying, plan, dirty, job>>
    BY <1>6 DEF Join, Consistent, MainInv, SessionInv, JoiningInv, Active
  <2>1. DialogInv'  BY <1>6 DEF Join, SessionInv, DialogInv, Holding
  <2>2. PendingInv'  BY <1>6 DEF Join, SessionInv, PendingInv
  <2>3. JoiningInv'  BY <1>6, <2>0 DEF Join, JoiningInv
  <2>4. SessionWork = job /\ SessionWork' = "none"  BY <2>0 DEF SessionWork
  <2>5. CASE job = "preview"
    <3>1. SessionList' \in (IF ~destroying THEN {"valid", "none"} ELSE {"none"})
      BY <1>6, <2>0, <2>5 DEF Join, SessionInv, JoiningInv, Holding, SessionList
    <3>2. Session!EndAnalysis  BY <2>0, <2>4, <2>5, <3>1 DEF Session!EndAnalysis
    <3> QED  BY <2>1, <2>2, <2>3, <3>2 DEF SessionInv, Session!SNext
  <2>6. CASE job # "preview"
    <3>1. UNCHANGED SessionList /\ SessionList # "valid"
      BY <1>6, <2>0, <2>6 DEF Join, SessionInv, JoiningInv, SessionList
    <3>2. Session!EndTransfer
      BY <2>0, <2>4, <2>6, <3>1 DEF Session!EndTransfer, TypeOK, ThreadTypes
    <3> QED  BY <2>1, <2>2, <2>3, <3>2 DEF SessionInv, Session!SNext
  <2> QED  BY <2>5, <2>6
<1> QED  BY <1>1, <1>2, <1>3, <1>4, <1>5, <1>6 DEF Loop

LEMMA WorkerRefine ==
    ASSUME TypeOK, Consistent, SessionInv, Worker
    PROVE  SessionInv' /\ [Session!SNext]_(Session!svars)
<1>1. UNCHANGED <<ui, destroying, started, joined, job, dirty, syncSens, dialog>>
  BY WorkerFrame DEF workerFrame, threadFlags
<1>2. pc # "none" /\ (pc = "posted" => Exit)
  BY DEF Worker, PreviewCleanup, PreviewLoad, PreviewTraverse, PreviewPlanEntry,
     PreviewStopped, PreviewComplete, PreviewCancel, TransferStep, TransferEnd,
     PostFinished, Exit
<1>3. Active /\ dialog = "none"
  BY <1>2 DEF Worker, PreviewCleanup, PreviewLoad, PreviewTraverse, PreviewPlanEntry,
     PreviewStopped, PreviewComplete, PreviewCancel, TransferStep, TransferEnd,
     PostFinished, Exit, Consistent, MainInv, ThreadInv, TypeOK, WidgetTypes
<1>4. UNCHANGED plan \/ (job = "preview" /\ pc \notin {"posted", "exited"})
  BY DEF Worker, PreviewCleanup, PreviewLoad, PreviewTraverse, PreviewPlanEntry,
     PreviewStopped, PreviewComplete, PreviewCancel, TransferStep, TransferEnd,
     PostFinished, Exit, Consistent, ThreadInv
<1>5. DialogInv'  BY <1>1, <1>3 DEF DialogInv
<1>6. PendingInv'
  <2>1. CASE TransferStep
    <3>1. ~syncSens  BY <2>1, WorkingFacts DEF TransferStep
    <3> QED  BY <1>1, <1>3, <2>1, <3>1, PostRows DEF TransferStep, SessionInv
  <2>2. CASE PostFinished
    <3>1. /\ Len(idle') = Len(idle) + 1 /\ Len(idle) \in Nat
          /\ \A i \in 1..Len(idle) : idle'[i] = idle[i]
          /\ idle'[Len(idle) + 1].type = "finished"
      BY <2>2, AppendFacts, MessageFacts DEF PostFinished, TypeOK, ThreadTypes
    <3>2. \A i \in 1..Len(idle') : i \in 1..Len(idle) \/ i = Len(idle) + 1  BY <3>1
    <3> QED  BY <1>1, <3>1, <3>2 DEF SessionInv, PendingInv
  <2>3. CASE ~TransferStep /\ ~PostFinished
    <3>1. UNCHANGED idle
      BY <2>3 DEF Worker, PreviewCleanup, PreviewLoad, PreviewTraverse, PreviewPlanEntry,
         PreviewStopped, PreviewComplete, PreviewCancel, TransferEnd, Exit
    <3> QED  BY <1>1, <3>1 DEF SessionInv, PendingInv
  <2> QED  BY <2>1, <2>2, <2>3
<1>7. JoiningInv'
  <2>1. ui = "joining" /\ ~destroying => UNCHANGED plan
    BY <1>4 DEF Consistent, ButtonInv
  <2> QED  BY <1>1, <2>1 DEF SessionInv, JoiningInv, Holding, Active
<1>8. UNCHANGED Session!svars
  BY <1>1, <1>3, <1>4 DEF Session!svars, SessionWork, SessionList, Active
<1> QED  BY <1>5, <1>6, <1>7, <1>8 DEF SessionInv

-----------------------------------------------------------------------------
LEMMA SessionStep ==
    ASSUME TypeOK, Consistent, SessionInv, [Next]_vars, "ignore_row" \notin Moves
    PROVE  SessionInv' /\ [Session!SNext]_(Session!svars)
<1>1. CASE Next
  BY <1>1, SettingsRefine, UserRefine, LoopRefine, WorkerRefine DEF Next
<1>2. CASE UNCHANGED vars
  <2>1. Quiet /\ UNCHANGED idle /\ UNCHANGED dirty  BY <1>2 DEF Quiet
  <2> QED  BY <2>1, QuietView, QuietKeeps
<1> QED  BY <1>1, <1>2

LEMMA SessionStart == Init => Session!SInit
  BY DEF Init, Session!SInit, SessionWork, SessionList, Active

\* At most one piece of work at a time; a whole list is applied only while it
\* is the valid outcome of an analysis; no transfer leaves behind a list that
\* could be applied again.
THEOREM SessionSafety ==
    ASSUME "ignore_row" \notin Moves
    PROVE  Spec => Session!SInit /\ [][Session!SNext]_(Session!svars)
<1>1. TypeOK /\ Consistent /\ SessionInv /\ [Next]_vars
        => SessionInv' /\ [Session!SNext]_(Session!svars)
  BY SessionStep
<1> QED
  BY <1>1, TypeCorrect, AlwaysConsistent, SessionInvInit, SessionStart, PTL DEF Spec
=============================================================================
