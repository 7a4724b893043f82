--------------------------- MODULE RsyncChildProofs ---------------------------
(* Proofs about the runs of rsync, for any number of lines and any pipes.   *)
EXTENDS RsyncChild, TLAPS

-----------------------------------------------------------------------------
(* The inductive invariant: what each place in work_rsync_run may rely on.  *)

Reading == {"loop", "out", "err"}
Waiting == {"wait", "killed", "reaped"}
InRun == {"started"} \cup Reading \cup Waiting

\* child_pid is set from SetPid to ClearPid.
PidInv == child_pid = IF phase \in Reading \cup Waiting THEN pass ELSE 0

\* The child of a run runs or has exited until it is waited for.
ChildInv ==
    /\ phase \in {"spawn", "over"} => child \in {"none", "reaped"}
    /\ phase \in {"started", "wait"} \cup Reading => child \in {"running", "exited"}
    /\ phase = "killed" => child = "exited"
    /\ phase = "reaped" => child = "reaped"

\* A pipe that poll says has hung up with nothing in it stays so.
EventsInv ==
    phase \in {"out", "err"} => \A f \in Pipes :
        <<f, "hup">> \in revents =>
            child = "exited" /\ (<<f, "in">> \in revents \/ pipe[f] = 0)

\* Standard output is polled until it holds nothing and nobody can write to it.
EndInv ==
    /\ phase \in Reading \cup Waiting /\ "out" \notin fds => child # "running" /\ pipe["out"] = 0
    /\ phase \in Waiting /\ ~stop => fds = {}

\* No chunk is lost or read twice, and a child with status 0 has written them all.
CountInv ==
    phase \in InRun =>
        /\ got + pipe["out"] + left["out"] = 2 * Lines
        /\ child # "running" /\ status => left["out"] = 0

\* The first run reports nothing, the second each whole line that was read.
ReportInv ==
    /\ phase # "over" => reported = IF pass = 2 /\ phase \in InRun THEN got \div 2 ELSE 0
    /\ AllReported

IInv == TypeOK /\ PidInv /\ ChildInv /\ EventsInv /\ EndInv /\ CountInv /\ ReportInv

-----------------------------------------------------------------------------
LEMMA InitIInv == Init => IInv
<1> SUFFICES ASSUME Init PROVE IInv OBVIOUS
<1> USE ChildAssumption DEF Init, Reading, Waiting, InRun, Pipes, Empty
<1>1. TypeOK
  <2>1. pipe \in [Pipes -> 0..Capacity] /\ left \in [Pipes -> 0..(2 * Lines + Errors)] OBVIOUS
  <2>2. pass \in 1..2 /\ child_pid \in 0..2 /\ got \in 0..2 * Lines /\ reported \in 0..Lines /\ waited \in 0..Patience
    OBVIOUS
  <2>3. fds \subseteq Pipes /\ revents \subseteq Pipes \X {"in", "hup"} OBVIOUS
  <2> QED BY <2>1, <2>2, <2>3 DEF TypeOK
<1>2. PidInv /\ ChildInv /\ EventsInv BY DEF PidInv, ChildInv, EventsInv
<1>3. EndInv /\ CountInv /\ ReportInv BY DEF EndInv, CountInv, ReportInv, AllReported
<1> QED BY <1>1, <1>2, <1>3 DEF IInv

LEMMA WriteKeeps == ASSUME IInv, NEW f \in Pipes, Write(f) PROVE IInv'
<1> USE ChildAssumption DEF Write, reader, process, IInv, TypeOK, Pipes, Reading, Waiting, InRun
<1>1. TypeOK' BY DEF CountInv
<1>2. PidInv' BY DEF PidInv
<1>3. ChildInv' BY DEF ChildInv, PidInv
<1>4. EventsInv' BY DEF EventsInv, ChildInv
<1>5. EndInv' BY DEF EndInv, EventsInv, ChildInv
<1>6. CountInv' BY DEF CountInv, ChildInv
<1>7. ReportInv' BY DEF ReportInv, AllReported, CountInv, ChildInv, EndInv
<1> QED BY <1>1, <1>2, <1>3, <1>4, <1>5, <1>6, <1>7

LEMMA ExitKeeps == ASSUME IInv, Exit PROVE IInv'
<1> USE ChildAssumption DEF Exit, Empty, reader, process, IInv, TypeOK, Pipes, Reading, Waiting, InRun
<1>1. TypeOK' BY DEF CountInv
<1>2. PidInv' BY DEF PidInv
<1>3. ChildInv' BY DEF ChildInv, PidInv
<1>4. EventsInv' BY DEF EventsInv, ChildInv
<1>5. EndInv' BY DEF EndInv, EventsInv, ChildInv
<1>6. CountInv' BY DEF CountInv, ChildInv
<1>7. ReportInv' BY DEF ReportInv, AllReported, CountInv, ChildInv, EndInv
<1> QED BY <1>1, <1>2, <1>3, <1>4, <1>5, <1>6, <1>7

LEMMA CrashKeeps == ASSUME IInv, Crash PROVE IInv'
<1> USE ChildAssumption DEF Crash, reader, process, IInv, TypeOK, Pipes, Reading, Waiting, InRun
<1>1. TypeOK' BY DEF CountInv
<1>2. PidInv' BY DEF PidInv
<1>3. ChildInv' BY DEF ChildInv, PidInv
<1>4. EventsInv' BY DEF EventsInv, ChildInv
<1>5. EndInv' BY DEF EndInv, EventsInv, ChildInv
<1>6. CountInv' BY DEF CountInv, ChildInv
<1>7. ReportInv' BY DEF ReportInv, AllReported, CountInv, ChildInv, EndInv
<1> QED BY <1>1, <1>2, <1>3, <1>4, <1>5, <1>6, <1>7

LEMMA SpawnKeeps == ASSUME IInv, Spawn PROVE IInv'
<1> USE ChildAssumption DEF Spawn, Empty, reader, process, IInv, TypeOK, Pipes, Reading, Waiting, InRun
<1>1. TypeOK'
  <2>1. pipe' \in [Pipes -> 0..Capacity]
    <3>1. CASE pipe' = [f \in Pipes |-> 0] BY <3>1
    <3> QED BY <3>1
  <2>2. left' \in [Pipes -> 0..(2 * Lines + Errors)]
    <3>1. CASE left' = left BY <3>1
    <3>2. CASE left' # left
      <4>1. PICK n \in 0..Errors : left' = [out |-> 2 * Lines, err |-> n] BY <3>2
      <4> QED BY <4>1
    <3> QED BY <3>1, <3>2
  <2>3. /\ phase' \in {"started", "over"} /\ child' \in {child, "running"}
        /\ fds' = fds /\ success' \in {success, FALSE} /\ terminated' \in {terminated, FALSE}
    OBVIOUS
  <2>4. got' \in 0..2 * Lines OBVIOUS
  <2>5. UNCHANGED <<pass, revents, reported, signalled, waited, status, child_pid, stop, window>> OBVIOUS
  <2>6. fds' \subseteq Pipes /\ success' \in BOOLEAN /\ terminated' \in BOOLEAN BY <2>3
  <2> QED BY <2>1, <2>2, <2>3, <2>4, <2>5, <2>6
<1>2. PidInv' BY DEF PidInv
<1>3. ChildInv' BY DEF ChildInv, PidInv
<1>4. EventsInv' BY DEF EventsInv, ChildInv
<1>5. EndInv' BY DEF EndInv, EventsInv, ChildInv
<1>6. CountInv' BY DEF CountInv, ChildInv
<1>7. ReportInv' BY DEF ReportInv, AllReported, CountInv, ChildInv, EndInv
<1> QED BY <1>1, <1>2, <1>3, <1>4, <1>5, <1>6, <1>7

LEMMA SetPidKeeps == ASSUME IInv, SetPid PROVE IInv'
<1> USE ChildAssumption DEF SetPid, reader, process, IInv, TypeOK, Pipes, Reading, Waiting, InRun
<1>1. TypeOK'
  <2>1. child_pid' \in 0..2 /\ fds' \subseteq Pipes /\ phase' = "loop" OBVIOUS
  <2>2. signalled' = FALSE /\ waited' \in 0..Patience OBVIOUS
  <2>3. /\ UNCHANGED <<pass, revents, got, reported, success>>
        /\ UNCHANGED <<child, left, pipe, terminated, status, stop, window>>
    OBVIOUS
  <2> QED BY <2>1, <2>2, <2>3
<1>2. PidInv' BY DEF PidInv
<1>3. ChildInv' BY DEF ChildInv, PidInv
<1>4. EventsInv' BY DEF EventsInv, ChildInv
<1>5. EndInv' BY DEF EndInv, EventsInv, ChildInv
<1>6. CountInv' BY DEF CountInv, ChildInv
<1>7. ReportInv' BY DEF ReportInv, AllReported, CountInv, ChildInv, EndInv
<1> QED BY <1>1, <1>2, <1>3, <1>4, <1>5, <1>6, <1>7

LEMMA PollKeeps == ASSUME IInv, Poll PROVE IInv'
<1> USE ChildAssumption DEF Poll, Events, reader, process, IInv, TypeOK, Pipes, Reading, Waiting, InRun
<1>1. TypeOK' BY DEF CountInv
<1>2. PidInv' BY DEF PidInv
<1>3. ChildInv' BY DEF ChildInv, PidInv
<1>4. EventsInv' BY DEF EventsInv, ChildInv
<1>5. EndInv' BY DEF EndInv, EventsInv, ChildInv
<1>6. CountInv' BY DEF CountInv, ChildInv
<1>7. ReportInv' BY DEF ReportInv, AllReported, CountInv, ChildInv, EndInv
<1> QED BY <1>1, <1>2, <1>3, <1>4, <1>5, <1>6, <1>7

LEMMA LeaveLoopKeeps == ASSUME IInv, LeaveLoop PROVE IInv'
<1> USE ChildAssumption DEF LeaveLoop, LeaveDue, reader, process, IInv, TypeOK, Pipes, Reading, Waiting, InRun
<1>1. TypeOK' BY DEF CountInv
<1>2. PidInv' BY DEF PidInv
<1>3. ChildInv' BY DEF ChildInv, PidInv
<1>4. EventsInv' BY DEF EventsInv, ChildInv
<1>5. EndInv' BY DEF EndInv, EventsInv, ChildInv
<1>6. CountInv' BY DEF CountInv, ChildInv
<1>7. ReportInv' BY DEF ReportInv, AllReported, CountInv, ChildInv, EndInv
<1> QED BY <1>1, <1>2, <1>3, <1>4, <1>5, <1>6, <1>7

LEMMA ReadOutKeeps == ASSUME IInv, ReadOut PROVE IInv'
<1> USE ChildAssumption DEF ReadOut, StillPolled, LinesIn, reader, process, IInv, TypeOK, Pipes, Reading, Waiting, InRun
<1>1. TypeOK' BY DEF CountInv
<1>2. PidInv' BY DEF PidInv
<1>3. ChildInv' BY DEF ChildInv, PidInv
<1>4. EventsInv' BY DEF EventsInv, ChildInv
<1>5. EndInv' BY DEF EndInv, EventsInv, ChildInv
<1>6. CountInv' BY DEF CountInv, ChildInv
<1>7. ReportInv' BY DEF ReportInv, AllReported, CountInv, ChildInv, EndInv
<1> QED BY <1>1, <1>2, <1>3, <1>4, <1>5, <1>6, <1>7

LEMMA ReadErrKeeps == ASSUME IInv, ReadErr PROVE IInv'
<1> USE ChildAssumption DEF ReadErr, StillPolled, MayReadErr, reader, process, IInv, TypeOK, Pipes, Reading, Waiting, InRun
<1>1. TypeOK' BY DEF CountInv
<1>2. PidInv' BY DEF PidInv
<1>3. ChildInv' BY DEF ChildInv, PidInv
<1>4. EventsInv' BY DEF EventsInv, ChildInv
<1>5. EndInv' BY DEF EndInv, EventsInv, ChildInv
<1>6. CountInv' BY DEF CountInv, ChildInv
<1>7. ReportInv' BY DEF ReportInv, AllReported, CountInv, ChildInv, EndInv
<1> QED BY <1>1, <1>2, <1>3, <1>4, <1>5, <1>6, <1>7

LEMMA ReapKeeps == ASSUME IInv, Reap PROVE IInv'
<1> USE ChildAssumption DEF Reap, reader, process, IInv, TypeOK, Pipes, Reading, Waiting, InRun
<1>1. TypeOK' BY DEF CountInv
<1>2. PidInv' BY DEF PidInv
<1>3. ChildInv' BY DEF ChildInv, PidInv
<1>4. EventsInv' BY DEF EventsInv, ChildInv
<1>5. EndInv' BY DEF EndInv, EventsInv, ChildInv
<1>6. CountInv' BY DEF CountInv, ChildInv
<1>7. ReportInv' BY DEF ReportInv, AllReported, CountInv, ChildInv, EndInv
<1> QED BY <1>1, <1>2, <1>3, <1>4, <1>5, <1>6, <1>7

LEMMA WaitStepKeeps == ASSUME IInv, WaitStep PROVE IInv'
<1> USE ChildAssumption DEF WaitStep, Signal, KillDue, reader, process, IInv, TypeOK, Pipes, Reading, Waiting, InRun
<1>1. TypeOK'
  <2>0. signalled' = signalled \/ signalled' = TRUE OBVIOUS
  <2>1. waited' \in 0..Patience
    <3>1. waited' = 1 \/ waited' = waited \/ (waited < Patience /\ waited' = waited + 1) OBVIOUS
    <3>2. waited \in 0..Patience /\ Patience \in Nat \ {0} OBVIOUS
    <3> QED BY ONLY <3>1, <3>2
  <2>2. child' \in {child, "exited"} /\ status' \in {status, FALSE} /\ terminated' \in {terminated, TRUE}
    OBVIOUS
  <2>3. phase' \in {"wait", "killed"} /\ UNCHANGED <<left, pipe>> OBVIOUS
  <2>4. UNCHANGED <<pass, fds, revents, got, reported, success, child_pid, stop, window>> OBVIOUS
  <2>5. signalled' \in BOOLEAN /\ status' \in BOOLEAN /\ terminated' \in BOOLEAN BY <2>0, <2>2
  <2> QED BY <2>1, <2>2, <2>3, <2>4, <2>5
<1>2. PidInv' BY DEF PidInv
<1>3. ChildInv' BY DEF ChildInv, PidInv
<1>4. EventsInv' BY DEF EventsInv, ChildInv
<1>5. EndInv' BY DEF EndInv, EventsInv, ChildInv
<1>6. CountInv' BY DEF CountInv, ChildInv
<1>7. ReportInv' BY DEF ReportInv, AllReported, CountInv, ChildInv, EndInv
<1> QED BY <1>1, <1>2, <1>3, <1>4, <1>5, <1>6, <1>7

LEMMA ClearPidKeeps == ASSUME IInv, ClearPid PROVE IInv'
<1> USE ChildAssumption DEF ClearPid, PidAfter, reader, process, IInv, TypeOK, Pipes, Reading, Waiting, InRun
<1>1. TypeOK'
  <2>1. success' \in BOOLEAN
    <3>1. CASE success' = FALSE BY <3>1
    <3>2. CASE success' = (status /\ pass = 2) BY <3>2, Zenon
    <3> QED BY <3>1, <3>2
  <2>2. pass' \in 1..2 /\ phase' \in {"spawn", "over"} /\ child_pid' = 0 OBVIOUS
  <2>3. /\ UNCHANGED <<fds, revents, got, reported, signalled, waited>>
        /\ UNCHANGED <<child, left, pipe, terminated, status, stop, window>>
    OBVIOUS
  <2> QED BY <2>1, <2>2, <2>3
<1>2. PidInv' BY DEF PidInv
<1>3. ChildInv' BY DEF ChildInv, PidInv
<1>4. EventsInv' BY DEF EventsInv, ChildInv
<1>5. EndInv' BY DEF EndInv, EventsInv, ChildInv
<1>6. CountInv' BY DEF CountInv, ChildInv
<1>7. ReportInv' BY DEF ReportInv, AllReported, CountInv, ChildInv, EndInv
<1> QED BY <1>1, <1>2, <1>3, <1>4, <1>5, <1>6, <1>7

LEMMA StopKeeps == ASSUME IInv, Stop PROVE IInv'
<1> USE ChildAssumption DEF Stop, reader, process, IInv, TypeOK, Pipes, Reading, Waiting, InRun
<1>1. TypeOK' BY DEF CountInv
<1>2. PidInv' BY DEF PidInv
<1>3. ChildInv' BY DEF ChildInv, PidInv
<1>4. EventsInv' BY DEF EventsInv, ChildInv
<1>5. EndInv' BY DEF EndInv, EventsInv, ChildInv
<1>6. CountInv' BY DEF CountInv, ChildInv
<1>7. ReportInv' BY DEF ReportInv, AllReported, CountInv, ChildInv, EndInv
<1> QED BY <1>1, <1>2, <1>3, <1>4, <1>5, <1>6, <1>7

LEMMA DestroyKeeps == ASSUME IInv, Destroy PROVE IInv'
<1> USE ChildAssumption DEF Destroy, Signal, reader, process, IInv, TypeOK, Pipes, Reading, Waiting, InRun
<1>1. TypeOK' BY DEF CountInv
<1>2. PidInv' BY DEF PidInv
<1>3. ChildInv' BY DEF ChildInv, PidInv
<1>4. EventsInv' BY DEF EventsInv, ChildInv
<1>5. EndInv' BY DEF EndInv, EventsInv, ChildInv
<1>6. CountInv' BY DEF CountInv, ChildInv
<1>7. ReportInv' BY DEF ReportInv, AllReported, CountInv, ChildInv, EndInv
<1> QED BY <1>1, <1>2, <1>3, <1>4, <1>5, <1>6, <1>7

LEMMA DestroyKillsKeeps == ASSUME IInv, DestroyKills PROVE IInv'
<1> USE ChildAssumption DEF DestroyKills, Signal, reader, process, IInv, TypeOK, Pipes, Reading, Waiting, InRun
<1>1. TypeOK' BY DEF CountInv
<1>2. PidInv' BY DEF PidInv
<1>3. ChildInv' BY DEF ChildInv, PidInv
<1>4. EventsInv' BY DEF EventsInv, ChildInv
<1>5. EndInv' BY DEF EndInv, EventsInv, ChildInv
<1>6. CountInv' BY DEF CountInv, ChildInv
<1>7. ReportInv' BY DEF ReportInv, AllReported, CountInv, ChildInv, EndInv
<1> QED BY <1>1, <1>2, <1>3, <1>4, <1>5, <1>6, <1>7

LEMMA JoinKeeps == ASSUME IInv, Join PROVE IInv'
<1> USE ChildAssumption DEF Join, reader, process, IInv, TypeOK, Pipes, Reading, Waiting, InRun
<1>1. TypeOK' BY DEF CountInv
<1>2. PidInv' BY DEF PidInv
<1>3. ChildInv' BY DEF ChildInv, PidInv
<1>4. EventsInv' BY DEF EventsInv, ChildInv
<1>5. EndInv' BY DEF EndInv, EventsInv, ChildInv
<1>6. CountInv' BY DEF CountInv, ChildInv
<1>7. ReportInv' BY DEF ReportInv, AllReported, CountInv, ChildInv, EndInv
<1> QED BY <1>1, <1>2, <1>3, <1>4, <1>5, <1>6, <1>7

-----------------------------------------------------------------------------
LEMMA StepKeeps == ASSUME IInv, [Next]_vars PROVE IInv'
<1>1. CASE Child
  <2>1. ASSUME NEW f \in Pipes, Write(f) PROVE IInv' BY <2>1, WriteKeeps
  <2> QED BY <1>1, <2>1, ExitKeeps DEF Child
<1>2. CASE WorkThread
  BY <1>2, SpawnKeeps, SetPidKeeps, PollKeeps, LeaveLoopKeeps, ReadOutKeeps, ReadErrKeeps, ReapKeeps,
     WaitStepKeeps, ClearPidKeeps DEF WorkThread
<1>3. CASE Crash \/ Stop \/ Destroy \/ DestroyKills \/ Join
  BY <1>3, CrashKeeps, StopKeeps, DestroyKeeps, DestroyKillsKeeps, JoinKeeps
<1>4. CASE UNCHANGED vars
  BY <1>4 DEF vars, reader, process, IInv, TypeOK, PidInv, ChildInv, EventsInv, EndInv, CountInv, ReportInv, AllReported
<1> QED BY <1>1, <1>2, <1>3, <1>4 DEF Next

LEMMA IInvAlways == Spec => []IInv
BY InitIInv, StepKeeps, PTL DEF Spec

\* The variables of the reader, of the child and of the pipes keep their types and
\* bounds, for any number of lines: what was read is never more than what was written.
THEOREM TypeOKAlways == Spec => []TypeOK
<1>1. IInv => TypeOK BY DEF IInv
<1> QED BY <1>1, IInvAlways, PTL

\* A transfer that succeeds without a stop has reported every line of the second run,
\* for any number of lines, any capacity of the pipes and any cut of the reads.
THEOREM AllReportedAlways == Spec => []AllReported
<1>1. IInv => AllReported BY DEF IInv, ReportInv
<1> QED BY <1>1, IInvAlways, PTL

\* child_pid never names a child of another run, nor one of a run that is over.
THEOREM PidOfThisRunAlways == Spec => []PidOfThisRun
<1>1. IInv => PidOfThisRun
  BY DEF IInv, TypeOK, PidInv, ChildInv, PidOfThisRun, Reading, Waiting
<1> QED BY <1>1, IInvAlways, PTL
=============================================================================
