------------------------------ MODULE RsyncChild ------------------------------
(***************************************************************************)
(* The two runs of rsync of a transfer (work_rsync_backend_run): the work  *)
(* thread reads the two pipes of the child with one poll, waits for it,    *)
(* and terminates it when a stop is requested; closing the window signals  *)
(* it too. A line of output is two chunks, so that a read may split it.    *)
(***************************************************************************)
EXTENDS Naturals

CONSTANTS
    Lines, Errors,              \* lines on stdout in the second run, chunks on stderr
    Capacity,                   \* of a pipe, in chunks
    Patience                    \* steps of 100 ms between SIGTERM and SIGKILL

ASSUME ChildAssumption ==
    Lines \in Nat /\ Errors \in Nat /\ Capacity \in Nat \ {0} /\ Patience \in Nat \ {0}

VARIABLES
    pass, phase,                \* the work thread: which run, and where in it
    fds, revents,               \* pipes still polled; what poll returned
    got, reported,              \* chunks of stdout read; rows reported
    signalled, waited,          \* SIGTERM was sent; steps since then
    success,                    \* what the runs return
    child, left, pipe,          \* the child: state, chunks to write, chunks in its pipes
    terminated, status,         \* it has received SIGTERM; its exit status is 0
    child_pid,                  \* cecup.child_pid: the run whose child it names, or 0
    stop, window                \* the stop flag; on_window_destroy

reader == <<pass, phase, fds, revents, got, reported, signalled, waited, success>>
process == <<child, left, pipe, terminated, status>>
vars == <<reader, process, child_pid, stop, window>>

Pipes == {"out", "err"}
Empty == [f \in Pipes |-> 0]

Init ==
    /\ pass = 1 /\ phase = "spawn" /\ fds = {} /\ revents = {}
    /\ got = 0 /\ reported = 0 /\ signalled = FALSE /\ waited = 0 /\ success = FALSE
    /\ child = "none" /\ left = Empty /\ pipe = Empty /\ terminated = FALSE /\ status = FALSE
    /\ child_pid = 0 /\ stop = FALSE /\ window = "open"

-----------------------------------------------------------------------------
(* The child; once it has exited, and only then, its pipes hang up.        *)

Write(f) ==
    /\ child = "running" /\ left[f] > 0 /\ pipe[f] < Capacity
    /\ left' = [left EXCEPT ![f] = @ - 1] /\ pipe' = [pipe EXCEPT ![f] = @ + 1]
    /\ UNCHANGED <<reader, child, terminated, status, child_pid, stop, window>>

Exit ==
    /\ child = "running"
    /\ \/ left = Empty /\ status' \in BOOLEAN
       \/ terminated /\ status' = FALSE
    /\ child' = "exited"
    /\ UNCHANGED <<reader, left, pipe, terminated, child_pid, stop, window>>

Crash ==                        \* it fails before it has written all it would
    /\ child = "running" /\ child' = "exited" /\ status' = FALSE
    /\ UNCHANGED <<reader, left, pipe, terminated, child_pid, stop, window>>

\* xkill of the process group, in one step with the reading of child_pid; an exited child
\* that is not waited for takes no harm, and a reaped one is taken for gone.
Signal(kill) ==
    IF child_pid = 0 \/ child # "running" THEN UNCHANGED process
    ELSE IF kill THEN child' = "exited" /\ status' = FALSE /\ UNCHANGED <<left, pipe, terminated>>
    ELSE terminated' = TRUE /\ UNCHANGED <<child, left, pipe, status>>

-----------------------------------------------------------------------------
(* work_rsync_run                                                          *)

Spawn ==
    /\ phase = "spawn"
    /\ \/ /\ phase' = "started" /\ child' = "running" /\ pipe' = Empty
          /\ \E n \in 0..Errors : left' = [out |-> 2 * Lines, err |-> n]
          /\ terminated' = FALSE /\ UNCHANGED <<fds, success>>
       \/ phase' = "over" /\ success' = FALSE /\ UNCHANGED <<fds, process>>
    /\ got' = 0 /\ UNCHANGED <<pass, revents, reported, signalled, waited, status, child_pid, stop, window>>

SetPid ==                       \* a stop before this finds no child to signal
    /\ phase = "started" /\ phase' = "loop"
    /\ child_pid' = pass /\ fds' = Pipes /\ signalled' = FALSE /\ waited' = 0
    /\ UNCHANGED <<pass, revents, got, reported, success, process, stop, window>>

\* What poll reports; a pipe that has hung up may still hold output.
Events == {<<f, "in">> : f \in {x \in fds : pipe[x] > 0}}
          \cup {<<f, "hup">> : f \in {x \in fds : child \in {"exited", "reaped"}}}

\* Every 100 ms at the latest the loop is at its start again.
Poll ==
    /\ phase = "loop" /\ ~stop /\ fds # {} /\ Events # {}
    /\ revents' = Events /\ phase' = "out"
    /\ UNCHANGED <<pass, fds, got, reported, signalled, waited, success, process, child_pid, stop, window>>

\* Slip: a stop is only looked at after the output has ended.
LeaveAtEnd == fds = {}
LeaveDue == stop \/ fds = {}

LeaveLoop ==
    /\ phase = "loop" /\ LeaveDue /\ phase' = "wait"
    /\ UNCHANGED <<pass, fds, revents, got, reported, signalled, waited, success, process, child_pid, stop, window>>

\* Slip: a pipe that has hung up is given up with what it still holds.
DropOnHup(f) == IF <<f, "hup">> \in revents THEN fds \ {f} ELSE fds
StillPolled(f) ==
    IF <<f, "in">> \notin revents /\ <<f, "hup">> \in revents THEN fds \ {f} ELSE fds

\* Slip: the first half of a line is lost when the read ends with it.
LinesSplit(n, new) == n \div 2 + new \div 2
\* Slip: what was read is looked at again.
LinesAgain(n, new) == n + new
LinesIn(n, new) == (n + new) \div 2

ReadOut ==
    /\ phase = "out" /\ phase' = "err" /\ fds' = StillPolled("out")
    /\ IF <<"out", "in">> \in revents
       THEN \E n \in 1..pipe["out"] :
               /\ pipe' = [pipe EXCEPT !["out"] = @ - n] /\ got' = got + n
               /\ reported' = IF pass = 2 THEN LinesIn(got, n) ELSE 0
       ELSE UNCHANGED <<pipe, got, reported>>
    /\ UNCHANGED <<pass, revents, signalled, waited, success, child, left, terminated, status, child_pid, stop, window>>

\* Slip: standard error is read only after standard output has ended.
ReadErrLast == "out" \notin fds
MayReadErr == TRUE

ReadErr ==
    /\ phase = "err" /\ phase' = "loop" /\ revents' = {} /\ fds' = StillPolled("err")
    /\ IF <<"err", "in">> \in revents /\ MayReadErr
       THEN \E n \in 1..pipe["err"] : pipe' = [pipe EXCEPT !["err"] = @ - n]
       ELSE UNCHANGED pipe
    /\ UNCHANGED <<pass, got, reported, signalled, waited, success, child, left, terminated, status, child_pid, stop, window>>

-----------------------------------------------------------------------------
(* work_rsync_wait_child: every 100 ms, without blocking until SIGKILL     *)

Reap ==
    /\ phase \in {"wait", "killed"} /\ child = "exited"
    /\ child' = "reaped" /\ phase' = "reaped"
    /\ UNCHANGED <<pass, fds, revents, got, reported, signalled, waited, success, left, pipe, terminated, status, child_pid, stop, window>>

\* Slip: only SIGTERM is ever sent.
NeverKills == FALSE
KillDue == waited >= Patience

WaitStep ==
    /\ phase = "wait" /\ child = "running" /\ stop
    /\ \/ /\ ~signalled /\ Signal(FALSE) /\ signalled' = TRUE /\ waited' = 1
          /\ UNCHANGED phase
       \/ /\ signalled /\ KillDue /\ Signal(TRUE) /\ phase' = "killed"
          /\ UNCHANGED <<signalled, waited>>
       \/ /\ signalled /\ waited < Patience /\ waited' = waited + 1
          /\ UNCHANGED <<phase, signalled, process>>
    /\ UNCHANGED <<pass, fds, revents, got, reported, success, child_pid, stop, window>>

\* Slip: the pid is kept until the next run sets its own.
PidKept == child_pid
PidAfter == 0

\* The second run only follows a good first one that no stop was requested in.
ClearPid ==
    /\ phase = "reaped" /\ child_pid' = PidAfter
    /\ IF status /\ pass = 1 /\ ~stop THEN pass' = 2 /\ phase' = "spawn" /\ success' = FALSE
       ELSE UNCHANGED pass /\ phase' = "over" /\ success' = (status /\ pass = 2)
    /\ UNCHANGED <<fds, revents, got, reported, signalled, waited, process, stop, window>>

-----------------------------------------------------------------------------
(* The main loop                                                           *)

Stop ==                         \* the stop button
    /\ window = "open" /\ stop' = TRUE
    /\ UNCHANGED <<reader, process, child_pid, window>>

\* on_window_destroy: a stop and SIGTERM; SIGKILL after two seconds; then it joins.
Destroy ==
    /\ window = "open" /\ window' = "waiting" /\ stop' = TRUE /\ Signal(FALSE)
    /\ UNCHANGED <<reader, child_pid>>

DestroyKills ==
    /\ window = "waiting" /\ phase # "over" /\ window' = "joining" /\ Signal(TRUE)
    /\ UNCHANGED <<reader, child_pid, stop>>

Join ==
    /\ window \in {"waiting", "joining"} /\ phase = "over" /\ window' = "closed"
    /\ UNCHANGED <<reader, process, child_pid, stop>>

WorkThread ==
    \/ Spawn \/ SetPid \/ Poll \/ LeaveLoop \/ ReadOut \/ ReadErr
    \/ Reap \/ WaitStep \/ ClearPid

Child == Exit \/ \E f \in Pipes : Write(f)

Next == WorkThread \/ Child \/ Crash \/ Stop \/ Destroy \/ DestroyKills \/ Join

\* The threads run on; nothing is assumed of the child.
Fairness == WF_vars(WorkThread) /\ WF_vars(Join)
Spec == Init /\ [][Next]_vars /\ Fairness

-----------------------------------------------------------------------------
TypeOK ==
    /\ pass \in 1..2 /\ child_pid \in 0..2 /\ fds \subseteq Pipes /\ revents \subseteq Pipes \X {"in", "hup"}
    /\ phase \in {"spawn", "started", "loop", "out", "err", "wait", "killed", "reaped", "over"}
    /\ got \in 0..2 * Lines /\ reported \in 0..Lines /\ waited \in 0..Patience
    /\ child \in {"none", "running", "exited", "reaped"} /\ pipe \in [Pipes -> 0..Capacity]
    /\ left \in [Pipes -> 0..(2 * Lines + Errors)]
    /\ window \in {"open", "waiting", "joining", "closed"}
    /\ signalled \in BOOLEAN /\ success \in BOOLEAN /\ terminated \in BOOLEAN
    /\ status \in BOOLEAN /\ stop \in BOOLEAN

\* A transfer that succeeds and was not stopped has reported a row for every line of the
\* second run, however its output was cut into reads and whenever the pipes hung up.
AllReported == phase = "over" /\ success /\ ~stop => reported = Lines

\* child_pid names no child but the one of the present run, and none once that run is
\* over or another begins; a child that runs can be signalled. Signal reads child_pid and
\* sends in one step: this bounds the time in which a pid that was read may be of a child
\* that was waited for since (aux.c:112), and does not exclude it.
PidOfThisRun ==
    /\ child_pid # 0 => child_pid = pass /\ phase \notin {"spawn", "started", "over"}
    /\ child = "running" /\ phase \notin {"started"} => child_pid = pass

\* A stop ends the transfer, even of a child that ignores SIGTERM and writes for ever.
StopEnds == stop ~> phase = "over"

\* A child that goes on as long as it can does come to its end: the thread that reads
\* its two pipes never waits for one while the child waits for the other.
RunsEnd == WF_vars(Child) => <>(phase = "over")

\* Closing the window does not wait for ever for the work thread.
WindowCloses == window = "waiting" ~> window = "closed"
=============================================================================
