------------------------------ MODULE ManualSync ------------------------------
(***************************************************************************)
(* A synchronisation with the manual backend (work_transfer, work_remove,  *)
(* work_manual_backend_run): the planned deletions, then the planned       *)
(* copies, on the directories themselves. Any system call may be refused,  *)
(* a stop may come at any time, and a crash leaves the state it finds.     *)
(*                                                                         *)
(* The source does not change meanwhile. What lies beyond a symlink of the *)
(* backup is not modelled; that something was written there is.            *)
(***************************************************************************)
EXTENDS Trees

CONSTANTS
    SourceTrees, BackupTrees,
    Options,                    \* records [deleteAfter, deleteIgnored]
    Inodes,                     \* identities for the files of the backup
    Now                         \* a time later than those in the trees

Partial == 0                    \* "attr" of what is not complete yet

Node == [kind : Kinds, ino : Inodes, attr : Nat, mtime : Nat, access : {"ok"}]

ASSUME SyncAssumption ==
    /\ Now \in Nat /\ Absent.ino \in Inodes
    /\ \A t \in SourceTrees \cup BackupTrees :
          /\ IsTree(t) /\ NothingIsAbsent(t) /\ t \in [Place -> Node]
          /\ \A p \in Place : t[p].mtime < Now
          /\ \A p, q \in Place :     \* the names of a file show one file
                t[p].kind = "file" /\ t[q].kind = "file" /\ t[p].ino = t[q].ino => t[p] = t[q]
    /\ \A t \in SourceTrees : \A p \in Place : Exists(t, p) => t[p].attr # Partial
    /\ \A f \in [Place -> Inodes] : \E i \in Inodes : \A p \in Place : f[p] # i

VARIABLES
    src, dst,                   \* the two directories
    old,                        \* the backup as it was analysed
    opts,
    plan,                       \* what is asked for: [from, copy, delete]
    phase,                      \* "delete", "copy" or "done"
    doomed, pending,            \* deletions and copies not begun
    group, again, own,          \* names being copied; the task's own name after
                                \* them; that it is the one being copied
    open,                       \* the file that is being written
    links,                      \* ManualTransferState.hardlinks: <<inode, place>>
    stop,
    errors,                     \* a call was refused, or the work was stopped
    outside                     \* something was written through a symlink

inputs == <<src, old, opts, plan>>
todo   == <<doomed, pending, group, again, own, open, links>>
vars   == <<inputs, dst, phase, todo, stop, errors, outside>>

\* What may be asked for: all of the plan, rows chosen in either column with the
\* actions they show, or the deletion of any rows of the backup (get_target_tasks).
Plan(from, copy, delete) == [from |-> from, copy |-> copy, delete |-> delete]
Plans ==
    LET copies == ToTransfer(src, old, opts)
        deletions == DeletionsOf(src, old, opts)
    IN  {Plan("all", TransfersOf(src, old, opts), deletions)}
        \cup {Plan("src", c, {}) : c \in SUBSET copies}
        \cup {Plan("dst", c, d) : c \in SUBSET (copies \cap KeysOf(old)), d \in SUBSET deletions}
        \cup {Plan("dst", {}, d) : d \in SUBSET KeysOf(old)}

Init ==
    /\ src \in SourceTrees /\ old \in BackupTrees /\ opts \in Options
    /\ plan \in Plans /\ dst = old
    /\ phase = "delete" /\ doomed = plan.delete /\ pending = plan.copy
    /\ group = {} /\ again = {} /\ own = FALSE /\ open = {} /\ links = {}
    /\ stop = FALSE /\ errors = FALSE /\ outside = FALSE

\* A hard link that was chosen in a column brings the names listed on that side.
NamesWith(k) ==
    IF VerdictOf(src, old, k, opts).src # "hardlink" \/ plan.from = "all" THEN {}
    ELSE AllNames(IF plan.from = "src" THEN src ELSE old, k[1])

-----------------------------------------------------------------------------
(* What system calls do to a tree. Adding or removing an entry changes the *)
(* time of the directory it is in.                                         *)

IsParent(a, p) == a \in Above[p] /\ \A b \in Above[p] : b = a \/ b \in Above[a]

\* The entries of S are made or replaced.
Enter(t, S, new) ==
    [q \in Place |->
        IF q \in S THEN new
        ELSE IF \E s \in S : IsParent(q, s) /\ ~Exists(t, s)
        THEN [t[q] EXCEPT !.mtime = Now] ELSE t[q]]

\* The entries of S are removed.
Without(t, S) ==
    [q \in Place |->
        IF q \in S THEN Absent
        ELSE IF \E s \in S : IsParent(q, s) /\ Exists(t, s)
        THEN [t[q] EXCEPT !.mtime = Now] ELSE t[q]]

\* The file at p is written: all its names show it.
Written(t, p, a, m) ==
    [q \in Place |-> IF t[q].kind = "file" /\ t[q].ino = t[p].ino
                     THEN [t[q] EXCEPT !.attr = a, !.mtime = m] ELSE t[q]]

Fresh(t) == CHOOSE i \in Inodes : \A q \in Place : t[q].ino # i

FreshDir == [kind |-> "dir", ino |-> Absent.ino, attr |-> Partial, mtime |-> Now, access |-> "ok"]
FreshFile(t) == [kind |-> "file", ino |-> Fresh(t), attr |-> Partial, mtime |-> Now, access |-> "ok"]

\* work_manual_make_parent_dirs
Missing(t, p) == {a \in Above[p] : ~Exists(t, a)}
Parents(t, S) == Enter(t, S, FreshDir)

-----------------------------------------------------------------------------
(* work_remove, for the planned deletions: a file is unlinked, a directory   *)
(* emptied from below. "gone" is what was removed before a call was refused. *)

StopRequested ==
    /\ ~stop /\ phase # "done" /\ stop' = TRUE
    /\ UNCHANGED <<inputs, dst, phase, todo, errors, outside>>

Subtree(k) ==
    IF k[2] = "dir" /\ dst[k[1]].kind = "dir" THEN {k[1]} \cup Below(k[1])
    ELSE IF k[2] = "leaf" /\ dst[k[1]].kind # "dir" THEN {k[1]} ELSE {}

Delete(k) ==
    /\ phase = "delete" /\ ~stop /\ k \in doomed
    /\ doomed' = doomed \ {k}
    /\ \/ dst' = Without(dst, Subtree(k)) /\ UNCHANGED errors
       \/ \E gone \in SUBSET Subtree(k) :
             /\ \A q \in gone : \A b \in Below(q) : Exists(dst, b) => b \in gone
             /\ dst' = Without(dst, gone) /\ errors' = TRUE
    /\ UNCHANGED <<inputs, phase, pending, group, again, own, open, links, stop, outside>>

\* Slip: the copies do not wait for the deletions.
StartCopies_Early ==
    /\ phase = "delete" /\ ~stop
    /\ phase' = IF plan.copy = {} THEN "done" ELSE "copy"
    /\ UNCHANGED <<inputs, dst, todo, stop, errors, outside>>

StartCopies ==
    /\ phase = "delete" /\ doomed = {}
    /\ phase' = IF plan.copy = {} THEN "done" ELSE "copy"
    /\ UNCHANGED <<inputs, dst, todo, stop, errors, outside>>

-----------------------------------------------------------------------------
(* The copies, of the plan in any order, of rows one after the other. A row *)
(* of a hard link copies the names with it, and then its own name once more, *)
(* even after a stop.                                                        *)

Take(k) ==
    /\ phase = "copy" /\ ~stop /\ open = {} /\ ~own /\ group = {} /\ again = {} /\ k \in pending
    /\ pending' = pending \ {k}
    /\ IF NamesWith(k) = {} THEN group' = {k} /\ again' = {}
       ELSE group' = NamesWith(k) /\ again' = {k}
    /\ UNCHANGED <<inputs, dst, phase, doomed, own, open, links, stop, errors, outside>>

TakeAgain ==
    /\ phase = "copy" /\ open = {} /\ ~own /\ again # {}
    /\ group = {} \/ stop
    /\ group' = again /\ again' = {} /\ own' = TRUE
    /\ UNCHANGED <<inputs, dst, phase, doomed, pending, open, links, stop, errors, outside>>

\* One name comes to its copy.
Turn(k) ==
    /\ phase = "copy" /\ open = {}
    /\ ~stop \/ own
    /\ k \in group /\ group' = group \ {k} /\ own' = FALSE
    /\ UNCHANGED <<inputs, phase, doomed, pending, again, stop>>

\* A directory of the path is a file, and every call fails, or a symlink.
Barred(p)   == \E a \in Above[p] : dst[a].kind \in {"file", "special"}
Diverted(p) == \E a \in Above[p] : dst[a].kind = "symlink"
Clear(p)    == ~Barred(p) /\ ~Diverted(p)

\* Slip: every name gets a file of its own.
Remembered_Never(p) == FALSE

\* work_manual_hardlink_find
Remembered(p) == Linked(src, p) /\ \E l \in links : l[1] = src[p].ino
FirstName(p)  == CHOOSE r \in Place : <<src[p].ino, r>> \in links

\* What stands at p is unlinked before the copy: a directory cannot be. (Under
\* the path of a directory, with its slash, no other entry is found.)
Unlinks(k) ==
    LET p == k[1]
    IN  /\ dst[p].kind \notin {"none", "dir"}
        /\ \/ src[p].kind = "symlink"
           \/ src[p].kind = "file" /\ (dst[p].kind # "file" \/ Remembered(p))
           \/ src[p].kind = "dir" /\ k[2] = "leaf"

\* The copy is given up: some parents may have been made by then, and what stood
\* in the way unlinked.
FailCopy(k) ==
    LET p == k[1]
    IN  /\ Turn(k) /\ errors' = TRUE
        /\ \E made \in SUBSET Missing(dst, p), gone \in SUBSET {p} :
              /\ \A a \in made : Above[a] \cap Missing(dst, p) \subseteq made
              /\ made # {} \/ gone # {} => Clear(p) /\ src[p].kind \in {"file", "symlink", "dir"}
              /\ gone # {} => Unlinks(k)
              /\ dst' = Without(Parents(dst, made), gone)
        /\ UNCHANGED <<open, links, outside>>

\* A directory of the path, or what should be replaced and could not be, is a
\* symlink: what follows happens at its target.
CopyElsewhere(k) ==
    LET p == k[1]
    IN  /\ Turn(k) /\ outside' = TRUE /\ ~Barred(p) /\ Exists(src, p)
        /\ \/ Diverted(p) /\ UNCHANGED errors
           \/ src[p].kind = "dir" /\ dst[p].kind = "symlink" /\ UNCHANGED errors
           \/ src[p].kind = "file" /\ dst[p].kind = "symlink" /\ errors' = TRUE
        /\ \/ UNCHANGED links
           \/ Linked(src, p) /\ ~Remembered(p) /\ links' = links \cup {<<src[p].ino, p>>}
        /\ UNCHANGED <<dst, open>>

\* work_manual_copy_dir. Refused modes or times are only logged; they go to the
\* file at p if that could not be unlinked.
CopyDir(k) ==
    LET p == k[1]
        t == Parents(dst, Missing(dst, p))
        made == IF dst[p].kind = "dir" THEN dst[p] ELSE FreshDir
    IN  /\ Turn(k) /\ Clear(p) /\ src[p].kind = "dir"
        /\ \/ /\ \/ dst[p].kind \in {"none", "dir"}
                 \/ Unlinks(k) /\ ~stop
              /\ \E a \in {made.attr, src[p].attr}, m \in {made.mtime, src[p].mtime} :
                    /\ dst' = Enter(t, {p}, [made EXCEPT !.attr = a, !.mtime = m])
                    /\ errors' = (errors \/ a # src[p].attr \/ m # src[p].mtime)
           \/ /\ Unlinks(k) /\ ~stop /\ dst[p].kind = "file" /\ errors' = TRUE
              /\ dst' = Written(dst, p, Partial, src[p].mtime)
        /\ UNCHANGED <<open, links, outside>>

\* work_manual_copy_symlink
CopySymlink(k) ==
    LET p == k[1]
    IN  /\ Turn(k) /\ Clear(p) /\ src[p].kind = "symlink"
        /\ dst[p].kind = "none" \/ (dst[p].kind # "dir" /\ ~stop)
        /\ dst' = Enter(Without(Parents(dst, Missing(dst, p)), {p}),
                        {p}, [src[p] EXCEPT !.mtime = Now])
        /\ UNCHANGED <<open, links, errors, outside>>

\* work_manual_copy_regular, for a name of a file copied before: it is linked to
\* it. After a stop the name is unlinked but not linked (FailCopy).
LinkFile(k) ==
    LET p == k[1]
        r == FirstName(p)
        first == IF dst[r].kind = "file" THEN dst[r]      \* or it lies beyond a symlink
                 ELSE [src[p] EXCEPT !.ino = Fresh(dst)]
    IN  /\ Turn(k) /\ Clear(p) /\ src[p].kind = "file" /\ Remembered(p) /\ dst[p].kind # "dir"
        /\ stop => r = p \/ ~Exists(dst, p)
        /\ dst' = IF r = p THEN dst
                  ELSE Enter(Without(Parents(dst, Missing(dst, p)), {p}), {p}, first)
        /\ UNCHANGED <<open, links, errors, outside>>

\* Slip: a directory in the way is removed with all that is in it.
OpenFile_ClearsDir(k) ==
    LET p == k[1]
        t == Parents(dst, Missing(dst, p))
    IN  /\ Turn(k) /\ Clear(p) /\ src[p].kind = "file" /\ ~stop
        /\ open' = {k}
        /\ dst' = Enter(Without(t, {p} \cup Below(p)), {p}, FreshFile(t))
        /\ UNCHANGED <<errors, links, outside>>

\* work_manual_copy_regular, otherwise: the file is made, or truncated where it
\* is. A name whose link was refused is copied too.
OpenFile(k) ==
    LET p == k[1]
        t == Parents(dst, Missing(dst, p))
        fresh == Enter(Without(t, {p}), {p}, FreshFile(t))
    IN  /\ Turn(k) /\ Clear(p) /\ src[p].kind = "file" /\ dst[p].kind # "dir"
        /\ stop => ~Unlinks(k)
        /\ open' = {k}
        /\ \/ ~Exists(dst, p) /\ dst' = fresh
           \/ Unlinks(k) /\ dst' = fresh
           \/ dst[p].kind = "file" /\ dst' = Written(dst, p, Partial, Now)
        /\ errors' = (errors \/ Remembered(p))
        /\ UNCHANGED <<links, outside>>

\* Slip: the file keeps the time at which it was written.
CloseFile_NoTimes(k) ==
    /\ phase = "copy" /\ k \in open /\ open' = {}
    /\ dst' = Written(dst, k[1], src[k[1]].attr, Now)
    /\ UNCHANGED <<inputs, phase, doomed, pending, group, again, own, links, stop, errors, outside>>

\* The contents, then mode and times. Refused contents leave the file short;
\* refused modes or times are only logged.
CloseFile(k) ==
    LET p == k[1]
    IN  /\ phase = "copy" /\ k \in open /\ open' = {}
        /\ \/ /\ \E a \in {Partial, src[p].attr}, m \in {Now, src[p].mtime} :
                    /\ dst' = Written(dst, p, a, m)
                    /\ errors' = (errors \/ a # src[p].attr \/ m # src[p].mtime)
              /\ links' = IF Linked(src, p) /\ ~Remembered(p)
                          THEN links \cup {<<src[p].ino, p>>} ELSE links
           \/ UNCHANGED <<dst, links>> /\ errors' = TRUE
        /\ UNCHANGED <<inputs, phase, doomed, pending, group, again, own, stop, outside>>

\* The end of the work, after the last copy or a stop.
Finish ==
    /\ \/ phase = "delete" /\ stop /\ doomed # {}
       \/ /\ phase = "copy" /\ open = {} /\ ~own /\ again = {}
          /\ stop \/ (group = {} /\ pending = {})
    /\ phase' = "done" /\ errors' = (errors \/ stop)
    /\ UNCHANGED <<inputs, dst, todo, stop, outside>>

Copy(k) ==
    \/ Take(k) \/ FailCopy(k) \/ CopyElsewhere(k) \/ CopyDir(k) \/ CopySymlink(k)
    \/ LinkFile(k) \/ OpenFile(k) \/ CloseFile(k)
Next ==
    \/ StopRequested \/ StartCopies \/ TakeAgain \/ Finish
    \/ \E k \in Keys : Delete(k) \/ Copy(k)

Spec == Init /\ [][Next]_vars

-----------------------------------------------------------------------------
TypeOK ==
    /\ dst \in [Place -> Node]
    /\ phase \in {"delete", "copy", "done"}
    /\ doomed \subseteq Keys /\ pending \subseteq Keys /\ group \subseteq Keys
    /\ again \subseteq Keys /\ open \subseteq Keys /\ links \subseteq Inodes \X Place
    /\ own \in BOOLEAN /\ stop \in BOOLEAN /\ errors \in BOOLEAN /\ outside \in BOOLEAN

\* The places the work may write or delete.
Targets == {k[1] : k \in plan.copy \cup UNION {NamesWith(k) : k \in plan.copy}}
Doomed(q) == \E k \in plan.delete : k[1] = q \/ (k[2] = "dir" /\ k[1] \in Above[q])
OneFile(t, p, q) == t[p].kind = "file" /\ t[q].kind = "file" /\ t[p].ino = t[q].ino

\* Whatever is refused and wherever it stops or crashes, the work changes the
\* places it is to copy or delete and no other, except that directories above
\* them are made or get a new time - and that the other names which a file of
\* the backup has are written with it.
OnlyPlannedChange ==
    \A q \in Place :
        \/ dst[q] = old[q]
        \/ q \in Targets \/ Doomed(q)
        \/ \E p \in Targets : OneFile(old, p, q)
        \/ /\ dst[q].kind = "dir"
           /\ old[q].kind = "none" => \E p \in Targets : q \in Above[p]
           /\ old[q].kind # "none" => dst[q] = [old[q] EXCEPT !.mtime = Now]

\* Each file of the backup is one file of the source.
LinksAsSource(t) == \A p, q \in Place : OneFile(t, p, q) => OneFile(src, p, q)

\* After a synchronisation without an error a new analysis finds nothing to
\* transfer, but for the times of directories, and nothing to delete - with
\* delete-after and without.
Converges ==
    phase = "done" /\ plan.from = "all" /\ ~errors /\ ~outside /\ LinksAsSource(old) =>
        /\ \A k \in TransfersOf(src, dst, opts) : k[2] = "dir"
        /\ DeletionsOf(src, dst, opts) = {}

\* ... and with delete-after the backup is a mirror of the source: the same
\* entries, complete, with the times of files and with its hard links.
MirrorMade ==
    phase = "done" /\ plan.from = "all" /\ ~errors /\ opts.deleteAfter /\ LinksAsSource(old) =>
        /\ \A p \in Place :
              src[p].kind # "special" /\ old[p].kind # "special" =>
              /\ dst[p].kind = src[p].kind /\ dst[p].attr = src[p].attr
              /\ src[p].kind = "file" => dst[p].mtime = src[p].mtime
        /\ \A p, q \in Place : OneFile(src, p, q) <=> OneFile(dst, p, q)

\* With delete-after nothing is written through a symlink of the backup unless
\* it could not be removed first: the deletions come before the copies.
StaysInside == outside => errors \/ ~opts.deleteAfter \/ plan.from # "all"

\* What the work has begun and not finished is found by the next analysis: a
\* place that is no longer as it was, nor as it should be, is planned again.
NothingForgotten ==
    phase = "done" =>
        \A p \in Place :
            dst[p].kind = "file" /\ src[p].kind = "file" /\ dst[p].attr # src[p].attr
            /\ dst[p] # old[p]
            => KeyAt(src, p) \in TransfersOf(src, dst, opts)
=============================================================================
