--------------------------- MODULE AnalysisProofs ---------------------------
(***************************************************************************)
(* Theorems about Analysis, for all trees, ignore rules and options: what  *)
(* the walkers list is what the directories hold, the plan is a function   *)
(* of the listings whatever the order of the loops, and therefore it       *)
(* deletes nothing the source has, is what the rows show, and makes the    *)
(* backup a mirror.                                                        *)
(***************************************************************************)
EXTENDS Analysis, FiniteSetTheorems, TLAPS

-----------------------------------------------------------------------------
(* The invariant, in named parts.                                          *)

\* What is analysed.
Inputs ==
    /\ \A s \in Side : IsTree(disk[s]) /\ NothingIsAbsent(disk[s])
    /\ ignored \subseteq Keys

\* The loops run after both walkers.
PhaseInv == phase # "walk" => walk = [s \in Side |-> "done"]

\* A walker that found no more has no entry left, unless it said it failed.
Complete(s) == rootUnknown[s] \/ Frontier(s) = {}

\* Every entry returned was listed or recorded as unknown unless it is a special
\* file; a directory that was not opened is ignored or recorded.
Recorded(s, p) ==
    \/ disk[s][p].kind = "special"
    \/ p \in lost[s]
    \/ state[s][KeyAt(disk[s], p)] # "free"
Entered(s, p) ==
    disk[s][p].kind = "dir" =>
        p \in Opened(s) \/ p \in lost[s] \/ <<p, "dir">> \in ignored
Sighted(s) == \A p \in visited[s] : Recorded(s, p) /\ Entered(s, p)

WalkedInv == \A s \in Side : walk[s] = "done" => stop \/ Complete(s)
SightInv == stop \/ \A s \in Side : Sighted(s)
WalkingInv == phase = "walk" => WalkedInv /\ SightInv

\* The loops start only if nobody had asked to stop, and then the listings stay.
Looping == phase \in {"source", "backup", "done"}
LoopInv == Looping => \A s \in Side : Complete(s) /\ Sighted(s)

\* Nothing below an ignored directory is listed; what is listed could be stat'ed,
\* and what is recorded as unknown is known to be so.
Nameable(s) == Held(s) \cup Unstated(s)
ListedInv ==
    \A s \in Side, k \in Keys :
        /\ state[s][k] # "free" => \A a \in Above[k[1]] : <<a, "dir">> \notin ignored
        /\ state[s][k] = "present" => k \in Held(s) /\ disk[s][k[1]].access # "nostat"
        /\ state[s][k] = "unknown" => k \in Nameable(s) /\ k[1] \in lost[s]

\* The keys the loops have been through, and the plan and the rows for them.
Present == {k \in Keys : state["L"][k] = "present"}
OnBackup == {k \in Keys : state["R"][k] # "free"}
Considered ==
    IF phase = "source" THEN Present \cap handled
    ELSE IF phase \in {"backup", "done"} THEN Present ELSE {}
Reviewed ==
    IF phase = "backup" THEN OnBackup \cap handled
    ELSE IF phase = "done" THEN OnBackup ELSE {}

Missing(k) == state["L"][k] = "free" /\ ~IsUnknown("L", k)
Chosen(k) == Verdict(k).src \notin {"equal", "ignore"}
Brought(k) == IF Verdict(k).src = "hardlink" THEN NamesOf("L", k[1]) ELSE {}

ResultInv ==
    /\ phase = "walk" => handled = {}
    /\ \A k \in transfers : \E j \in Considered : Chosen(j) /\ (k = j \/ k \in Brought(j))
    /\ \A j \in Considered : Chosen(j) => {j} \cup Brought(j) \subseteq transfers
    /\ rows = Considered \cup {k \in Reviewed : Missing(k)}
    /\ deletions = {k \in Reviewed : Missing(k) /\ opts.deleteAfter}

Invariant ==
    /\ Inputs /\ TypeOK /\ PhaseInv
    /\ WalkingInv /\ LoopInv /\ ListedInv /\ ResultInv

-----------------------------------------------------------------------------
(* Types.                                                                  *)

\* The names of a hard-linked file are keys that were listed.
LEMMA NamesListed ==
    ASSUME NEW s, NEW p
    PROVE  NamesOf(s, p) \subseteq Listed(s) /\ Listed(s) \subseteq Keys
  BY DEF NamesOf, Names, Listed

\* The path of a place of a tree.
LEMMA KeyAtKey == ASSUME NEW t, NEW p \in Place PROVE KeyAt(t, p) \in Keys /\ KeyAt(t, p)[1] = p
  BY DEF KeyAt, Keys

\* The first state is well typed.
LEMMA TypeInit == Init => TypeOK
<1> SUFFICES ASSUME Init PROVE TypeOK  OBVIOUS
<1>1. stop = FALSE /\ phase = "walk" /\ handled = {} /\ rows = {} /\ transfers = {} /\ deletions = {}
  BY DEF Init
<1>2. walk = [s \in Side |-> "ready"] /\ rootUnknown = [s \in Side |-> FALSE]
  BY DEF Init
<1>3. visited = [s \in Side |-> {}] /\ lost = [s \in Side |-> {}]
  BY DEF Init
<1>4. state = [s \in Side |-> [k \in Keys |-> "free"]]
  BY DEF Init
<1> QED  BY <1>1, <1>2, <1>3, <1>4 DEF TypeOK

\* A step of a walker keeps the types.
LEMMA WalkerTypes == TypeOK /\ Walker => TypeOK'
<1> SUFFICES ASSUME TypeOK, Walker PROVE TypeOK'  OBVIOUS
<1>1. ASSUME NEW s \in Side, OpenWalk(s) PROVE TypeOK'
  BY <1>1 DEF OpenWalk, TypeOK, inputs, results
<1>2. ASSUME NEW s \in Side, EndWalk(s) PROVE TypeOK'
  BY <1>2 DEF EndWalk, TypeOK, inputs, results
<1>3. ASSUME NEW s \in Side, NEW p \in Place, Visit(s, p) PROVE TypeOK'
  <2>1. KeyAt(disk[s], p) \in Keys /\ <<p, "leaf">> \in Keys  BY KeyAtKey DEF Keys
  <2>2. stop' \in BOOLEAN  BY <1>3 DEF Visit
  <2>3. visited' \in [Side -> SUBSET Place] /\ lost' \in [Side -> SUBSET Place]
    BY <1>3 DEF Visit, TypeOK
  <2>4. state' \in [Side -> [Keys -> {"free", "present", "unknown"}]]
    BY <1>3, <2>1 DEF Visit, TypeOK
  <2> QED  BY <1>3, <2>2, <2>3, <2>4 DEF Visit, TypeOK, inputs, results
<1> QED  BY <1>1, <1>2, <1>3 DEF Walker

\* So does a step of the loops.
LEMMA PlannerTypes == TypeOK /\ Planner => TypeOK'
<1> SUFFICES ASSUME TypeOK, Planner PROVE TypeOK'  OBVIOUS
<1> USE DEF TypeOK, inputs, walkers, results
<1>1. CASE StartPlan  BY <1>1 DEF StartPlan
<1>2. CASE StartBackup  BY <1>2 DEF StartBackup
<1>3. CASE Finish  BY <1>3 DEF Finish
<1>4. CASE Cancel  BY <1>4 DEF Cancel
<1>5. ASSUME NEW k \in Keys, PlanSource(k) PROVE TypeOK'
  BY <1>5, NamesListed DEF PlanSource
<1>6. ASSUME NEW k \in Keys, PlanBackup(k) PROVE TypeOK'
  BY <1>6 DEF PlanBackup
<1> QED  BY <1>1, <1>2, <1>3, <1>4, <1>5, <1>6 DEF Planner

\* Every step keeps the types.
LEMMA TypeStep == TypeOK /\ [Next]_vars => TypeOK'
<1>1. ASSUME TypeOK, StopRequested PROVE TypeOK'
  BY <1>1 DEF StopRequested, TypeOK, inputs, walkers, results
<1>2. ASSUME TypeOK, UNCHANGED vars PROVE TypeOK'
  BY <1>2 DEF vars, TypeOK, inputs, walkers, results
<1> QED  BY <1>1, <1>2, WalkerTypes, PlannerTypes DEF Next

\* Every variable of the analysis keeps its type, for all trees and options.
THEOREM TypeCorrect == Spec => []TypeOK
  BY TypeInit, TypeStep, PTL DEF Spec

-----------------------------------------------------------------------------
(* What the walkers have seen.                                             *)

\* What a walker has seen depends on the walkers alone.
LEMMA SameSight ==
    ASSUME UNCHANGED <<inputs, walkers>>, NEW s
    PROVE  /\ Complete(s)' = Complete(s) /\ Sighted(s)' = Sighted(s)
           /\ Held(s)' = Held(s) /\ Nameable(s)' = Nameable(s)
  BY DEF Complete, Sighted, Recorded, Entered, Opened, Frontier, Held, Nameable, Unstated,
         inputs, walkers

\* What the directories hold does not change.
LEMMA SameDisk ==
    [Next]_vars => UNCHANGED inputs /\ (Inputs => Inputs')
               /\ \A s : Held(s)' = Held(s) /\ Nameable(s)' = Nameable(s)
<1> SUFFICES ASSUME [Next]_vars
             PROVE  UNCHANGED inputs /\ (Inputs => Inputs')
                    /\ \A s : Held(s)' = Held(s) /\ Nameable(s)' = Nameable(s)
  OBVIOUS
<1>1. UNCHANGED inputs
  BY DEF Next, StopRequested, Walker, OpenWalk, EndWalk, Visit, Planner, StartPlan, StartBackup,
         Finish, Cancel, PlanSource, PlanBackup, vars
<1>2. disk' = disk /\ ignored' = ignored  BY <1>1 DEF inputs
<1> QED  BY <1>1, <1>2 DEF Inputs, Held, Nameable, Unstated

\* After a complete walk every entry was returned, or lies below a directory that
\* was returned and not opened.
LEMMA WalkComplete ==
    ASSUME Inputs, NEW s \in Side, Frontier(s) = {},
           NEW q \in Place, Exists(disk[s], q), q \notin visited[s]
    PROVE  \E b \in Above[q] :
              b \in visited[s] /\ disk[s][b].kind = "dir" /\ b \notin Opened(s)
<1> DEFINE unseen == {a \in Above[q] \cup {q} : a \notin visited[s]}
<1>1. Above[q] \subseteq Place  BY AboveAssumption
<1>2. PICK a \in unseen : Above[a] \cap unseen = {}
  <2>1. unseen \in SUBSET Place /\ q \in unseen  BY <1>1
  <2> QED  BY <2>1, AboveAssumption
<1>3. a \in Place /\ a \notin visited[s] /\ Above[a] \subseteq Above[q]
  BY <1>1, <1>2, AboveAssumption
<1>4. Above[a] \subseteq visited[s]  BY <1>2, <1>3
<1>5. \A b \in Above[q] : disk[s][b].kind = "dir"
  BY DEF Inputs, IsTree, Exists
<1>6. Exists(disk[s], a)  BY <1>2, <1>5 DEF Exists
<1>7. ~(Above[a] \subseteq Opened(s))  BY <1>3, <1>6 DEF Frontier
<1> QED  BY <1>3, <1>4, <1>5, <1>7

\* A path a side holds was listed, or is covered by an unknown path, or lies below
\* an ignored directory.
LEMMA HeldIsListed ==
    ASSUME Inputs, TypeOK, ListedInv, NEW s \in Side, Complete(s), Sighted(s),
           NEW q \in Place, KeyAt(disk[s], q) \in Held(s), Known(s, q),
           \A a \in Above[q] : <<a, "dir">> \notin ignored
    PROVE  state[s][KeyAt(disk[s], q)] = "present"
<1> DEFINE k == KeyAt(disk[s], q)
<1>1. Exists(disk[s], q) /\ disk[s][q].kind # "special"
  <2>1. PICK p \in Place : k = KeyAt(disk[s], p) /\ Exists(disk[s], p) /\ disk[s][p].kind # "special"
    BY DEF Held
  <2>2. p = q  BY <2>1, KeyAtKey
  <2> QED  BY <2>1, <2>2
<1>2. k \in Keys /\ k[1] = q  BY KeyAtKey
<1>3. Frontier(s) = {} /\ \A u \in lost[s] : ~Covers(u, q)  BY DEF Known, Complete
<1>4. q \in visited[s]
  <2> SUFFICES ASSUME q \notin visited[s] PROVE FALSE  OBVIOUS
  <2>1. PICK b \in Above[q] : b \in visited[s] /\ disk[s][b].kind = "dir" /\ b \notin Opened(s)
    BY <1>1, <1>3, WalkComplete
  <2>2. b \in lost[s]  BY <2>1 DEF Sighted, Entered
  <2> QED  BY <1>3, <2>2 DEF Covers
<1>5. state[s][k] # "free"
  <2>1. q \notin lost[s]  BY <1>3 DEF Covers
  <2> QED  BY <1>1, <1>4, <2>1 DEF Sighted, Recorded
<1>6. state[s][k] # "unknown"
  BY <1>2, <1>3 DEF ListedInv, Covers
<1> QED  BY <1>2, <1>5, <1>6 DEF TypeOK

\* A complete walk of the source leaves no path of the backup unaccounted for:
\* what is neither listed nor covered by an unknown path is not there.
LEMMA MissingIsMissing ==
    ASSUME Inputs, TypeOK, ListedInv, LoopInv, Looping,
           NEW k \in OnBackup, Missing(k)
    PROVE  k \notin Held("L")
<1> SUFFICES ASSUME NEW q \in Place, KeyAt(disk["L"], q) = k, k \in Held("L")
             PROVE  FALSE
  BY DEF Held
<1>1. k \in Keys /\ k[1] = q /\ "L" \in Side /\ "R" \in Side  BY KeyAtKey DEF Side
<1>2. Known("L", q)  BY <1>1 DEF Missing, IsUnknown, Known
<1>3. \A a \in Above[q] : <<a, "dir">> \notin ignored  BY <1>1 DEF OnBackup, ListedInv
<1>4. state["L"][k] = "present"
  BY <1>1, <1>2, <1>3, HeldIsListed DEF LoopInv
<1> QED  BY <1>4 DEF Missing
-----------------------------------------------------------------------------
(* The walkers keep the invariant.                                         *)

\* A walk that starts or ends has seen what it had seen.
LEMMA WalkTurns ==
    ASSUME TypeOK, WalkedInv, SightInv, ListedInv, NEW s \in Side, OpenWalk(s) \/ EndWalk(s)
    PROVE  WalkedInv' /\ SightInv' /\ ListedInv'
<1> USE DEF OpenWalk, EndWalk, inputs
<1>1. \A z : Sighted(z)' = Sighted(z) /\ Held(z)' = Held(z) /\ Nameable(z)' = Nameable(z)
  BY DEF Sighted, Recorded, Entered, Opened, Held, Nameable, Unstated
<1>2. SightInv' /\ ListedInv'
  BY <1>1 DEF SightInv, ListedInv
<1>3. \A z \in Side : Frontier(z)' = Frontier(z)  BY DEF Frontier, Opened
<1>4. ASSUME NEW z \in Side, walk'[z] = "done" PROVE stop' \/ Complete(z)'
  <2>1. CASE z = s  BY <1>3, <1>4, <2>1 DEF TypeOK, Complete
  <2>2. CASE z # s  BY <1>3, <1>4, <2>2 DEF TypeOK, WalkedInv, Complete
  <2> QED  BY <2>1, <2>2
<1> QED  BY <1>2, <1>4 DEF WalkedInv

\* An entry that is returned is listed or recorded as unknown, and opened unless
\* it is ignored or recorded.
LEMMA EntrySeen ==
    ASSUME Inputs, TypeOK, NEW s \in Side, NEW p \in Place, Visit(s, p), ~stop'
    PROVE  Recorded(s, p)' /\ Entered(s, p)'
<1> DEFINE node == disk[s][p]
<1>1. node.kind \in Kinds /\ node.access \in {"ok", "noread", "nostat"}
  BY DEF Inputs, IsTree
<1>2. KeyAt(disk[s], p) \in Keys  BY KeyAtKey
<1>3. disk' = disk /\ ignored' = ignored  BY DEF Visit, inputs
<1>4. p \in visited'[s]  BY DEF Visit, TypeOK
<1>5. CASE node.access = "nostat"
  <2>1. p \in lost'[s]  BY <1>5 DEF Visit, TypeOK
  <2> QED  BY <2>1 DEF Recorded, Entered
<1>6. CASE node.kind = "special"
  BY <1>3, <1>6 DEF Recorded, Entered
<1>7. CASE node.access # "nostat" /\ node.kind # "special"
  <2>1. state'[s][KeyAt(disk[s], p)] # "free"
    BY <1>1, <1>2, <1>7 DEF Visit, TypeOK
  <2>2. CASE node.kind = "dir" /\ node.access = "noread" /\ KeyAt(disk[s], p) \notin ignored
    <3>1. p \in lost'[s]  BY <2>2 DEF Visit, TypeOK
    <3> QED  BY <1>3, <2>1, <3>1 DEF Recorded, Entered
  <2>3. CASE node.kind = "dir" /\ KeyAt(disk[s], p) \in ignored
    BY <1>3, <2>1, <2>3 DEF Recorded, Entered, KeyAt
  <2>4. CASE node.kind = "dir" /\ node.access = "ok"
    BY <1>3, <1>4, <2>1, <2>4 DEF Recorded, Entered, Opened
  <2>5. CASE node.kind # "dir"
    BY <1>3, <2>1, <2>5 DEF Recorded, Entered
  <2> QED  BY <1>1, <1>7, <2>2, <2>3, <2>4, <2>5
<1> QED  BY <1>5, <1>6, <1>7

\* ... and what was seen before stays seen.
LEMMA VisitKeepsSight ==
    ASSUME Inputs, TypeOK, SightInv, NEW s \in Side, NEW p \in Place, Visit(s, p)
    PROVE  SightInv'
<1> SUFFICES ASSUME ~stop', NEW z \in Side, NEW q \in visited'[z]
             PROVE  Recorded(z, q)' /\ Entered(z, q)'
  BY DEF SightInv, Sighted
<1>1. ~stop /\ disk' = disk /\ ignored' = ignored  BY DEF Visit, inputs
<1>2. lost[z] \subseteq lost'[z] /\ visited[z] \subseteq visited'[z]
  BY DEF Visit, TypeOK
<1>3. ASSUME NEW k \in Keys, state[z][k] # "free" PROVE state'[z][k] # "free"
  <2>1. KeyAt(disk[s], p) \in Keys /\ <<p, "leaf">> \in Keys  BY KeyAtKey DEF Keys
  <2> QED  BY <1>3, <2>1 DEF Visit, TypeOK
<1>4. CASE q \in visited[z]
  <2>1. Recorded(z, q) /\ Entered(z, q) /\ q \in Place
    BY <1>1, <1>4 DEF SightInv, Sighted, TypeOK
  <2>2. KeyAt(disk[z], q) \in Keys  BY <2>1, KeyAtKey
  <2>3. Recorded(z, q)'  BY <1>1, <1>2, <1>3, <2>1, <2>2 DEF Recorded
  <2>4. Opened(z) \subseteq Opened(z)'  BY <1>1, <1>2 DEF Opened
  <2>5. Entered(z, q)'  BY <1>1, <1>2, <2>1, <2>4 DEF Entered
  <2> QED  BY <2>3, <2>5
<1>5. CASE q \notin visited[z]
  <2>1. z = s /\ q = p  BY <1>5 DEF Visit, TypeOK
  <2> QED  BY <2>1, EntrySeen
<1> QED  BY <1>4, <1>5

\* An entry that is returned is listed as what it is.
LEMMA VisitLists ==
    ASSUME Inputs, TypeOK, ListedInv, NEW s \in Side, NEW p \in Place, Visit(s, p)
    PROVE  ListedInv'
<1> DEFINE key == KeyAt(disk[s], p)
           node == disk[s][p]
<1>1. disk' = disk /\ ignored' = ignored /\ Exists(disk[s], p) /\ key \in Keys /\ key[1] = p
      /\ <<p, "leaf">> \in Keys
  BY KeyAtKey DEF Visit, Frontier, Keys, inputs
<1>2. \A z : Held(z)' = Held(z) /\ Nameable(z)' = Nameable(z)
  BY <1>1 DEF Held, Nameable, Unstated
<1>3. node.kind # "special" => key \in Held(s)  BY <1>1 DEF Held
<1>4. node.access = "nostat" => <<p, "leaf">> \in Nameable(s)
  BY <1>1 DEF Nameable, Unstated
<1>5. \A z \in Side : lost[z] \subseteq lost'[z]  BY DEF Visit, TypeOK
<1>6. ASSUME NEW z \in Side, NEW k \in Keys
      PROVE  \/ state'[z][k] = state[z][k]
             \/ /\ z = s /\ k[1] = p
                /\ state'[z][k] = "present" =>
                      k = key /\ node.kind # "special" /\ node.access # "nostat"
                /\ state'[z][k] = "unknown" => k \in Nameable(z) /\ p \in lost'[z]
  <2>1. CASE stop' \/ (node.kind = "special" /\ node.access # "nostat")
    BY <2>1 DEF Visit
  <2>2. CASE ~stop' /\ node.access = "nostat"
    <3>1. state' = [state EXCEPT ![s][<<p, "leaf">>] = "unknown"] /\ p \in lost'[s]
      BY <2>2 DEF Visit, TypeOK
    <3>2. CASE z = s /\ k = <<p, "leaf">>
      <4>1. state'[z][k] = "unknown"  BY <1>1, <3>1, <3>2 DEF TypeOK
      <4> QED  BY <1>4, <2>2, <3>1, <3>2, <4>1
    <3>3. CASE ~(z = s /\ k = <<p, "leaf">>)
      BY <1>1, <3>1, <3>3 DEF TypeOK
    <3> QED  BY <3>2, <3>3
  <2>3. CASE ~stop' /\ node.access # "nostat" /\ node.kind # "special"
    <3>1. CASE node.kind = "dir" /\ node.access = "noread" /\ key \notin ignored
      <4>1. state' = [state EXCEPT ![s][key] = "unknown"] /\ p \in lost'[s]
        BY <2>3, <3>1 DEF Visit, TypeOK
      <4>2. key \in Nameable(s)  BY <1>3, <2>3 DEF Nameable
      <4> HIDE DEF key
      <4> QED  BY <1>1, <4>1, <4>2 DEF TypeOK
    <3>2. CASE ~(node.kind = "dir" /\ node.access = "noread" /\ key \notin ignored)
      <4>1. state' = [state EXCEPT ![s][key] = "present"]
        BY <2>3, <3>2 DEF Visit, TypeOK
      <4> HIDE DEF key
      <4> QED  BY <1>1, <2>3, <4>1 DEF TypeOK
    <3> QED  BY <3>1, <3>2
  <2> QED  BY <2>1, <2>2, <2>3
<1>7. \A a \in Above[p] : <<a, "dir">> \notin ignored  BY DEF Visit, Frontier, Opened
<1> SUFFICES ASSUME NEW z \in Side, NEW k \in Keys
             PROVE  /\ state'[z][k] # "free" => \A a \in Above[k[1]] : <<a, "dir">> \notin ignored
                    /\ state'[z][k] = "present" => k \in Held(z) /\ disk[z][k[1]].access # "nostat"
                    /\ state'[z][k] = "unknown" => k \in Nameable(z) /\ k[1] \in lost'[z]
  BY <1>1, <1>2 DEF ListedInv
<1>8. CASE state'[z][k] = state[z][k]
  BY <1>5, <1>8 DEF ListedInv
<1>9. CASE state'[z][k] # state[z][k]
  BY <1>3, <1>6, <1>7, <1>9
<1> QED  BY <1>8, <1>9

\* One entry returned by a walker keeps what is known of both sides.
LEMMA WalkGoesOn ==
    ASSUME Inputs, TypeOK, WalkedInv, SightInv, ListedInv,
           NEW s \in Side, NEW p \in Place, Visit(s, p)
    PROVE  WalkedInv' /\ SightInv' /\ ListedInv'
<1>1. SightInv' /\ ListedInv'  BY VisitKeepsSight, VisitLists
<1>2. ASSUME NEW z \in Side, walk'[z] = "done" PROVE stop' \/ Complete(z)'
  <2>1. z # s /\ ~stop /\ walk' = walk /\ rootUnknown' = rootUnknown  BY <1>2 DEF Visit
  <2>2. Frontier(z)' = Frontier(z)  BY <2>1 DEF Visit, TypeOK, Frontier, Opened, inputs
  <2> QED  BY <1>2, <2>1, <2>2 DEF WalkedInv, Complete
<1> QED  BY <1>1, <1>2 DEF WalkedInv

-----------------------------------------------------------------------------
(* The loops keep the invariant.                                           *)

\* The verdicts depend on what was listed alone.
LEMMA SameVerdicts ==
    ASSUME UNCHANGED <<inputs, walkers>>
    PROVE  /\ \A k : /\ Verdict(k)' = Verdict(k) /\ Missing(k)' = Missing(k)
                     /\ Chosen(k)' = Chosen(k) /\ Brought(k)' = Brought(k)
           /\ Present' = Present /\ OnBackup' = OnBackup
<1>1. \A k : Verdict(k)' = Verdict(k)
  BY DEF Verdict, NamesOf, Listed, Matched, inputs, walkers
<1>2. \A p : NamesOf("L", p)' = NamesOf("L", p)
  BY DEF NamesOf, Listed, inputs, walkers
<1> QED
  BY <1>1, <1>2 DEF Missing, IsUnknown, Chosen, Brought, Present, OnBackup, inputs, walkers

\* What is planned was listed.
LEMMA TransfersListed == ASSUME ResultInv PROVE transfers \subseteq Present
<1>1. Considered \subseteq Present  BY DEF Considered
<1>2. \A j : Brought(j) \subseteq Present  BY NamesListed DEF Brought, Listed, Present
<1> QED  BY <1>1, <1>2 DEF ResultInv

\* A key of the source that is considered is planned as its verdict says, and
\* brings the names of its file along.
LEMMA SourcePlanned ==
    ASSUME ResultInv, NEW k \in Keys, PlanSource(k)
    PROVE  ResultInv'
<1>1. UNCHANGED <<inputs, walkers>> /\ phase = "source" /\ phase' = "source" /\ k \in Present
      /\ deletions' = deletions
  BY DEF PlanSource, Present
<1>2. Considered' = Considered \cup {k}
  BY <1>1, SameVerdicts DEF Considered, PlanSource, Present
<1>3. Reviewed = {} /\ Reviewed' = {}  BY <1>1 DEF Reviewed
<1>4. transfers' = transfers \cup (IF Chosen(k) THEN {k} \cup Brought(k) ELSE {})
  BY DEF PlanSource, Chosen, Brought
<1>5. \A j : Chosen(j)' = Chosen(j) /\ Brought(j)' = Brought(j)  BY <1>1, SameVerdicts
<1>6. \A j \in transfers' : \E i \in Considered' : Chosen(i)' /\ (j = i \/ j \in Brought(i)')
  BY <1>2, <1>4, <1>5 DEF ResultInv
<1>7. \A j \in Considered' : Chosen(j)' => {j} \cup Brought(j)' \subseteq transfers'
  BY <1>2, <1>4, <1>5 DEF ResultInv
<1>8. rows' = rows \cup {k}  BY DEF PlanSource
<1> QED  BY <1>1, <1>2, <1>3, <1>6, <1>7, <1>8 DEF ResultInv

\* A key of the backup that is reviewed is deleted if the source was seen not to
\* have it and the option is on; no such key is among the transfers.
LEMMA BackupReviewed ==
    ASSUME ResultInv, NEW k \in Keys, PlanBackup(k)
    PROVE  ResultInv'
<1>1. UNCHANGED <<inputs, walkers>> /\ phase = "backup" /\ phase' = "backup" /\ k \in OnBackup
      /\ transfers' = transfers
  BY DEF PlanBackup, OnBackup
<1>2. opts' = opts  BY <1>1 DEF inputs
<1>3. Considered' = Considered /\ Reviewed' = Reviewed \cup {k}
  BY <1>1, SameVerdicts DEF Considered, Reviewed, PlanBackup, OnBackup
<1>4. \A j : Missing(j)' = Missing(j) /\ Chosen(j)' = Chosen(j) /\ Brought(j)' = Brought(j)
  BY <1>1, SameVerdicts
<1>5. Missing(k) => k \notin transfers  BY TransfersListed DEF Missing, Present
<1>6. rows' = IF Missing(k) THEN rows \cup {k} ELSE rows  BY DEF PlanBackup, Missing
<1>7. deletions' = IF Missing(k) /\ opts.deleteAfter THEN deletions \cup {k} ELSE deletions
  BY <1>5 DEF PlanBackup, Missing
<1>8. rows' = Considered' \cup {j \in Reviewed' : Missing(j)'}
  BY <1>3, <1>4, <1>6 DEF ResultInv
<1>9. deletions' = {j \in Reviewed' : Missing(j)' /\ opts'.deleteAfter}
  BY <1>2, <1>3, <1>4, <1>7 DEF ResultInv
<1> QED  BY <1>1, <1>3, <1>4, <1>8, <1>9 DEF ResultInv

\* Between the loops nothing is planned, and nothing was left out.
LEMMA LoopTurns ==
    ASSUME ResultInv, StartPlan \/ StartBackup \/ Finish
    PROVE  ResultInv'
<1>1. UNCHANGED <<inputs, walkers, results>>
  BY DEF StartPlan, StartBackup, Finish
<1>2. opts' = opts  BY <1>1 DEF inputs
<1>3. Considered' = Considered /\ Reviewed' = Reviewed
  BY <1>1, SameVerdicts
  DEF StartPlan, StartBackup, Finish, Considered, Reviewed, ResultInv, Present, OnBackup
<1>4. phase' # "walk"  BY DEF StartPlan, StartBackup, Finish
<1> QED  BY <1>1, <1>2, <1>3, <1>4, SameVerdicts DEF ResultInv, results

\* Every step of the loops keeps the invariant.
LEMMA PlannerKeeps == ASSUME Invariant, TypeOK', Planner PROVE Invariant'
<1>1. Inputs'
  BY SameDisk DEF Invariant, Next
<1>2. CASE Cancel
  <2>1. phase' = "cancelled" /\ walk' = [s \in Side |-> "done"]
    BY <1>2 DEF Cancel, Invariant, PhaseInv
  <2>2. PhaseInv' /\ WalkingInv' /\ LoopInv'  BY <2>1 DEF PhaseInv, WalkingInv, LoopInv, Looping
  <2>3. ListedInv'  BY <1>2 DEF Cancel, ListedInv
  <2>4. ResultInv'  BY <1>2, <2>1 DEF Cancel, ResultInv, Considered, Reviewed
  <2> QED  BY <1>1, <2>2, <2>3, <2>4 DEF Invariant
<1>3. CASE ~Cancel
  <2>1. UNCHANGED <<inputs, walkers>> /\ phase' \in {"source", "backup", "done"}
    BY <1>3 DEF Planner, StartPlan, StartBackup, Finish, PlanSource, PlanBackup
  <2>2. walk = [s \in Side |-> "done"]
    BY <1>3 DEF Planner, StartPlan, StartBackup, Finish, PlanSource, PlanBackup, Invariant, PhaseInv
  <2>3. ListedInv'
    BY <2>1, SameSight DEF Invariant, ListedInv, inputs, walkers
  <2>4. \A s \in Side : Complete(s) /\ Sighted(s)
    <3>1. CASE phase = "walk"
      <4>1. ~stop  BY <1>3, <3>1 DEF Planner, StartPlan, StartBackup, Finish, PlanSource, PlanBackup
      <4> QED  BY <2>2, <3>1, <4>1 DEF Invariant, WalkingInv, WalkedInv, SightInv
    <3>2. CASE phase # "walk"
      <4>1. Looping
        BY <1>3, <3>2 DEF Planner, StartPlan, StartBackup, Finish, PlanSource, PlanBackup, Looping
      <4> QED  BY <4>1 DEF Invariant, LoopInv
    <3> QED  BY <3>1, <3>2
  <2>5. LoopInv'  BY <2>1, <2>4, SameSight DEF LoopInv
  <2>6. PhaseInv' /\ WalkingInv'  BY <2>1, <2>2 DEF PhaseInv, WalkingInv, walkers
  <2>7. ResultInv'
    BY <1>3, SourcePlanned, BackupReviewed, LoopTurns DEF Planner, Invariant
  <2> QED  BY <1>1, <2>3, <2>5, <2>6, <2>7 DEF Invariant
<1> QED  BY <1>2, <1>3

\* So does every step of the walkers, before the loops.
LEMMA WalkerKeeps == ASSUME Invariant, TypeOK', Walker PROVE Invariant'
<1>1. Inputs'  BY SameDisk DEF Invariant, Next
<1>2. phase = "walk" /\ phase' = "walk"
      /\ UNCHANGED <<handled, rows, transfers, deletions>>
  BY DEF Invariant, PhaseInv, Walker, OpenWalk, EndWalk, Visit, results
<1>3. PhaseInv' /\ LoopInv'  BY <1>2 DEF PhaseInv, LoopInv, Looping
<1>4. ResultInv'
  BY <1>2 DEF Invariant, ResultInv, Considered, Reviewed
<1>5. WalkedInv' /\ SightInv' /\ ListedInv'
  BY <1>2, WalkTurns, WalkGoesOn DEF Walker, Invariant, WalkingInv
<1> QED  BY <1>1, <1>3, <1>4, <1>5 DEF Invariant, WalkingInv

\* Nothing is known at the start.
LEMMA InvariantInit == Init => Invariant
<1> SUFFICES ASSUME Init PROVE Invariant  OBVIOUS
<1>1. PICK c \in Cases :
         /\ disk = [s \in Side |-> IF s = "L" THEN c.source ELSE c.backup]
         /\ ignored = c.ignored
  BY DEF Init
<1>2. Inputs
  <2>1. disk["L"] = c.source /\ disk["R"] = c.backup  BY <1>1 DEF Side
  <2>2. IsTree(disk["L"]) /\ NothingIsAbsent(disk["L"])  BY <2>1, InputsAssumption
  <2>3. IsTree(disk["R"]) /\ NothingIsAbsent(disk["R"])  BY <2>1, InputsAssumption
  <2> QED  BY <1>1, <2>2, <2>3, InputsAssumption DEF Inputs, Side
<1>3. phase = "walk" /\ handled = {} /\ rows = {} /\ transfers = {} /\ deletions = {}
  BY DEF Init
<1>4. \A s \in Side : walk[s] = "ready" /\ visited[s] = {} /\ \A k \in Keys : state[s][k] = "free"
  BY DEF Init
<1>5. WalkingInv  BY <1>4 DEF WalkingInv, WalkedInv, SightInv, Sighted
<1>6. ListedInv  BY <1>4 DEF ListedInv
<1>7. PhaseInv /\ LoopInv /\ ResultInv
  BY <1>3 DEF PhaseInv, LoopInv, Looping, ResultInv, Considered, Reviewed
<1> QED  BY <1>2, <1>5, <1>6, <1>7, TypeInit DEF Invariant

\* Every step keeps the invariant.
LEMMA InvariantStep == Invariant /\ [Next]_vars => Invariant'
<1> SUFFICES ASSUME Invariant, [Next]_vars PROVE Invariant'  OBVIOUS
<1>1. TypeOK' /\ Inputs'  BY TypeStep, SameDisk DEF Invariant
<1>2. CASE Planner  BY <1>1, <1>2, PlannerKeeps
<1>3. CASE Walker  BY <1>1, <1>3, WalkerKeeps
<1>4. CASE StopRequested \/ UNCHANGED vars
  <2>1. UNCHANGED <<inputs, walkers, phase, handled, results>> /\ (stop => stop')
    BY <1>4 DEF StopRequested, vars
  <2>2. PhaseInv'  BY <2>1 DEF Invariant, PhaseInv, walkers
  <2>3. WalkingInv' /\ LoopInv' /\ ListedInv'
    BY <2>1, SameSight
    DEF Invariant, WalkingInv, WalkedInv, SightInv, LoopInv, Looping, ListedInv, inputs, walkers
  <2>4. ResultInv'
    <3>1. Considered' = Considered /\ Reviewed' = Reviewed
      BY <2>1, SameVerdicts DEF Considered, Reviewed
    <3> QED  BY <2>1, <3>1, SameVerdicts DEF Invariant, ResultInv, results, inputs
  <2> QED  BY <1>1, <2>2, <2>3, <2>4 DEF Invariant
<1> QED  BY <1>2, <1>3, <1>4 DEF Next

\* The invariant holds throughout.
LEMMA InvariantAlways == Spec => []Invariant
  BY InvariantInit, InvariantStep, PTL DEF Spec

\* Whatever the walkers were refused, and wherever the analysis was stopped, no
\* path that the source has is planned for deletion: for trees of any shape, any
\* ignore rules and any order of walking and planning.
THEOREM DeletionsJustifiedAlways == Spec => []DeletionsJustified
<1>1. Invariant => DeletionsJustified
  <2> SUFFICES ASSUME Invariant, NEW k \in deletions PROVE k \notin Held("L")
    BY DEF DeletionsJustified
  <2>1. k \in Reviewed /\ Missing(k)  BY DEF Invariant, ResultInv
  <2>2. Looping /\ k \in OnBackup  BY <2>1 DEF Reviewed, Looping
  <2> QED  BY <2>1, <2>2, MissingIsMissing DEF Invariant
<1> QED  BY <1>1, InvariantAlways, PTL
-----------------------------------------------------------------------------
(* What the plan says.                                                     *)

\* A verdict transfers, or says that both sides agree, or leaves the source alone.
LEMMA VerdictKinds == \A k : Chosen(k) <=> Verdict(k).src \in Transferring
<1> SUFFICES ASSUME NEW k PROVE Chosen(k) <=> Verdict(k).src \in Transferring  OBVIOUS
<1>1. ASSUME NEW i, NEW o PROVE VerdictBackupOnly(i, o).src = "ignore"
  BY DEF VerdictBackupOnly
<1>2. ASSUME NEW l, NEW i, NEW n PROVE VerdictSourceOnly(l, i, n).src \in Transferring \cup {"ignore"}
  BY DEF VerdictSourceOnly, Both, Transferring
<1>3. ASSUME NEW l, NEW r, NEW i, NEW m, NEW n, NEW o
      PROVE  VerdictBothSides(l, r, i, m, n, o).src \in Transferring \cup {"equal", "ignore"}
  BY DEF VerdictBothSides, Both, Transferring
<1>4. Verdict(k).src \in Transferring \cup {"equal", "ignore"}
  BY <1>1, <1>2, <1>3 DEF Verdict
<1> QED  BY <1>4 DEF Chosen, Transferring

\* The names of one file are the names of each of them, if they could be stat'ed.
LEMMA NamesShared ==
    ASSUME ListedInv, NEW s \in Side, NEW p \in Place, NEW k \in NamesOf(s, p)
    PROVE  NamesOf(s, k[1]) = NamesOf(s, p)
<1> DEFINE t == disk[s]
<1>1. t[p].access # "nostat" /\ k \in Names(t, Listed(s), p)  BY DEF NamesOf
<1>2. Linked(t, p) /\ k \in Listed(s) /\ t[k[1]].kind = "file" /\ t[k[1]].ino = t[p].ino
  BY <1>1 DEF Names
<1>3. k \in Keys /\ t[k[1]].access # "nostat"  BY <1>2 DEF Listed, ListedInv
<1>4. k[1] \in Place  BY <1>3 DEF Keys
<1>5. Linked(t, k[1])  BY <1>2, <1>4 DEF Linked
<1>6. Names(t, Listed(s), k[1]) = Names(t, Listed(s), p)  BY <1>2, <1>5 DEF Names
<1> QED  BY <1>1, <1>3, <1>6 DEF NamesOf

\* A file has finitely many names.
LEMMA NamesCount ==
    ASSUME NEW s, NEW p PROVE Cardinality(NamesOf(s, p)) \in Nat
<1>1. IsFiniteSet({"dir", "leaf"})
  <2>1. IsFiniteSet({"dir"})  BY FS_Singleton
  <2>2. {"dir", "leaf"} = {"dir"} \cup {"leaf"}  OBVIOUS
  <2> QED  BY <2>1, <2>2, FS_AddElement
<1>2. IsFiniteSet(Keys)  BY <1>1, PlaceAssumption, FS_Product DEF Keys
<1>3. IsFiniteSet(NamesOf(s, p))  BY <1>2, NamesListed, FS_Subset
<1> QED  BY <1>3, FS_CardinalityType

\* Only a file with several names is planned as a hard link.
LEMMA HardLinked ==
    ASSUME NEW k, Verdict(k).src = "hardlink" PROVE Cardinality(NamesOf("L", k[1])) > 1
<1>1. VerdictBackupOnly(Matched("R", k), opts).src # "hardlink"  BY DEF VerdictBackupOnly
<1>2. VerdictSourceOnly(disk["L"][k[1]], Matched("L", k), NamesOf("L", k[1])).src = "hardlink"
      => Cardinality(NamesOf("L", k[1])) > 1
  BY DEF VerdictSourceOnly, Both
<1>3. VerdictBothSides(disk["L"][k[1]], Stat(disk["R"], k[1]), Matched("L", k),
                       NamesOf("L", k[1]), NamesOf("R", k[1]), opts).src = "hardlink"
      => Cardinality(NamesOf("L", k[1])) > 1
  BY DEF VerdictBothSides, Both
<1> QED  BY <1>1, <1>2, <1>3 DEF Verdict

\* What is listed as present is there, once, and could be stat'ed.
LEMMA PresentIsHeld ==
    ASSUME ListedInv, NEW s \in Side, NEW k \in Keys, state[s][k] = "present"
    PROVE  /\ k[1] \in Place /\ k = KeyAt(disk[s], k[1]) /\ Exists(disk[s], k[1])
           /\ disk[s][k[1]].kind # "special" /\ disk[s][k[1]].access # "nostat"
<1>1. k \in Held(s) /\ disk[s][k[1]].access # "nostat"  BY DEF ListedInv
<1>2. PICK q \in Place : k = KeyAt(disk[s], q) /\ Exists(disk[s], q) /\ disk[s][q].kind # "special"
  BY <1>1 DEF Held
<1>3. k[1] = q  BY <1>2, KeyAtKey
<1> QED  BY <1>1, <1>2, <1>3

\* A hard-linked file is planned with all the names it has in the source or not at
\* all, in whatever order the hash map yields them: the backend can only link
\* names it is given in one run.
THEOREM GroupsWholeAlways == Spec => []GroupsWhole
<1>1. Invariant => GroupsWhole
  <2> SUFFICES ASSUME Invariant, phase = "done", NEW k \in transfers, Verdict(k).src = "hardlink"
               PROVE  NamesOf("L", k[1]) \subseteq transfers
    BY DEF GroupsWhole
  <2>1. k \in Considered  BY TransfersListed DEF Invariant, Considered
  <2>2. Chosen(k) /\ Brought(k) = NamesOf("L", k[1])  BY DEF Chosen, Brought
  <2> QED  BY <2>1, <2>2 DEF Invariant, ResultInv
<1> QED  BY <1>1, InvariantAlways, PTL

\* Whatever the options, a path that has a row is transferred exactly if its own
\* row, or that of another name of its file, says so.
THEOREM ShownTransfersAlways == Spec => []ShownTransfers
<1>1. Invariant => ShownTransfers
  <2> SUFFICES ASSUME Invariant, phase = "done", NEW k \in rows
               PROVE  k \in transfers <=>
                        \E r \in rows : /\ Verdict(r).src \in Transferring
                                        /\ \/ k = r
                                           \/ /\ Verdict(r).src = "hardlink"
                                              /\ k \in NamesOf("L", r[1])
    BY DEF ShownTransfers
  <2>1. rows = Present \cup {r \in OnBackup : Missing(r)} /\ Considered = Present
    BY DEF Invariant, ResultInv, Considered, Reviewed
  <2>2. ASSUME NEW r \in rows, Chosen(r) PROVE r \in Present
    <3>1. Missing(r) => Verdict(r).src = "ignore"
      BY DEF Missing, Verdict, VerdictBackupOnly
    <3> QED  BY <2>1, <2>2, <3>1 DEF Chosen
  <2>3. k \in transfers <=> \E r \in Present : Chosen(r) /\ (k = r \/ k \in Brought(r))
    BY <2>1 DEF Invariant, ResultInv
  <2> QED  BY <2>1, <2>2, <2>3, VerdictKinds DEF Brought
<1> QED  BY <1>1, InvariantAlways, PTL

\* Without the option to delete what is ignored, which the code does not carry out
\* for a path both sides have, the rows show in both directions what the plan will
\* do.
THEOREM ShownIsPlannedAlways ==
    ASSUME \A c \in Cases : ~c.opts.deleteIgnored
    PROVE  Spec => []ShownIsPlanned
<1> DEFINE Kept == ~opts.deleteIgnored
<1>1. Init => Kept  BY DEF Init
<1>2. Kept /\ [Next]_vars => Kept'  BY SameDisk DEF inputs
<1>3. Invariant /\ Kept => ShownDeletions
  <2> SUFFICES ASSUME Invariant, Kept, phase = "done", NEW k \in rows
               PROVE  k \in deletions <=> Verdict(k).dst = "delete"
    BY DEF ShownDeletions
  <2>1. /\ rows = Present \cup {r \in OnBackup : Missing(r)}
        /\ deletions = {r \in OnBackup : Missing(r) /\ opts.deleteAfter}
    BY DEF Invariant, ResultInv, Considered, Reviewed
  <2>2. CASE k \in Present
    <3>1. k \notin deletions  BY <2>1, <2>2 DEF Missing, Present
    <3>2. Verdict(k).dst # "delete"
      <4>1. VerdictSourceOnly(disk["L"][k[1]], Matched("L", k), NamesOf("L", k[1])).dst # "delete"
        BY DEF VerdictSourceOnly, Both
      <4>2. VerdictBothSides(disk["L"][k[1]], Stat(disk["R"], k[1]), Matched("L", k),
                             NamesOf("L", k[1]), NamesOf("R", k[1]), opts).dst # "delete"
        BY DEF VerdictBothSides, Both
      <4> QED  BY <2>2, <4>1, <4>2 DEF Verdict, Present
    <3> QED  BY <3>1, <3>2
  <2>3. CASE k \notin Present
    <3>1. k \in OnBackup /\ Missing(k)  BY <2>1, <2>3
    <3>2. Verdict(k).dst = IF opts.deleteAfter THEN "delete" ELSE "ignore"
      BY <3>1 DEF Missing, Verdict, VerdictBackupOnly
    <3> QED  BY <2>1, <3>1, <3>2
  <2> QED  BY <2>2, <2>3
<1>4. Spec => []Kept  BY <1>1, <1>2, PTL DEF Spec
<1> QED  BY <1>3, <1>4, InvariantAlways, ShownTransfersAlways, PTL DEF ShownIsPlanned

\* Without delete-after no backup file that is newer than its source, and that the
\* walker of the backup could see, is planned to be overwritten, unless another name
\* of the source file needs to be: in every state of every analysis.
THEOREM NewerKeptAlways == Spec => []NewerKept
<1>1. Invariant => NewerKept
  <2> SUFFICES ASSUME Invariant, ~opts.deleteAfter, NEW k \in transfers, Known("R", k[1]),
                      Cardinality(NamesOf("L", k[1])) <= 1, NewerOnBackup(k[1])
               PROVE  FALSE
    BY DEF NewerKept
  <2> DEFINE p == k[1]
  <2>1. PICK j \in Considered : Chosen(j) /\ (k = j \/ k \in Brought(j))
    BY DEF Invariant, ResultInv
  <2>2. j \in Present /\ k \in Present /\ "L" \in Side /\ "R" \in Side /\ k \in Keys /\ j \in Keys
    BY <2>1, TransfersListed DEF Invariant, Considered, Side, Present
  <2>3. k \notin Brought(j)
    <3> SUFFICES ASSUME k \in Brought(j) PROVE FALSE  OBVIOUS
    <3>1. Verdict(j).src = "hardlink" /\ k \in NamesOf("L", j[1])  BY DEF Brought
    <3>2. NamesOf("L", p) = NamesOf("L", j[1])
      BY <2>2, <3>1, NamesShared DEF Invariant, Keys
    <3>3. Cardinality(NamesOf("L", p)) > 1  BY <3>1, <3>2, HardLinked
    <3> QED  BY <3>3, NamesCount
  <2>4. Chosen(k)  BY <2>1, <2>3
  <2>5. p \in Place /\ k = <<p, "leaf">> /\ KeyAt(disk["R"], p) = k
    BY <2>2, PresentIsHeld DEF NewerOnBackup, KeyAt, Invariant, Present
  <2>6. k \in Held("R")  BY <2>5 DEF Held, NewerOnBackup, Exists
  <2>7. \A a \in Above[p] : <<a, "dir">> \notin ignored
    BY <2>2 DEF Invariant, ListedInv, Present
  <2>8. Looping  BY <2>1 DEF Considered, Looping
  <2>9. state["R"][k] = "present"
    BY <2>2, <2>5, <2>6, <2>7, <2>8, HeldIsListed DEF Invariant, LoopInv
  <2>10. Stat(disk["R"], p) = disk["R"][p]  BY <2>2, <2>9, PresentIsHeld DEF Stat, Invariant
  <2>11. Verdict(k) = VerdictBothSides(disk["L"][p], disk["R"][p], Matched("L", k),
                                       NamesOf("L", p), NamesOf("R", p), opts)
    BY <2>2, <2>9, <2>10 DEF Verdict, Present
  <2>12. Verdict(k).src = "ignore"
    BY <2>11 DEF VerdictBothSides, Both, NewerOnBackup
  <2> QED  BY <2>4, <2>12 DEF Chosen
<1> QED  BY <1>1, InvariantAlways, PTL
-----------------------------------------------------------------------------
(* The plan of an analysis that saw everything.                            *)

\* Both walkers were refused nothing, and nothing is ignored.
Undisturbed == ignored = {} /\ \A s \in Side : ~rootUnknown[s] /\ lost[s] = {}

\* Then what is listed is what the directories hold.
LEMMA AllListed ==
    ASSUME Invariant, Looping, Undisturbed, NEW s \in Side
    PROVE  /\ \A k \in Keys : state[s][k] = IF k \in KeysOf(disk[s]) THEN "present" ELSE "free"
           /\ Listed(s) = KeysOf(disk[s])
           /\ \A k \in KeysOf(disk[s]) : /\ NamesOf(s, k[1]) = AllNames(disk[s], k[1])
                                         /\ Stat(disk[s], k[1]) = disk[s][k[1]]
<1> DEFINE t == disk[s]
<1>1. Held(s) = KeysOf(t)  BY DEF Held, KeysOf
<1>2. KeysOf(t) \subseteq Keys  BY KeyAtKey DEF KeysOf
<1>3. ASSUME NEW k \in KeysOf(t) PROVE state[s][k] = "present"
  <2>1. PICK p \in Place : k = KeyAt(t, p)  BY DEF KeysOf
  <2>2. Known(s, p)  BY DEF Known, Undisturbed
  <2>3. \A a \in Above[p] : <<a, "dir">> \notin ignored  BY DEF Undisturbed
  <2>4. Complete(s) /\ Sighted(s)  BY DEF Invariant, LoopInv
  <2> QED  BY <1>1, <2>1, <2>2, <2>3, <2>4, HeldIsListed DEF Invariant
<1>4. ASSUME NEW k \in Keys, k \notin KeysOf(t) PROVE state[s][k] = "free"
  <2>1. state[s][k] # "present"  BY <1>1, <1>4 DEF Invariant, ListedInv
  <2>2. state[s][k] # "unknown"  BY DEF Invariant, ListedInv, Undisturbed
  <2>3. state[s][k] \in {"free", "present", "unknown"}  BY DEF Invariant, TypeOK
  <2> QED  BY <2>1, <2>2, <2>3
<1>5. \A k \in Keys : state[s][k] = IF k \in KeysOf(t) THEN "present" ELSE "free"
  BY <1>3, <1>4
<1>6. Listed(s) = KeysOf(t)  BY <1>2, <1>5 DEF Listed, Undisturbed
<1>7. \A k \in KeysOf(t) : t[k[1]].access # "nostat"
  BY <1>2, <1>3, PresentIsHeld DEF Invariant
<1> QED  BY <1>5, <1>6, <1>7 DEF NamesOf, AllNames, Stat

\* ... and the verdicts are those the trees call for.
LEMMA AllVerdicts ==
    ASSUME Invariant, Looping, Undisturbed, NEW k \in Keys
    PROVE  Verdict(k) = VerdictOf(disk["L"], disk["R"], k, opts)
<1> DEFINE l == disk["L"]
           r == disk["R"]
           p == k[1]
<1>1. "L" \in Side /\ "R" \in Side  BY DEF Side
<1>2. \A s \in Side : ~Matched(s, k)  BY DEF Matched, Undisturbed
<1>3. state["L"][k] = (IF k \in KeysOf(l) THEN "present" ELSE "free")
      /\ state["R"][k] = (IF k \in KeysOf(r) THEN "present" ELSE "free")
  BY <1>1, AllListed
<1>4. k \in KeysOf(l) => NamesOf("L", p) = AllNames(l, p)  BY <1>1, AllListed
<1>5. k \in KeysOf(r) => NamesOf("R", p) = AllNames(r, p) /\ Stat(r, p) = r[p]
  BY <1>1, AllListed
<1>6. Matched("L", k) = FALSE /\ Matched("R", k) = FALSE  BY <1>1, <1>2 DEF Matched
<1>7. CASE k \notin KeysOf(l)
  BY <1>3, <1>6, <1>7 DEF Verdict, VerdictOf
<1>8. CASE k \in KeysOf(l) /\ k \notin KeysOf(r)
  <2>1. Verdict(k) = VerdictSourceOnly(l[p], FALSE, AllNames(l, p))
    BY <1>3, <1>4, <1>6, <1>8 DEF Verdict
  <2> QED  BY <1>8, <2>1 DEF VerdictOf
<1>9. CASE k \in KeysOf(l) /\ k \in KeysOf(r)
  <2>1. Verdict(k) = VerdictBothSides(l[p], r[p], FALSE, AllNames(l, p), AllNames(r, p), opts)
    BY <1>3, <1>4, <1>5, <1>6, <1>9 DEF Verdict
  <2> QED  BY <1>9, <2>1 DEF VerdictOf
<1> QED  BY <1>7, <1>8, <1>9

\* In whatever order the walkers and the loops come to them, an analysis that was
\* refused nothing plans exactly the transfers and the deletions that the two trees
\* call for: the plan is a function of the directories and the options.
THEOREM PlanCompleteAlways == Spec => []PlanComplete
<1>1. Invariant => PlanComplete
  <2> SUFFICES ASSUME Invariant, phase = "done", Undisturbed
               PROVE  /\ transfers = TransfersOf(disk["L"], disk["R"], opts)
                      /\ deletions = DeletionsOf(disk["L"], disk["R"], opts)
    BY DEF PlanComplete, Undisturbed
  <2> DEFINE l == disk["L"]
             r == disk["R"]
             planned == ToTransfer(l, r, opts)
  <2>1. Looping /\ "L" \in Side /\ "R" \in Side /\ Considered = Present /\ Reviewed = OnBackup
    BY DEF Looping, Side, Considered, Reviewed
  <2>2. Present = KeysOf(l) /\ OnBackup = KeysOf(r)
    <3>1. KeysOf(l) \subseteq Keys /\ KeysOf(r) \subseteq Keys  BY KeyAtKey DEF KeysOf
    <3> QED  BY <2>1, <3>1, AllListed DEF Present, OnBackup
  <2>3. \A j \in Present : Verdict(j) = VerdictOf(l, r, j, opts)
    BY <2>1, AllVerdicts DEF Present
  <2>4. \A j \in Present : Brought(j) = GroupOf(l, r, j, opts)
    BY <2>1, <2>2, <2>3, AllListed DEF Brought, GroupOf
  <2>5. planned = {j \in Present : Chosen(j)}
    BY <2>2, <2>3, VerdictKinds DEF ToTransfer
  <2>6. transfers = planned \cup UNION {GroupOf(l, r, j, opts) : j \in planned}
    <3>1. \A k : k \in transfers <=> \E j \in planned : k = j \/ k \in GroupOf(l, r, j, opts)
      BY <2>1, <2>4, <2>5 DEF Invariant, ResultInv
    <3> QED  BY <3>1
  <2>7. deletions = {k \in OnBackup : Missing(k) /\ opts.deleteAfter}
    BY <2>1 DEF Invariant, ResultInv
  <2>8. \A k \in Keys : Missing(k) <=> k \notin KeysOf(l)
    BY <2>1, AllListed DEF Missing, IsUnknown, Undisturbed
  <2>9. OnBackup \subseteq Keys  BY DEF OnBackup
  <2>10. deletions = DeletionsOf(l, r, opts)
    <3>1. CASE opts.deleteAfter  BY <2>2, <2>7, <2>8, <2>9, <3>1 DEF DeletionsOf
    <3>2. CASE ~opts.deleteAfter  BY <2>7, <3>2 DEF DeletionsOf
    <3> QED  BY <3>1, <3>2
  <2> QED  BY <2>6, <2>10 DEF TransfersOf
<1> QED  BY <1>1, InvariantAlways, PTL
-----------------------------------------------------------------------------
(* Carried out, the plan makes the backup a mirror.                        *)

\* A place within the sight of the walker of a side, not skipped, is listed exactly
\* if it is there.
LEMMA SeenIsListed ==
    ASSUME Invariant, Looping, NEW s \in Side, NEW p \in Place,
           Known(s, p), ~Skipped(p), ~Unsupported(p), Exists(disk[s], p)
    PROVE  state[s][KeyAt(disk[s], p)] = "present" /\ KeyAt(disk[s], p) \in Keys
<1>1. KeyAt(disk[s], p) \in Held(s)  BY DEF Held, Unsupported
<1>2. ASSUME NEW a \in Above[p] PROVE <<a, "dir">> \notin ignored
  <2>1. disk[s][a].kind = "dir"  BY DEF Invariant, Inputs, IsTree, Exists
  <2>2. Exists(disk[s], a) /\ KeyAt(disk[s], a) = <<a, "dir">>  BY <2>1 DEF Exists, KeyAt
  <2> QED  BY <2>2 DEF Skipped
<1> QED  BY <1>1, <1>2, KeyAtKey, HeldIsListed DEF Invariant, LoopInv

LEMMA ListedIsSeen ==
    ASSUME Invariant, NEW s \in Side, NEW k \in Keys, Known(s, k[1]), state[s][k] # "free"
    PROVE  state[s][k] = "present" /\ Exists(disk[s], k[1]) /\ k = KeyAt(disk[s], k[1])
<1>1. state[s][k] # "unknown"  BY DEF Invariant, ListedInv, Known, Covers
<1>2. state[s][k] = "present"  BY <1>1 DEF Invariant, TypeOK
<1> QED  BY <1>2, PresentIsHeld DEF Invariant

\* No deletion removes a place that the source has, alone or with a directory above it.
LEMMA NotDeleted ==
    ASSUME Invariant, phase = "done", NEW p \in Place, Exists(disk["L"], p), ~Unsupported(p),
           Known("R", p), KeyAt(disk["R"], p) = KeyAt(disk["L"], p),
           NEW k \in deletions
    PROVE  k[1] # p /\ ~(k[2] = "dir" /\ k[1] \in Above[p])
<1>1. k \in OnBackup /\ Missing(k) /\ Looping /\ "L" \in Side /\ "R" \in Side
  BY DEF Invariant, ResultInv, Reviewed, Looping, Side
<1>2. k \in Keys /\ state["R"][k] # "free" /\ k \notin Held("L")
  BY <1>1, MissingIsMissing DEF OnBackup, Invariant
<1>3. ASSUME k[1] = p PROVE FALSE
  <2>1. k = KeyAt(disk["R"], p)  BY <1>1, <1>2, <1>3, ListedIsSeen
  <2> QED  BY <1>1, <1>2, <2>1 DEF Held, Unsupported
<1>4. ASSUME k[2] = "dir", k[1] \in Above[p] PROVE FALSE
  <2>1. disk["L"][k[1]].kind = "dir"  BY <1>1, <1>4 DEF Invariant, Inputs, IsTree, Exists
  <2>2. k = KeyAt(disk["L"], k[1])  BY <1>2, <1>4, <2>1 DEF KeyAt, Keys
  <2>3. k[1] \in Place  BY <1>2 DEF Keys
  <2> QED  BY <1>2, <2>1, <2>2, <2>3 DEF Held, Exists
<1> QED  BY <1>3, <1>4

\* Only a file has names to be linked.
LEMMA OneName == ASSUME NEW p, disk["L"][p].kind # "file" PROVE Cardinality(NamesOf("L", p)) = 0
<1>1. NamesOf("L", p) = {}  BY DEF NamesOf, Names, Linked
<1> QED  BY <1>1, FS_EmptySet

\* A place of the source that is not transferred is equal on both sides.
LEMMA LeftAlone ==
    ASSUME Invariant, phase = "done", opts.deleteAfter, NEW p \in Place,
           Known("L", p), Known("R", p), ~Skipped(p), ~Unsupported(p), Exists(disk["L"], p),
           KeyAt(disk["L"], p) \notin transfers
    PROVE  /\ Exists(disk["R"], p) /\ KeyAt(disk["R"], p) = KeyAt(disk["L"], p)
           /\ disk["R"][p].kind = disk["L"][p].kind /\ disk["R"][p].attr = disk["L"][p].attr
           /\ disk["L"][p].kind # "symlink" => disk["R"][p].mtime = disk["L"][p].mtime
           /\ Cardinality(NamesOf("L", p)) > 1 => NamesOf("L", p) = NamesOf("R", p)
<1> DEFINE k == KeyAt(disk["L"], p)
           l == disk["L"][p]
           r == disk["R"][p]
<1>1. Looping /\ "L" \in Side /\ "R" \in Side /\ Considered = Present
  BY DEF Looping, Side, Considered
<1>2. state["L"][k] = "present" /\ k \in Keys /\ k[1] = p  BY <1>1, SeenIsListed, KeyAtKey
<1>3. ~Chosen(k)
  BY <1>1, <1>2 DEF Invariant, ResultInv, Present
<1>4. ~Matched("L", k)  BY <1>1, <1>2 DEF Matched, Skipped
<1>5. state["R"][k] # "free"
  <2> SUFFICES ASSUME state["R"][k] = "free" PROVE FALSE  OBVIOUS
  <2>1. Verdict(k) = VerdictSourceOnly(l, Matched("L", k), NamesOf("L", p))
    BY <1>2 DEF Verdict
  <2>2. Verdict(k).src \in {"hardlink", "symlink", "new"}
    BY <1>4, <2>1 DEF VerdictSourceOnly, Both
  <2> QED  BY <1>3, <2>2 DEF Chosen
<1>6. state["R"][k] = "present" /\ Exists(disk["R"], p) /\ k = KeyAt(disk["R"], p)
  BY <1>1, <1>2, <1>5, ListedIsSeen
<1>7. Stat(disk["R"], p) = r  BY <1>1, <1>2, <1>6, PresentIsHeld DEF Stat, Invariant
<1>8. Verdict(k) = VerdictBothSides(l, r, Matched("L", k), NamesOf("L", p), NamesOf("R", p), opts)
  BY <1>2, <1>6, <1>7 DEF Verdict
<1>9. CASE l.kind = "symlink"
  <2>1. r.kind = "symlink" /\ l.attr = r.attr
    BY <1>3, <1>4, <1>8, <1>9 DEF VerdictBothSides, Both, Chosen
  <2> QED  BY <1>6, <1>9, <2>1, OneName
<1>10. CASE l.kind # "symlink"
  <2>1. /\ l.kind = r.kind /\ l.attr = r.attr /\ l.mtime = r.mtime
        /\ ~LinksDiffer(NamesOf("L", p), NamesOf("R", p))
    BY <1>3, <1>4, <1>8, <1>10 DEF VerdictBothSides, Both, Chosen
  <2> QED  BY <1>6, <2>1 DEF LinksDiffer
<1> QED  BY <1>9, <1>10

\* What only the backup has is deleted.
LEMMA LeftOver ==
    ASSUME Invariant, phase = "done", opts.deleteAfter, NEW p \in Place,
           Known("L", p), Known("R", p), ~Skipped(p), ~Unsupported(p),
           ~Exists(disk["L"], p), Exists(disk["R"], p)
    PROVE  KeyAt(disk["R"], p) \in deletions
<1> DEFINE k == KeyAt(disk["R"], p)
<1>1. Looping /\ "L" \in Side /\ "R" \in Side /\ Reviewed = OnBackup
  BY DEF Looping, Side, Reviewed
<1>2. state["R"][k] = "present" /\ k \in Keys /\ k[1] = p  BY <1>1, SeenIsListed, KeyAtKey
<1>3. state["L"][k] = "free"  BY <1>1, <1>2, ListedIsSeen
<1>4. Missing(k)  BY <1>2, <1>3 DEF Missing, IsUnknown, Known
<1> QED  BY <1>1, <1>2, <1>4 DEF Invariant, ResultInv, OnBackup

\* With delete-after the plan makes the backup a mirror of the source, hard links
\* included, wherever both sides could be read and nothing is ignored: whatever else
\* on either side was refused.
THEOREM PlanMakesMirrorAlways == Spec => []PlanMakesMirror
<1>1. Invariant => PlanMakesMirror
  <2> SUFFICES ASSUME Invariant, phase = "done", opts.deleteAfter, NEW p \in Place,
                      Known("L", p), Known("R", p), ~Skipped(p), ~Unsupported(p)
               PROVE  /\ Outcome(p).kind = disk["L"][p].kind
                      /\ Outcome(p).attr = disk["L"][p].attr
                      /\ Outcome(p).kind # "symlink" => Outcome(p).mtime = disk["L"][p].mtime
                      /\ KeyAt(disk["L"], p) \notin transfers /\ Cardinality(NamesOf("L", p)) > 1
                           => NamesOf("L", p) = NamesOf("R", p)
    BY DEF PlanMakesMirror
  <2>1. CASE KeyAt(disk["L"], p) \in transfers
    BY <2>1 DEF Outcome
  <2>2. CASE KeyAt(disk["L"], p) \notin transfers /\ Exists(disk["L"], p)
    <3>1. \A k \in deletions : k[1] # p /\ ~(k[2] = "dir" /\ k[1] \in Above[p])
      BY <2>2, LeftAlone, NotDeleted
    <3>2. Outcome(p) = disk["R"][p]  BY <2>2, <3>1 DEF Outcome
    <3> QED  BY <2>2, <3>2, LeftAlone
  <2>3. CASE KeyAt(disk["L"], p) \notin transfers /\ ~Exists(disk["L"], p)
    <3>1. disk["L"][p] = Absent  BY <2>3 DEF Invariant, Inputs, NothingIsAbsent, Side
    <3>2. Outcome(p) = Absent
      <4>1. CASE Exists(disk["R"], p)
        <5>1. KeyAt(disk["R"], p) \in deletions /\ KeyAt(disk["R"], p)[1] = p
          BY <2>3, <4>1, LeftOver, KeyAtKey
        <5> QED  BY <2>3, <5>1 DEF Outcome
      <4>2. CASE ~Exists(disk["R"], p)
        <5>1. disk["R"][p] = Absent  BY <4>2 DEF Invariant, Inputs, NothingIsAbsent, Side
        <5> QED  BY <2>3, <5>1 DEF Outcome
      <4> QED  BY <4>1, <4>2
    <3>3. Cardinality(NamesOf("L", p)) = 0  BY <2>3, OneName DEF Exists
    <3> QED  BY <3>1, <3>2, <3>3
  <2> QED  BY <2>1, <2>2, <2>3
<1> QED  BY <1>1, InvariantAlways, PTL
-----------------------------------------------------------------------------
(* The analysis implements Preview.                                        *)

\* An analysis that is over does nothing more.
LEMMA NothingAfter == TypeOK /\ PhaseInv /\ Next => ~Over
<1> SUFFICES ASSUME TypeOK, PhaseInv, Next, Over PROVE FALSE  OBVIOUS
<1>1. phase \in {"done", "cancelled"} /\ walk = [s \in Side |-> "done"]
  BY DEF Over, PhaseInv
<1>2. ~StopRequested  BY <1>1 DEF StopRequested
<1>3. ~Walker  BY <1>1 DEF Walker, OpenWalk, EndWalk, Visit
<1>4. ~Planner  BY <1>1 DEF Planner, StartPlan, StartBackup, Finish, Cancel, PlanSource, PlanBackup
<1> QED  BY <1>2, <1>3, <1>4 DEF Next

\* A running analysis goes on, finishes or gives up.
LEMMA Turns ==
    ASSUME Next, ~Over
    PROVE  \/ ~Over'
           \/ phase' = "done" /\ UNCHANGED <<transfers, deletions>>
           \/ phase' = "cancelled" /\ transfers' = {} /\ deletions' = {}
<1>1. CASE Finish  BY <1>1 DEF Finish, results
<1>2. CASE Cancel  BY <1>2 DEF Cancel
<1>3. CASE ~Finish /\ ~Cancel
  BY <1>3 DEF Next, StopRequested, Walker, OpenWalk, EndWalk, Visit, Planner, StartPlan,
              StartBackup, PlanSource, PlanBackup, Over
<1> QED  BY <1>1, <1>2, <1>3

\* What is planned are paths of the directories.
LEMMA PlanIsOfPaths ==
    ASSUME Invariant
    PROVE  /\ transfers \subseteq Held("L")
           /\ deletions \subseteq Held("R") \cup Unstated("R")
           /\ deletions \cap Held("L") = {}
<1>1. Present \subseteq Held("L")  BY DEF Present, Invariant, ListedInv, Side
<1>2. OnBackup \subseteq Nameable("R")
  <2> SUFFICES ASSUME NEW k \in OnBackup PROVE k \in Nameable("R")  OBVIOUS
  <2>1. state["R"][k] \in {"present", "unknown"}  BY DEF OnBackup, Invariant, TypeOK, Side
  <2> QED  BY <2>1 DEF OnBackup, Invariant, ListedInv, Nameable, Side
<1>3. deletions \subseteq OnBackup  BY DEF Invariant, ResultInv, Reviewed
<1>4. ASSUME NEW k \in deletions PROVE k \notin Held("L")
  <2>1. k \in OnBackup /\ Missing(k) /\ Looping
    BY DEF Invariant, ResultInv, Reviewed, Looping
  <2> QED  BY <2>1, MissingIsMissing DEF Invariant
<1> QED  BY <1>1, <1>2, <1>3, <1>4, TransfersListed DEF Invariant, Nameable

\* A step of the analysis is a step of Preview or none.
LEMMA PreviewStep ==
    ASSUME Invariant, Invariant', [Next]_vars
    PROVE  [Promise!PNext]_(Promise!pvars)
<1>1. disk' = disk  BY SameDisk DEF inputs
<1>2. Held("L")' = Held("L") /\ (Held("R") \cup Unstated("R"))' = Held("R") \cup Unstated("R")
  BY <1>1 DEF Held, Unstated
<1>3. CASE UNCHANGED vars
  BY <1>2, <1>3 DEF vars, results, Over, Promise!pvars
<1>4. CASE Next
  <2>1. ~Over  BY <1>4, NothingAfter DEF Invariant
  <2>2. CASE ~Over'
    BY <1>2, <2>1, <2>2 DEF Over, Promise!pvars
  <2>3. CASE phase' = "done" /\ UNCHANGED <<transfers, deletions>>
    BY <1>2, <2>1, <2>3, PlanIsOfPaths DEF Over, Promise!PNext, Promise!Deliver
  <2>4. CASE phase' = "cancelled" /\ transfers' = {} /\ deletions' = {}
    BY <1>2, <2>1, <2>4 DEF Over, Promise!PNext, Promise!GiveUp
  <2> QED  BY <1>4, <2>1, <2>2, <2>3, <2>4, Turns
<1> QED  BY <1>3, <1>4

\* The analysis delivers one plan, of paths the source has and of paths only the
\* backup has, or nothing: a stopped or failed analysis never leaves a part of one.
THEOREM PreviewImplemented == Spec => ImplementsPreview
<1>1. Init => Promise!PInit
  BY DEF Init, Over, Promise!PInit
<1>2. Invariant /\ Invariant' /\ [Next]_vars => [Promise!PNext]_(Promise!pvars)
  BY PreviewStep
<1> QED  BY <1>1, <1>2, InvariantInit, InvariantStep, PTL DEF Spec, ImplementsPreview, Promise!PSpec
=============================================================================
