------------------------------- MODULE RowTable -------------------------------
(***************************************************************************)
(* What the rows of the preview promise: a table that has, for every path, *)
(* the sides it is on and whether it is selected. A message changes what   *)
(* it names and nothing else. RowStore implements it with arrays that are  *)
(* indexed by each other.                                                  *)
(***************************************************************************)
EXTENDS Naturals, Sequences, FiniteSets

CONSTANTS Paths, Dirs

VARIABLE table                  \* a set of [path, sides, selected]

Below(c, p) == Len(p) < Len(c) /\ SubSeq(c, 1, Len(p)) = p

\* One row for a path.
Init == \A v, w \in table : v.path = w.path => v = w

\* The row without one of its sides; a row without sides is no row.
Less(row, s) == IF row.sides = {s} THEN {} ELSE {[row EXCEPT !.sides = @ \ {s}]}

Remove(row, s) == s \in row.sides /\ table' = (table \ {row}) \cup Less(row, s)

Add(row) == "L" \in row.sides /\ table' = (table \ {row}) \cup {[row EXCEPT !.sides = {"L", "R"}]}

\* The side moves into the row of the new path, if there is one that lacks it; else it
\* takes the row along, with its selection, and what stays behind is a new row.
Rename(row, s, q) ==
    /\ s \in row.sides /\ q # row.path
    /\ \/ \E to \in table :
             /\ to.path = q /\ s \notin to.sides
             /\ table' = (table \ {row, to}) \cup Less(row, s) \cup {[to EXCEPT !.sides = @ \cup {s}]}
       \/ /\ \A to \in table : to.path # q
          /\ table' = (table \ {row}) \cup {[x EXCEPT !.selected = FALSE] : x \in Less(row, s)}
                       \cup {[row EXCEPT !.path = q, !.sides = {s}]}

\* A directory is selected with all that is below it; no row keeps a selection
\* that one below it has lost.
Toggle(row) ==
    table' = {IF w = row \/ (row.path \in Dirs /\ Below(w.path, row.path))
              THEN [w EXCEPT !.selected = ~row.selected]
              ELSE IF row.selected /\ Below(row.path, w.path)
              THEN [w EXCEPT !.selected = FALSE] ELSE w : w \in table}

Next ==
    \E row \in table :
        \/ Toggle(row) \/ Add(row)
        \/ \E s \in {"L", "R"} : Remove(row, s) \/ \E q \in Paths : Rename(row, s, q)

Spec == Init /\ [][Next]_table
=============================================================================
