----------------------------- MODULE Dictionary -----------------------------
(***************************************************************************)
(* What a map of cbase promises its callers: a finite function from keys   *)
(* to values and the answer of the last call, with no slots, hashes or     *)
(* tombstones.  HashMap implements it.                                     *)
(***************************************************************************)
EXTENDS Naturals

CONSTANTS Keys, Values, NoValue       \* NoValue is none of the Values

VARIABLES dict, answer

vars == <<dict, answer>>

Held == DOMAIN dict

With(k, v) == [x \in Held \union {k} |-> IF x = k THEN v ELSE dict[x]]

Init ==
  /\ dict = [k \in {} |-> NoValue]
  /\ answer = TRUE

Insert(k, v) ==
  /\ dict' = IF k \in Held THEN dict ELSE With(k, v)
  /\ answer' = (k \notin Held)

Overwrite(k, v) ==
  /\ dict' = With(k, v)
  /\ answer' = TRUE

Lookup(k) ==
  /\ answer' = IF k \in Held THEN dict[k] ELSE NoValue
  /\ UNCHANGED dict

Remove(k) ==
  /\ dict' = [x \in Held \ {k} |-> dict[x]]
  /\ answer' = (k \in Held)

Zero ==
  /\ dict' = [k \in {} |-> NoValue]
  /\ UNCHANGED answer

Next ==
  \/ \E k \in Keys, v \in Values : Insert(k, v) \/ Overwrite(k, v)
  \/ \E k \in Keys : Lookup(k) \/ Remove(k)
  \/ Zero

Spec == Init /\ [][Next]_vars
=============================================================================
