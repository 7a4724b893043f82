----------------------------- MODULE MCHashMap ------------------------------
EXTENDS HashMap, TLC

CONSTANTS a, b, c, d, v, w

(* 0 and 8 collide until the table has sixteen slots, 0 and 1 meet on the  *)
(* second slot that 0 tries, equal numbers collide for ever.               *)
MCHashes == {0, 1, 8}
MCLengths == {0, 2}

Symmetry == Permutations(Keys) \union Permutations(Values)
=============================================================================
