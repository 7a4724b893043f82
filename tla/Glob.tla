-------------------------------- MODULE Glob --------------------------------
(***************************************************************************)
(* What it means that a pattern matches a string, both sequences of        *)
(* characters: every character stands for itself and a star for any run of *)
(* characters, or of characters other than the slash when the star is      *)
(* bounded.  It is the meaning the loop of ignore_patterns.c is held to.   *)
(***************************************************************************)
EXTENDS Integers, Sequences

STAR == "*"
SLASH == "/"

(* Rest[i] are the positions of str from which on it matches the rest of   *)
(* the pattern, from its i-th character on.                                *)
Rest(pat, str, bounded) ==
  LET rest[i \in 1..(Len(pat) + 1)] ==
        IF i = Len(pat) + 1 THEN {Len(str) + 1}
        ELSE IF pat[i] = STAR
        THEN {j \in 1..(Len(str) + 1) :
                \E e \in rest[i + 1] :
                  j <= e /\ (bounded => \A k \in j..(e - 1) : str[k] # SLASH)}
        ELSE {j \in 1..Len(str) : str[j] = pat[i] /\ j + 1 \in rest[i + 1]}
  IN  rest

Matches(pat, str, bounded) == 1 \in Rest(pat, str, bounded)[1]
=============================================================================
