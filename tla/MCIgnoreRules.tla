--------------------------- MODULE MCIgnoreRules ----------------------------
EXTENDS IgnoreRules

S1 == {"a", "*", "/"}

(* Every line of up to three characters, as the only line of a file and    *)
(* not ended.                                                              *)
MCFiles ==
  {[lines |-> <<l>>, ended |-> FALSE] :
     l \in {<<x>> : x \in S1} \union (S1 \X S1) \union (S1 \X S1 \X S1)}

MCEdits ==
  {[lines |-> << <<"#", "a">>, <<>>, <<"a", "*", "f">> >>, ended |-> FALSE]}

(* A file and a directory of one name, and one name on three levels.       *)
MCPaths ==
  {<<"a">>, <<"a", "/">>, <<"f", ".", "c">>, <<"a", "/", "f", ".", "c">>,
   <<"a", "/", "b", "/", "f", ".", "c">>}

(* No rule yet: what the menu writes is all there is.                      *)
MCNoRules == {[lines |-> <<>>, ended |-> TRUE]}
=============================================================================
