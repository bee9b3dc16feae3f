----------------------------- MODULE MCMyShell ------------------------------
(***************************************************************************)
(* The shell with a short descriptor table, small pipes and a few lines.   *)
(***************************************************************************)
EXTENDS MyShell, TLC

\* `gen' fits into a pipe and `flood' does not; `cat' copies; `false' fails.
Programs ==
  "gen"   :> [reads |-> FALSE, writes |-> PipeCap, fails |-> FALSE] @@
  "flood" :> [reads |-> FALSE, writes |-> PipeCap + 1, fails |-> FALSE] @@
  "cat"   :> [reads |-> TRUE, writes |-> 0, fails |-> FALSE] @@
  "false" :> [reads |-> FALSE, writes |-> 0, fails |-> TRUE]

TypedLines ==
  { <<>>, <<"|", "cat">>, <<"cat", "<">>, <<"exit">>,
    <<"gen", "|", "cat", "|", "cat">>, <<"flood", "|", "cat">>,
    <<"gen", "|", "cat", "<", "f">>, <<"cat", "<", "f", ">", "g">>,
    <<"false", "|", "cat">>, <<"gen", "|", "nocommand">>, <<"gen", ">", "g", "|", "cat">>,
    <<"pwd", "|", "cd", "d">>, <<"cd", "|", "cat">>, <<"cd", "d", ">", "f">>,
    <<"cd", "<", "f">>, <<"cd", "d", "e">>,
    <<"cd", "|", "cd">>, <<"cd", "d", "e", "|", "cat">>}
=============================================================================
