------------------------------ MODULE MCRouting ------------------------------
(* Instances of Routing for TLC. *)
EXTENDS Routing

CONSTANTS r1, c1, gemma, qwen, coder

\* Two covered models that leave the default out and exceed the budget; and a ranking
\* with the default in it.
SomeRankings == {<<qwen, coder>>, <<qwen, gemma>>}
SomeFaults == {{"giveup", "killed"}, {"giveup", "restart"}, {"exit", "crash", "late"}}
=============================================================================
